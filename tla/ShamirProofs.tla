---------------------------- MODULE ShamirProofs ----------------------------
(***************************************************************************)
(* What is split comes back, and fewer shards than the threshold tell      *)
(* nothing, for every prime, every base and every bound of the module      *)
(* Shamir.  First the operators: the library's interpolation, then bytes   *)
(* and numbers, then whitespace, then split_token and reconstruct_token;   *)
(* then the inductive invariant and the theorems.                          *)
(***************************************************************************)
EXTENDS Shamir, SharingProofs

-----------------------------------------------------------------------------
(* The field *)

\* The modulus is a prime larger than the number of shards.
LEMMA PrimeFacts ==
    /\ Prime \in Nat \ {0} /\ Prime \in Nat /\ Prime \in Int /\ Prime >= 4
    /\ MaxTotal \in Nat /\ MaxTotal >= 3 /\ MaxTotal < Prime
    /\ Field \subseteq Int
BY ShamirAssumption DEF Field

\* Remainders modulo the prime are in the field, and its elements are their own.
LEMMA FieldMod ==
    /\ \A x \in Int : x % Prime \in Field
    /\ \A x \in Field : x % Prime = x
<1>1. \A x \in Int : x % Prime \in Field
  BY PrimeFacts, DivMod DEF Field
<1>2. \A x \in Field : x % Prime = x
  BY PrimeFacts DEF Field
<1> QED BY <1>1, <1>2

\* FieldInverse holds inverses, what the library computes as pow(a, -1, p).
LEMMA FieldInverseDef ==
    ASSUME NEW a \in Int, a % Prime # 0
    PROVE  FieldInverse[a % Prime] \in Int /\ Congruent(FieldInverse[a % Prime] * a, 1, Prime)
<1> DEFINE r == a % Prime
           b == FieldInverse[r]
<1>1. r \in Field \ {0} /\ r \in Int /\ r % Prime = r /\ 0 \in Field
  BY PrimeFacts, FieldMod DEF Field
<1>2. \E z \in Field : (r * z) % Prime = 1
  <2> Prime \in Nat /\ Prime >= 2
    BY PrimeFacts
  <2> QED BY <1>1, ShamirAssumption, PrimeInverse DEF Field
<1>3. Congruent(r, a, Prime)
  BY PrimeFacts, CongruentMod
<1>4. b = CHOOSE z \in Field : (r * z) % Prime = 1
  BY <1>1 DEF FieldInverse
<1> HIDE DEF r, b
<1>5. b \in Field /\ (r * b) % Prime = 1
  BY <1>2, <1>4
<1>6. b \in Int /\ r * b \in Int /\ 1 \in Int /\ 1 % Prime = 1
  <2> b \in Int
    BY <1>5, PrimeFacts
  <2> QED BY <1>1, PrimeFacts
<1>7. Congruent(r * b, 1, Prime)
  BY <1>5, <1>6, CongruentIff, PrimeFacts
<1>8. PICK i \in Int : r = a + i * Prime
  BY <1>3 DEF Congruent
<1>9. PICK j \in Int : r * b = 1 + j * Prime
  BY <1>7 DEF Congruent
<1>10. b * a = 1 + (j - b * i) * Prime /\ j - b * i \in Int
  BY <1>1, <1>6, <1>8, <1>9, PrimeFacts
<1>11. Congruent(b * a, 1, Prime)
  BY <1>10 DEF Congruent
<1> QED BY <1>6, <1>11 DEF b, r

\* Two indices, or an index and 0, differ modulo the prime.
LEMMA DifferentIndices ==
    ASSUME NEW i \in 0..MaxTotal, NEW j \in 0..MaxTotal, i # j
    PROVE  j - i \in Int /\ (j - i) % Prime # 0
<1>1. MaxTotal \in Nat /\ MaxTotal < Prime /\ Prime \in Nat \ {0}
  BY PrimeFacts
<1>2. j - i \in Int /\ j - i # 0 /\ j - i > -Prime /\ j - i < Prime
  BY <1>1
<1>3. ASSUME (j - i) % Prime = 0
      PROVE  FALSE
  <2> DEFINE d == j - i
             q == d \div Prime
  <2>1. q \in Int /\ d = q * Prime + 0
    <3> HIDE DEF d
    <3> d \in Int /\ d % Prime = 0
      BY <1>2, <1>3 DEF d
    <3> QED BY <1>1, DivMod
  <2>2. d \in Int /\ d # 0 /\ d > -Prime /\ d < Prime
    BY <1>2
  <2> HIDE DEF q, d
  <2>3. q # 0
    BY <1>1, <2>1, <2>2
  <2>4. CASE q >= 1
    <3> q * Prime >= Prime
      BY <1>1, <2>1, <2>4
    <3> QED BY <1>1, <2>1, <2>2
  <2>5. CASE q <= -1
    <3> q * Prime <= -Prime
      BY <1>1, <2>1, <2>5
    <3> QED BY <1>1, <2>1, <2>2
  <2> QED BY <2>1, <2>3, <2>4, <2>5
<1> QED BY <1>2, <1>3

-----------------------------------------------------------------------------
(* Interpolation of shards *)

\* What a shard may be.
Share == [index : 1..MaxTotal, value : Field, length : 0..MaxLength \cup {OldFormat}]

\* Shards with indices of their own.
Distinct(points) ==
    /\ points \in Seq(Share)
    /\ \A i, j \in 1..Len(points) : i # j => points[i].index # points[j].index

\* The coordinates of the shards, and the inverses of their differences.
Indices(points) == [i \in 1..Len(points) |-> points[i].index]

Inverses(points) ==
    [i \in 1..Len(points) |-> [j \in 1..Len(points) |->
        IF i = j THEN 0 ELSE FieldInverse[(points[j].index - points[i].index) % Prime]]]

\* The coordinates of shards are integers, their values in the field.
LEMMA ShareType ==
    ASSUME NEW points, Distinct(points)
    PROVE  /\ Len(points) \in Nat
           /\ \A i \in 1..Len(points) : /\ points[i].value \in Field /\ points[i].value \in Int
                                         /\ points[i].index \in 1..MaxTotal /\ points[i].index \in Int
<1>1. Len(points) \in Nat /\ \A i \in 1..Len(points) : points[i] \in Share
  BY DEF Distinct
<1>2. \A z \in Share : /\ z.value \in Field /\ z.value \in Int
                        /\ z.index \in 1..MaxTotal /\ z.index \in Int
  <2> Field \subseteq Int /\ 1..MaxTotal \subseteq Int
    BY PrimeFacts
  <2> QED BY DEF Share
<1> QED BY <1>1, <1>2

\* Distinct shards are points to interpolate through.
LEMMA DistinctPoints ==
    ASSUME NEW points, Distinct(points)
    PROVE  Points(Prime, Len(points), Indices(points), Inverses(points))
<1> DEFINE n == Len(points)
           x == Indices(points)
           w == Inverses(points)
<1>1. n \in Nat
  BY DEF Distinct
<1>2. \A i \in 1..n : points[i].index \in 1..MaxTotal /\ points[i].index \in Int
  BY ShareType
<1>3. x \in [1..n -> Int] /\ \A i \in 1..n : x[i] = points[i].index
  BY <1>2 DEF Indices
<1>4. ASSUME NEW i \in 1..n, NEW j \in 1..n, i # j
      PROVE  /\ FieldInverse[(points[j].index - points[i].index) % Prime] \in Int
             /\ Congruent(FieldInverse[(points[j].index - points[i].index) % Prime]
                             * (points[j].index - points[i].index), 1, Prime)
  <2> DEFINE a == points[i].index
             b == points[j].index
             d == b - a
  <2>1. a \in 0..MaxTotal /\ b \in 0..MaxTotal /\ a # b
    BY <1>2, <1>4, PrimeFacts DEF Distinct
  <2> HIDE DEF a, b
  <2>2. d \in Int /\ d % Prime # 0
    BY <2>1, DifferentIndices
  <2> HIDE DEF d
  <2>3. FieldInverse[d % Prime] \in Int /\ Congruent(FieldInverse[d % Prime] * d, 1, Prime)
    BY <2>2, FieldInverseDef
  <2> QED BY <2>3 DEF a, b, d
<1>5. w \in [1..n -> [1..n -> Int]]
  BY <1>4 DEF Inverses
<1>6. \A i, j \in 1..n : i # j => Congruent(w[i][j] * (x[j] - x[i]), 1, Prime)
  BY <1>3, <1>4 DEF Inverses
<1> QED BY <1>1, <1>3, <1>5, <1>6, PrimeFacts DEF Points

\* The library's weights are the weights of these points.
LEMMA BasisIsWeight ==
    ASSUME NEW points, Distinct(points), NEW i \in 1..Len(points)
    PROVE  Basis(points, i)
             = Weight(1..Len(points), i, Len(points), Indices(points), Inverses(points)) % Prime
<1> DEFINE n == Len(points)
           x == Indices(points)
           w == Inverses(points)
           f == [j \in 1..n |-> IF j = i THEN 1 ELSE Factor(points, i, j)]
           g == Factors(1..n, i, n, x, w)
<1>1. \A j \in 1..n : f[j] = g[j]
  <2> TAKE j \in 1..n
  <2>1. CASE j = i
    BY <2>1 DEF Factors
  <2>2. CASE j # i
    <3>1. f[j] = points[j].index * FieldInverse[(points[j].index - points[i].index) % Prime]
      BY <2>2 DEF Factor
    <3>2. g[j] = x[j] * w[i][j]
      BY <2>2 DEF Factors
    <3>3. x[j] = points[j].index
          /\ w[i][j] = FieldInverse[(points[j].index - points[i].index) % Prime]
      BY <2>2 DEF Indices, Inverses
    <3> QED BY <3>1, <3>2, <3>3
  <2> QED BY <2>1, <2>2
<1>2. f = g
  BY <1>1 DEF Factors
<1>3. Basis(points, i) = ProductOf(f, n) % Prime
  BY DEF Basis
<1>4. Weight(1..n, i, n, x, w) = ProductOf(g, n)
  BY DEF Weight
<1> QED BY <1>2, <1>3, <1>4

\* The value the library computes is that of the polynomial.
LEMMA EvaluateValue ==
    ASSUME NEW secret \in Int, NEW m \in Nat, NEW c \in [1..m -> Int], NEW y \in Int
    PROVE  /\ Value(secret, c, y, m, m) \in Int
           /\ Evaluate(secret, c, y) = Value(secret, c, y, m, m) % Prime
<1>1. Len(c) = m
  OBVIOUS
<1>2. Evaluate(secret, c, y) = (secret + SumOf(Monomials(c, y, m), m)) % Prime
  BY <1>1 DEF Evaluate, Monomials
<1>3. AreValues(secret, c, y, m)
  BY ValueDef
<1>4. m \in 0..m
  OBVIOUS
<1> QED BY <1>2, <1>3, <1>4 DEF AreValues

\* Interpolation yields a number of the field.
LEMMA InterpolateType ==
    ASSUME NEW points, Distinct(points)
    PROVE  Interpolate(points) \in Field
<1> DEFINE n == Len(points)
           V == [i \in 1..n |-> points[i].value * Basis(points, i)]
<1>1. n \in Nat
  BY DEF Distinct
<1>2. \A i \in 1..n : points[i].value \in Int
  BY ShareType
<1>3. \A i \in 1..n : Basis(points, i) \in Int
  <2> TAKE i \in 1..n
  <2> DEFINE W == Weight(1..n, i, n, Indices(points), Inverses(points))
  <2>1. W \in Int
    BY DistinctPoints, WeightType
  <2>2. Basis(points, i) = W % Prime
    BY BasisIsWeight
  <2> HIDE DEF W
  <2> QED BY <2>1, <2>2, PrimeFacts, FieldMod
<1>4. V \in [1..n -> Int]
  <2> \A a, b \in Int : a * b \in Int
    OBVIOUS
  <2> QED BY <1>2, <1>3
<1>5. Interpolate(points) = SumOf(V, n) % Prime
  BY DEF Interpolate
<1> HIDE DEF V
<1> QED BY <1>1, <1>4, <1>5, SumType, FieldMod

\* Interpolation from more distinct shards than the degree of their polynomial yields the secret.
LEMMA InterpolateSecret ==
    ASSUME NEW points, Distinct(points),
           NEW secret \in Field, NEW m \in Nat, m < Len(points), NEW coefficients \in [1..m -> Field],
           \A i \in 1..Len(points) :
              points[i].value = Evaluate(secret, coefficients, points[i].index)
    PROVE  Interpolate(points) = secret
<1> DEFINE n == Len(points)
           x == Indices(points)
           w == Inverses(points)
           v == [i \in 1..n |-> points[i].value]
           V == [i \in 1..n |-> points[i].value * Basis(points, i)]
           c == coefficients
<1>1. n \in Nat /\ Points(Prime, n, x, w)
  BY DistinctPoints DEF Distinct
<1>2. \A i \in 1..n : points[i].value \in Int /\ points[i].index \in Int
  BY ShareType
<1>3. v \in [1..n -> Int] /\ \A i \in 1..n : v[i] = points[i].value
  BY <1>2
<1>4. c \in [1..m -> Int] /\ secret \in Int
  <2>1. Field \subseteq Int
    BY PrimeFacts
  <2>2. c \in [1..m -> Int]
    BY <2>1
  <2> QED BY <2>1, <2>2
<1>5. ASSUME NEW i \in 1..n
      PROVE  Congruent(v[i], Value(secret, c, x[i], m, m), Prime)
  <2> DEFINE y == points[i].index
             Y == Value(secret, c, y, m, m)
  <2>1. x[i] = y /\ y \in Int
    BY <1>2 DEF Indices
  <2>2. v[i] = Evaluate(secret, c, y)
    BY <1>3
  <2> HIDE DEF y, c
  <2>3. Evaluate(secret, c, y) = Y % Prime /\ Y \in Int
    BY <1>4, <2>1, EvaluateValue
  <2> HIDE DEF Y
  <2>4. Congruent(Y % Prime, Y, Prime)
    BY <2>3, CongruentMod, PrimeFacts
  <2> QED BY <2>1, <2>2, <2>3, <2>4 DEF Y
<1>6. ASSUME NEW i \in 1..n
      PROVE  /\ points[i].value * Basis(points, i) \in Int
             /\ Congruent(points[i].value * Basis(points, i), v[i] * Weight(1..n, i, n, x, w), Prime)
  <2> DEFINE W == Weight(1..n, i, n, x, w)
             B == Basis(points, i)
             a == points[i].value
  <2>1. W \in Int
    BY <1>1, WeightType
  <2>2. B = W % Prime /\ a \in Int /\ v[i] = a
    BY <1>2, BasisIsWeight
  <2> HIDE DEF W, B, a
  <2>3. B \in Int /\ Congruent(B, W, Prime)
    <3>1. Congruent(W % Prime, W, Prime)
      BY <2>1, CongruentMod, PrimeFacts
    <3>2. W % Prime \in Int
      BY <2>1, PrimeFacts, FieldMod
    <3> QED BY <2>2, <3>1, <3>2
  <2>4. Congruent(a * B, a * W, Prime) /\ a * B \in Int
    <3> Prime \in Int
      BY PrimeFacts
    <3> QED BY <2>1, <2>2, <2>3, CongruentScale
  <2> QED BY <2>2, <2>4 DEF W, B, a
<1>7. V \in [1..n -> Int] /\ \A i \in 1..n : Congruent(V[i], v[i] * Weight(1..n, i, n, x, w), Prime)
  BY <1>6
<1>8. Interpolate(points) = SumOf(V, n) % Prime
  BY DEF Interpolate
<1> HIDE DEF v, V, x, w, c, n
<1>9. Congruent(SumOf(V, n), secret, Prime)
  BY <1>1, <1>3, <1>4, <1>5, <1>7, Interpolation DEF n
<1>10. SumOf(V, n) \in Int
  BY <1>1, <1>7, SumType
<1> DEFINE S == SumOf(V, n)
<1> HIDE DEF S
<1>11. S % Prime = secret % Prime
  BY <1>4, <1>9, <1>10, CongruentIff, PrimeFacts DEF S
<1>12. secret % Prime = secret
  BY FieldMod
<1> QED BY <1>8, <1>11, <1>12 DEF S

-----------------------------------------------------------------------------
(* Secrecy *)

\* n shards of a polynomial of degree n are also those of another one of degree n,
\* whatever secret that one is to have.
LEMMA OtherSecret ==
    ASSUME NEW S \in SUBSET (1..MaxTotal), NEW n \in Nat, Cardinality(S) = n,
           NEW secret \in Field, NEW other \in Field, NEW c \in [1..n -> Field]
    PROVE  \E e \in [1..n -> Field] :
              \A i \in S : Evaluate(other, e, i) = Evaluate(secret, c, i)
<1>1. PICK x \in [1..n -> S] : \A i \in S : \E j \in 1..n : x[j] = i
  <2>1. IsFiniteSet(1..MaxTotal)
    BY FS_Interval, PrimeFacts
  <2>2. IsFiniteSet(S)
    BY <2>1, FS_Subset
  <2>3. ExistsBijection(1..n, S)
    BY <2>2, FS_CardinalityType
  <2> QED BY <2>3 DEF ExistsBijection, Bijection, Surjection
<1> DEFINE u == [j \in 1..n |-> FieldInverse[x[j] % Prime]]
<1>2. x \in [1..n -> Int] /\ S \subseteq Int
  <2> S \subseteq Int
    BY PrimeFacts
  <2> QED OBVIOUS
<1>3. ASSUME NEW j \in 1..n
      PROVE  u[j] \in Int /\ Congruent(u[j] * x[j], 1, Prime)
  <2> DEFINE y == x[j]
  <2>1. y \in 0..MaxTotal /\ y # 0 /\ 0 \in 0..MaxTotal /\ y \in Int
    <3>1. y \in S
      OBVIOUS
    <3>2. y \in 1..MaxTotal
      BY <3>1
    <3> HIDE DEF y
    <3> QED BY <3>2, PrimeFacts
  <2>2. u[j] = FieldInverse[y % Prime]
    OBVIOUS
  <2> HIDE DEF y, u
  <2>3. y - 0 = y
    BY <2>1
  <2>4. (y - 0) % Prime # 0
    BY <2>1, DifferentIndices
  <2>5. y % Prime # 0
    BY <2>3, <2>4
  <2>6. FieldInverse[y % Prime] \in Int /\ Congruent(FieldInverse[y % Prime] * y, 1, Prime)
    BY <2>1, <2>5, FieldInverseDef
  <2> QED BY <2>2, <2>6 DEF y
<1>4. u \in [1..n -> Int]
  BY <1>3
<1> HIDE DEF u
<1>5. PICK d \in [1..n -> Int] : \A j \in 1..n : Congruent(Value(1, d, x[j], n, n), 0, Prime)
  <2> \A j \in 1..n : Congruent(u[j] * x[j], 1, Prime)
    BY <1>3
  <2> QED BY <1>2, <1>4, Vanishing, PrimeFacts
<1> DEFINE t == other - secret
           e == [k \in 1..n |-> (c[k] + t * d[k]) % Prime]
<1>6. secret \in Int /\ other \in Int /\ t \in Int /\ secret + t = other
  <2> secret \in Int /\ other \in Int
    BY PrimeFacts
  <2> QED OBVIOUS
<1> HIDE DEF t
<1>7. c \in [1..n -> Int]
  <2> Field \subseteq Int
    BY PrimeFacts
  <2> QED OBVIOUS
<1>8. ASSUME NEW k \in 1..n
      PROVE  e[k] \in Field /\ e[k] \in Int /\ Congruent(e[k], c[k] + t * d[k], Prime)
  <2> DEFINE z == c[k] + t * d[k]
  <2>1. z \in Int
    <3> c[k] \in Int /\ d[k] \in Int
      BY <1>7
    <3> \A a, b \in Int : a + t * b \in Int
      BY <1>6
    <3> QED OBVIOUS
  <2>2. e[k] = z % Prime
    OBVIOUS
  <2> HIDE DEF z, e
  <2>3. z % Prime \in Field /\ z % Prime \in Int /\ Congruent(z % Prime, z, Prime)
    BY <2>1, CongruentMod, PrimeFacts, FieldMod
  <2> QED BY <2>2, <2>3 DEF z
<1>9. e \in [1..n -> Field] /\ e \in [1..n -> Int]
  BY <1>8
<1> HIDE DEF e
<1>10. ASSUME NEW i \in S
       PROVE  Evaluate(other, e, i) = Evaluate(secret, c, i)
  <2> DEFINE X == Value(other, e, i, n, n)
             Y == Value(secret, c, i, n, n)
  <2>1. i \in Int /\ Congruent(Value(1, d, i, n, n), 0, Prime)
    BY <1>1, <1>2, <1>5
  <2>2. Congruent(Value(secret + t, e, i, n, n), Y, Prime)
    BY <1>6, <1>7, <1>8, <1>9, <2>1, ValueShift, PrimeFacts
  <2>3. Congruent(X, Y, Prime)
    BY <1>6, <2>2
  <2>4. X \in Int /\ Evaluate(other, e, i) = X % Prime
    BY <1>6, <1>9, <2>1, EvaluateValue
  <2>5. Y \in Int /\ Evaluate(secret, c, i) = Y % Prime
    BY <1>6, <1>7, <2>1, EvaluateValue
  <2> HIDE DEF X, Y
  <2> QED BY <2>3, <2>4, <2>5, CongruentIff, PrimeFacts
<1> QED BY <1>9, <1>10

-----------------------------------------------------------------------------
(* Tokens and numbers *)

\* Bytes are digits in base Base, and all numbers of MaxLength digits are in the field.
LEMMA BaseFacts ==
    /\ Base \in Nat \ {0} /\ Base \in Nat /\ Base \in Int /\ Base >= 2 /\ MaxLength \in Nat
    /\ Bytes \subseteq Nat /\ \A b \in Bytes : b < Base
    /\ Power(Base, MaxLength) <= Prime
    /\ \A k \in Nat : Power(Base, k) \in Nat \ {0} /\ Power(Base, k + 1) = Power(Base, k) * Base
<1>1. Base \in Nat \ {0} /\ Base \in Nat /\ Base \in Int /\ Base >= 2 /\ MaxLength \in Nat
      /\ Power(Base, MaxLength) <= Prime
  BY ShamirAssumption
<1>2. Bytes \subseteq Nat /\ \A b \in Bytes : b < Base
  BY <1>1 DEF Bytes
<1>3. \A k \in Nat : Power(Base, k) \in Nat \ {0}
  BY <1>1, PowerPositive
<1>4. \A k \in Nat : Power(Base, k + 1) = Power(Base, k) * Base
  BY <1>1, PowerDef
<1> QED BY <1>1, <1>2, <1>3, <1>4

\* The bytes of a token are numbers below Base.
LEMMA BytesAt ==
    ASSUME NEW t \in Seq(Bytes)
    PROVE  Len(t) \in Nat /\ \A i \in 1..Len(t) : t[i] \in Bytes /\ t[i] \in Nat /\ t[i] < Base
<1>1. Len(t) \in Nat /\ \A i \in 1..Len(t) : t[i] \in Bytes
  OBVIOUS
<1>2. \A b \in Bytes : b \in Nat /\ b < Base
  BY BaseFacts
<1> QED BY <1>1, <1>2

\* v[i] is the number the first i bytes of t stand for.
AreNumbers(v, t) ==
    /\ v \in [0..Len(t) -> Nat]
    /\ v[0] = 0
    /\ \A i \in 1..Len(t) : v[i] = v[i - 1] * Base + t[i]

NumberStep(t) == [i \in 1..Len(t) |-> [n \in Nat |-> n * Base + t[i]]]

\* The recursion of Numbers holds.
LEMMA NumbersDef ==
    ASSUME NEW t \in Seq(Bytes)
    PROVE  AreNumbers(Numbers(t), t)
<1> DEFINE L == Len(t)
           Eq(v) == v = [i \in 0..L |-> IF i = 0 THEN 0 ELSE v[i - 1] * Base + t[i]]
<1>0. L \in Nat /\ \A i \in 1..L : t[i] \in Nat
  BY BytesAt
<1>1. PICK s \in [0..L -> Nat] : Iterates(s, L, 0, NumberStep(t))
  <2>1. \A n, b \in Nat : n * Base + b \in Nat
    <3> Base \in Nat
      BY BaseFacts
    <3> QED OBVIOUS
  <2>2. NumberStep(t) \in [1..L -> [Nat -> Nat]] /\ 0 \in Nat
    BY <1>0, <2>1 DEF NumberStep
  <2> QED BY <1>0, <2>2, Recursion
<1>2. /\ s[0] = 0
      /\ \A i \in 1..L : s[i] = s[i - 1] * Base + t[i]
  <2>1. \A i \in 1..L : s[i - 1] \in Nat
    BY <1>0
  <2> QED BY <1>1, <2>1 DEF Iterates, NumberStep
<1>3. Eq(s)
  <2>1. \A i \in 0..L : i # 0 => i \in 1..L
    BY <1>0
  <2> QED BY <1>2, <2>1
<1>4. Eq(Numbers(t))
  <2>1. Numbers(t) = CHOOSE v : Eq(v)
    BY DEF Numbers
  <2> HIDE DEF Eq
  <2> QED BY <1>3, <2>1
<1>5. ASSUME NEW v, Eq(v)
      PROVE  v = s
  <2> DEFINE G == {i \in 0..L : v[i] = s[i]}
  <2>1. 0 \in G
    BY <1>0, <1>2, <1>5
  <2>2. ASSUME NEW i \in 1..L, i - 1 \in G
        PROVE  i \in G
    <3>1. i \in 0..L /\ i # 0 /\ v[i - 1] = s[i - 1]
      BY <1>0, <2>2
    <3>2. v[i] = v[i - 1] * Base + t[i]
      BY <1>5, <3>1
    <3> QED BY <1>2, <3>1, <3>2
  <2>3. \A i \in 0..L : i \in G
    <3> HIDE DEF G, Eq
    <3> QED BY <1>0, <2>1, <2>2, InductionTo
  <2> QED BY <2>3, <1>5
<1>6. Numbers(t) = s
  <2> HIDE DEF Eq
  <2> QED BY <1>4, <1>5
<1> QED BY <1>2, <1>6 DEF AreNumbers

\* The first i bytes make a number below Base^i.
LEMMA NumbersBound ==
    ASSUME NEW t \in Seq(Bytes)
    PROVE  \A i \in 0..Len(t) : Numbers(t)[i] < Power(Base, i)
<1> DEFINE L == Len(t)
           v == Numbers(t)
           G == {i \in 0..L : v[i] < Power(Base, i)}
<1>0. L \in Nat /\ \A i \in 1..L : t[i] \in Nat /\ t[i] < Base
  BY BytesAt
<1>1. AreNumbers(v, t)
  BY NumbersDef
<1> HIDE DEF v
<1>2. 0 \in G
  <2> Power(Base, 0) = 1
    BY BaseFacts, PowerDef
  <2> QED BY <1>0, <1>1 DEF AreNumbers
<1>3. ASSUME NEW i \in 1..L, i - 1 \in G
      PROVE  i \in G
  <2> DEFINE a == v[i - 1]
             b == t[i]
             P == Power(Base, i - 1)
  <2>1. a \in Nat /\ b \in Nat /\ b < Base /\ v[i] = a * Base + b
    BY <1>0, <1>1 DEF AreNumbers
  <2>2. P \in Nat /\ Power(Base, i) = P * Base
    <3> i - 1 \in Nat /\ (i - 1) + 1 = i
      OBVIOUS
    <3> QED BY BaseFacts
  <2>3. a < P
    BY <1>3
  <2> HIDE DEF a, b, P
  <2>4. a * Base + b < P * Base
    <3>1. Base \in Nat
      BY BaseFacts
    <3>2. (a + 1) * Base <= P * Base
      BY <2>1, <2>2, <2>3, <3>1
    <3> QED BY <2>1, <2>2, <3>1, <3>2
  <2>5. v[i] < Power(Base, i) /\ i \in 0..L
    BY <2>1, <2>2, <2>4
  <2> QED BY <2>5
<1>4. \A i \in 0..L : i \in G
  <2> HIDE DEF G
  <2> QED BY <1>0, <1>2, <1>3, InductionTo
<1> QED BY <1>4 DEF v

\* The last k bytes are the remainder of the number modulo Base^k.
LEMMA NumbersSplit ==
    ASSUME NEW t \in Seq(Bytes), NEW k \in 0..Len(t)
    PROVE  \E r \in 0..(Power(Base, k) - 1) :
              ToInt(t) = Numbers(t)[Len(t) - k] * Power(Base, k) + r
<1> DEFINE L == Len(t)
           v == Numbers(t)
           n == v[L]
           P(i, r) == n = v[L - i] * Power(Base, i) + r
           G == {i \in 0..L : \E r \in 0..(Power(Base, i) - 1) : P(i, r)}
<1>0. L \in Nat /\ \A i \in 1..L : t[i] \in Nat /\ t[i] < Base
  BY BytesAt
<1>1. AreNumbers(v, t) /\ ToInt(t) = n
  BY NumbersDef DEF ToInt
<1> HIDE DEF v
<1>2. n \in Nat
  BY <1>0, <1>1 DEF AreNumbers
<1>3. 0 \in G
  <2>1. Power(Base, 0) = 1 /\ L - 0 = L
    BY <1>0, BaseFacts, PowerDef
  <2>2. n = v[L - 0] * Power(Base, 0) + 0
    BY <1>2, <2>1
  <2>3. 0 \in 0..(Power(Base, 0) - 1) /\ 0 \in 0..L
    BY <1>0, <2>1
  <2> HIDE DEF n
  <2> QED BY <2>2, <2>3
<1>4. ASSUME NEW i \in 1..L, i - 1 \in G
      PROVE  i \in G
  <2>1. PICK r \in 0..(Power(Base, i - 1) - 1) : P(i - 1, r)
    BY <1>4
  <2> DEFINE j == L - i
             a == v[j]
             b == t[j + 1]
             Q == Power(Base, i - 1)
             R == Power(Base, i)
  <2>2. j \in Nat /\ j + 1 \in 1..L /\ L - (i - 1) = j + 1 /\ (j + 1) - 1 = j /\ j \in 0..L
    BY <1>0
  <2>3. a \in Nat /\ b \in Nat /\ b < Base /\ v[j + 1] = a * Base + b
    <3> HIDE DEF j
    <3> QED BY <1>0, <1>1, <2>2 DEF AreNumbers
  <2>4. Q \in Nat \ {0} /\ R = Q * Base
    <3> i - 1 \in Nat /\ (i - 1) + 1 = i
      OBVIOUS
    <3> QED BY BaseFacts
  <2>5. n = v[j + 1] * Q + r /\ r \in 0..(Q - 1)
    <3> HIDE DEF n
    <3> QED BY <2>1, <2>2
  <2> HIDE DEF n, j, a, b, Q, R
  <2> DEFINE q == b * Q + r
  <2>6. n = a * R + q
    <3>1. Base \in Nat /\ r \in Nat
      BY BaseFacts, <2>4, <2>5
    <3>2. n = (a * Base + b) * Q + r
      BY <2>3, <2>5
    <3>3. (a * Base + b) * Q + r = a * (Q * Base) + (b * Q + r)
      BY <2>3, <2>4, <3>1
    <3> QED BY <2>4, <3>2, <3>3
  <2>7. q \in 0..(R - 1)
    <3>1. Base \in Nat
      BY BaseFacts
    <3>2. (b + 1) * Q <= Base * Q
      BY <2>3, <2>4, <3>1
    <3>3. (b + 1) * Q = b * Q + Q /\ Base * Q = R /\ b * Q \in Nat
      BY <2>3, <2>4, <3>1
    <3> QED BY <2>4, <2>5, <3>1, <3>2, <3>3
  <2> HIDE DEF q
  <2>8. \E z \in 0..(R - 1) : n = a * R + z
    BY <2>6, <2>7
  <2>9. \E z \in 0..(Power(Base, i) - 1) : P(i, z)
    BY <2>8 DEF a, j, R
  <2> QED BY <2>9
<1>5. \A i \in 0..L : i \in G
  <2> HIDE DEF G
  <2> QED BY <1>0, <1>3, <1>4, InductionTo
<1> QED BY <1>1, <1>5 DEF v

\* A token comes back from its number and its length.
LEMMA ToBytesToInt ==
    ASSUME NEW t \in Seq(Bytes)
    PROVE  ToBytes(ToInt(t), Len(t)) = t
<1> DEFINE L == Len(t)
           v == Numbers(t)
           n == ToInt(t)
<1>0. L \in Nat /\ \A i \in 1..L : t[i] \in Nat /\ t[i] < Base
  BY BytesAt
<1>1. AreNumbers(v, t)
  BY NumbersDef
<1>2. ASSUME NEW i \in 1..L
      PROVE  (n \div Power(Base, L - i)) % Base = t[i]
  <2> DEFINE k == L - i
             P == Power(Base, k)
             a == v[i]
             c == v[i - 1]
             b == t[i]
  <2>1. k \in 0..L /\ k \in Nat /\ L - k = i
    BY <1>0
  <2>2. PICK r \in 0..(P - 1) : n = a * P + r
    <3> HIDE DEF n, k
    <3>1. PICK r \in 0..(Power(Base, k) - 1) : n = v[L - k] * Power(Base, k) + r
      BY <2>1, NumbersSplit DEF n
    <3> QED BY <2>1, <3>1
  <2>3. a \in Nat /\ c \in Nat /\ b \in Nat /\ b < Base /\ a = c * Base + b
    <3> i \in 0..L /\ i - 1 \in 0..L
      BY <1>0
    <3> HIDE DEF v
    <3> QED BY <1>0, <1>1 DEF AreNumbers
  <2>4. P \in Nat \ {0}
    <3> HIDE DEF k
    <3> QED BY <2>1, BaseFacts
  <2> HIDE DEF P, a, b, c, n
  <2>5. n \div P = a
    <3> a \in Int
      BY <2>3
    <3> QED BY <2>2, <2>4, DivModUnique
  <2>6. a % Base = b
    <3>1. c \in Int /\ b \in 0..(Base - 1) /\ Base \in Nat \ {0}
      BY <2>3, BaseFacts
    <3>2. (c * Base + b) % Base = b
      BY <3>1, DivModUnique
    <3> QED BY <2>3, <3>2
  <2> QED BY <2>5, <2>6 DEF P, b
<1>3. ToBytes(n, L) = [i \in 1..L |-> t[i]]
  BY <1>2 DEF ToBytes
<1>4. t = [i \in 1..L |-> t[i]]
  OBVIOUS
<1> QED BY <1>3, <1>4

-----------------------------------------------------------------------------
(* Tokens whose length is lost *)

\* Min is a least element.
LEMMA MinDef ==
    ASSUME NEW S, S \subseteq Nat, S # {}
    PROVE  Min(S) \in S /\ \A y \in S : Min(S) <= y
<1>1. \E x \in S : \A y \in S : x <= y
  BY LeastElement
<1> QED BY <1>1 DEF Min

\* DropNuls(t) is t from its first byte on that is not NUL.
LEMMA DropNulsDef ==
    ASSUME NEW t \in Seq(Bytes)
    PROVE  \E z \in 0..Len(t) :
              /\ \A i \in 1..z : t[i] = 0
              /\ DropNuls(t) = [i \in 1..(Len(t) - z) |-> t[z + i]]
              /\ z < Len(t) => t[z + 1] # 0
<1> DEFINE L == Len(t)
           I == {i \in 1..L : t[i] # 0}
           first == SelectInSeq(t, LAMBDA b : b # 0)
<1>0. L \in Nat
  OBVIOUS
<1>1. first = IF I # {} THEN Min(I) ELSE 0
  BY DEF SelectInSeq
<1>2. CASE I = {}
  <2>1. first = 0
    BY <1>1, <1>2
  <2>2. DropNuls(t) = <<>>
    BY <2>1 DEF DropNuls
  <2>3. \A i \in 1..L : t[i] = 0
    BY <1>2
  <2>4. <<>> = [i \in 1..(L - L) |-> t[L + i]]
    BY <1>0
  <2> HIDE DEF first, I
  <2>5. L \in 0..L /\ ~(L < L)
    BY <1>0
  <2> QED BY <2>2, <2>3, <2>4, <2>5
<1>3. CASE I # {}
  <2>1. first = Min(I) /\ I \subseteq Nat
    BY <1>1, <1>3
  <2>2. first \in I /\ \A y \in I : first <= y
    <3> HIDE DEF I, first
    <3> QED BY <1>3, <2>1, MinDef
  <2>3. DropNuls(t) = SubSeq(t, first, L)
    <3> first # 0
      BY <2>2
    <3> QED BY DEF DropNuls
  <2> DEFINE z == first - 1
  <2> HIDE DEF first
  <2>4. first \in 1..L /\ z \in 0..L /\ z < L /\ z + 1 = first /\ t[first] # 0
    BY <1>0, <2>2
  <2>5. \A i \in 1..z : t[i] = 0
    BY <1>0, <2>2, <2>4
  <2>6. SubSeq(t, first, L) = [i \in 1..(L - z) |-> t[z + i]]
    <3>1. SubSeq(t, first, L) = [i \in 1..(L - first + 1) |-> t[first + i - 1]]
      BY <1>0, <2>4
    <3>2. L - first + 1 = L - z /\ \A i \in 1..(L - z) : first + i - 1 = z + i
      BY <1>0, <2>4
    <3> QED BY <3>1, <3>2
  <2> HIDE DEF z
  <2> QED BY <2>3, <2>4, <2>5, <2>6
<1> QED BY <1>2, <1>3

\* DropNuls(t) starts with no NUL and stands for the same number as t.
LEMMA DropNulsToInt ==
    ASSUME NEW t \in Seq(Bytes)
    PROVE  /\ DropNuls(t) \in Seq(Bytes)
           /\ Len(DropNuls(t)) <= Len(t)
           /\ DropNuls(t) # <<>> => DropNuls(t)[1] # 0
           /\ ToInt(DropNuls(t)) = ToInt(t)
<1> DEFINE L == Len(t)
           u == DropNuls(t)
           v == Numbers(t)
           w == Numbers(u)
<1>0. L \in Nat /\ \A i \in 1..L : t[i] \in Bytes /\ t[i] \in Nat
  BY BytesAt
<1>1. PICK z \in 0..L : /\ \A i \in 1..z : t[i] = 0
                        /\ u = [i \in 1..(L - z) |-> t[z + i]]
                        /\ z < L => t[z + 1] # 0
  BY DropNulsDef
<1> HIDE DEF u
<1>2. /\ u \in Seq(Bytes) /\ Len(u) = L - z
      /\ \A i \in 1..(L - z) : u[i] = t[z + i]
  <2>1. \A i \in 1..(L - z) : z + i \in 1..L
    BY <1>0
  <2>2. L - z \in Nat
    BY <1>0
  <2> QED BY <1>0, <1>1, <2>1, <2>2
<1>3. u # <<>> => u[1] # 0
  <2>1. u # <<>> => z < L /\ 1 \in 1..(L - z)
    BY <1>0, <1>1, <1>2
  <2> QED BY <1>1, <1>2, <2>1
<1>4. AreNumbers(v, t) /\ AreNumbers(w, u)
  BY <1>2, NumbersDef
<1>5. ToInt(t) = v[L] /\ ToInt(u) = w[L - z]
  BY <1>2 DEF ToInt
<1> HIDE DEF v, w, L
<1>6. /\ v \in [0..L -> Nat] /\ v[0] = 0 /\ \A i \in 1..L : v[i] = v[i - 1] * Base + t[i]
      /\ w \in [0..(L - z) -> Nat] /\ w[0] = 0 /\ \A i \in 1..(L - z) : w[i] = w[i - 1] * Base + u[i]
  BY <1>2, <1>4 DEF AreNumbers, L
<1>7. v[z] = 0
  <2> DEFINE G == {i \in 0..z : v[i] = 0}
  <2>1. 0 \in G
    BY <1>6
  <2>2. ASSUME NEW i \in 1..z, i - 1 \in G
        PROVE  i \in G
    <3>1. v[i] = v[i - 1] * Base + t[i] /\ v[i - 1] = 0 /\ t[i] = 0
      <4> i \in 1..L
        BY <1>0
      <4> QED BY <1>1, <1>6, <2>2
    <3>2. 0 * Base + 0 = 0
      BY BaseFacts
    <3> QED BY <3>1, <3>2
  <2>3. \A i \in 0..z : i \in G
    <3> z \in Nat
      OBVIOUS
    <3> HIDE DEF G
    <3> QED BY <2>1, <2>2, InductionTo
  <2>4. z \in 0..z
    OBVIOUS
  <2> QED BY <2>3, <2>4
<1>8. v[L] = w[L - z]
  <2> DEFINE G == {i \in 0..(L - z) : v[z + i] = w[i]}
  <2>0. L - z \in Nat /\ z \in Nat
    BY <1>0
  <2>1. 0 \in G
    <3> z + 0 = z
      OBVIOUS
    <3> QED BY <1>6, <1>7, <2>0
  <2>2. ASSUME NEW i \in 1..(L - z), i - 1 \in G
        PROVE  i \in G
    <3>1. z + i \in 1..L /\ (z + i) - 1 = z + (i - 1) /\ i \in 0..(L - z)
      BY <1>0
    <3>2. v[z + i] = v[z + (i - 1)] * Base + t[z + i]
      BY <1>6, <3>1
    <3>3. w[i] = w[i - 1] * Base + t[z + i]
      BY <1>2, <1>6
    <3>4. v[z + (i - 1)] = w[i - 1]
      BY <2>2
    <3> QED BY <3>1, <3>2, <3>3, <3>4
  <2>3. \A i \in 0..(L - z) : i \in G
    <3> HIDE DEF G
    <3> QED BY <2>0, <2>1, <2>2, InductionTo
  <2>4. L - z \in 0..(L - z) /\ z + (L - z) = L
    BY <1>0, <2>0
  <2> QED BY <2>3, <2>4
<1>9. Len(u) <= L
  BY <1>0, <1>2
<1> QED BY <1>2, <1>3, <1>5, <1>8, <1>9 DEF u, L

\* The length recomputed from a number is the least one that holds the number.
LEMMA ByteLengthDef ==
    ASSUME NEW n \in Field
    PROVE  /\ ByteLength(n) \in Nat
           /\ n < Power(Base, ByteLength(n))
           /\ \A j \in 0..(ByteLength(n) - 1) : n >= Power(Base, j)
<1> DEFINE T == {k \in Nat : n < Power(Base, k)}
           Fits(k) == n < Power(Base, k) /\ \A j \in 0..(k - 1) : n >= Power(Base, j)
<1>1. n \in Nat /\ n < Prime /\ Prime \in Nat
  BY PrimeFacts DEF Field
<1>2. n \in T
  <2> n < Power(Base, n)
    BY <1>1, BaseFacts, PowerAbove
  <2> QED BY <1>1
<1>3. PICK k \in T : \A m \in T : k <= m
  <2> T \subseteq Nat
    OBVIOUS
  <2> HIDE DEF T
  <2> QED BY <1>2, LeastElement
<1>4. k \in 0..Prime
  BY <1>1, <1>2, <1>3
<1>5. Fits(k)
  <2>1. n < Power(Base, k)
    BY <1>3
  <2>2. ASSUME NEW j \in 0..(k - 1)
        PROVE  n >= Power(Base, j)
    <3>1. j \in Nat /\ j < k
      BY <1>4
    <3>2. j \notin T
      BY <1>3, <3>1
    <3>3. ~(n < Power(Base, j)) /\ Power(Base, j) \in Nat
      BY <3>1, <3>2, BaseFacts
    <3> QED BY <1>1, <3>3
  <2> QED BY <2>1, <2>2
<1>6. ByteLength(n) = CHOOSE m \in 0..Prime : Fits(m)
  BY DEF ByteLength
<1> HIDE DEF Fits
<1>7. ByteLength(n) \in 0..Prime /\ Fits(ByteLength(n))
  BY <1>4, <1>5, <1>6
<1>8. ByteLength(n) \in Nat
  BY <1>1, <1>7
<1> QED BY <1>7, <1>8 DEF Fits

\* The number of a token is in the field.
LEMMA ToIntType ==
    ASSUME NEW t \in Seq(Bytes), Len(t) <= MaxLength
    PROVE  ToInt(t) \in Field /\ ToInt(t) < Power(Base, Len(t))
<1> DEFINE n == ToInt(t)
           P == Power(Base, Len(t))
           Q == Power(Base, MaxLength)
<1>0. Len(t) \in Nat /\ MaxLength \in Nat
  BY BaseFacts
<1>1. n \in Nat
  <2> AreNumbers(Numbers(t), t) /\ Len(t) \in 0..Len(t)
    BY <1>0, NumbersDef
  <2> QED BY DEF AreNumbers, ToInt
<1>2. n < P
  <2> Len(t) \in 0..Len(t)
    BY <1>0
  <2> QED BY NumbersBound DEF ToInt
<1>3. P <= Q
  BY <1>0, BaseFacts, PowerMonotone
<1>4. P \in Nat /\ Q \in Nat /\ Q <= Prime /\ Prime \in Nat
  BY <1>0, BaseFacts, PrimeFacts
<1> HIDE DEF n, P, Q
<1>5. n \in 0..(Prime - 1)
  BY <1>1, <1>2, <1>3, <1>4
<1> QED BY <1>2, <1>5 DEF Field, n, P

\* The recomputed length of a token that starts with no NUL is its length.
LEMMA ByteLengthToInt ==
    ASSUME NEW u \in Seq(Bytes), Len(u) <= MaxLength, u # <<>> => u[1] # 0
    PROVE  ByteLength(ToInt(u)) = Len(u)
<1> DEFINE L == Len(u)
           v == Numbers(u)
           n == ToInt(u)
           k == ByteLength(n)
           G == {i \in 0..L : i # 0 => v[i] >= Power(Base, i - 1)}
<1>0. L \in Nat /\ \A i \in 1..L : u[i] \in Nat
  BY BytesAt
<1>1. AreNumbers(v, u)
  BY NumbersDef
<1>2. n \in Field /\ n < Power(Base, L) /\ n = v[L]
  BY ToIntType DEF ToInt
<1>3. k \in Nat /\ n < Power(Base, k) /\ \A j \in 0..(k - 1) : n >= Power(Base, j)
  <2> HIDE DEF n
  <2> QED BY <1>2, ByteLengthDef
<1> HIDE DEF v, n, k
<1>4. /\ v \in [0..L -> Nat] /\ v[0] = 0
      /\ \A i \in 1..L : v[i] = v[i - 1] * Base + u[i]
  BY <1>1 DEF AreNumbers
<1>5. ASSUME NEW i \in 1..L, i - 1 \in G
      PROVE  i \in G
  <2> DEFINE a == v[i - 1]
             b == u[i]
             P == Power(Base, i - 1)
  <2>1. a \in Nat /\ b \in Nat /\ v[i] = a * Base + b /\ Base \in Nat
    <3> i - 1 \in 0..L
      BY <1>0
    <3> QED BY <1>0, <1>4, BaseFacts
  <2>2. CASE i = 1
    <3>1. a = 0 /\ b # 0 /\ P = 1
      <4>1. Power(Base, 0) = 1
        BY BaseFacts, PowerDef
      <4>2. u # <<>>
        BY <2>2
      <4> QED BY <1>4, <2>2, <4>1, <4>2
    <3> HIDE DEF a, b, P
    <3>2. a * Base + b >= P
      BY <2>1, <3>1
    <3> QED BY <1>0, <2>1, <3>2 DEF P
  <2>3. CASE i # 1
    <3> DEFINE Q == Power(Base, i - 2)
    <3>1. a >= Q
      <4> (i - 1) - 1 = i - 2 /\ i - 1 # 0
        BY <2>3
      <4> QED BY <1>5
    <3>2. Q \in Nat /\ P = Q * Base
      <4> i - 2 \in Nat /\ (i - 2) + 1 = i - 1
        BY <2>3
      <4> QED BY BaseFacts
    <3> HIDE DEF a, b, P, Q
    <3>3. a * Base >= Q * Base
      BY <2>1, <3>1, <3>2
    <3>4. a * Base + b >= P
      <4> a * Base \in Nat /\ Q * Base \in Nat
        BY <2>1, <3>2
      <4> QED BY <2>1, <3>2, <3>3
    <3> QED BY <1>0, <2>1, <3>4 DEF P
  <2> QED BY <2>2, <2>3
<1>6. L # 0 => n >= Power(Base, L - 1)
  <2>1. 0 \in G
    BY <1>0
  <2>2. \A i \in 0..L : i \in G
    <3> HIDE DEF G
    <3> QED BY <1>0, <1>5, <2>1, InductionTo
  <2>3. L \in 0..L
    BY <1>0
  <2> QED BY <1>2, <2>2, <2>3
<1>7. n \in Nat
  BY <1>2, PrimeFacts DEF Field
<1>8. ~(k < L)
  <2> SUFFICES ASSUME k < L PROVE FALSE
    OBVIOUS
  <2>1. L - 1 \in Nat /\ k <= L - 1 /\ L # 0
    BY <1>0, <1>3
  <2>2. Power(Base, k) <= Power(Base, L - 1)
    <3> Base \in Nat \ {0}
      BY BaseFacts
    <3> QED BY <1>3, <2>1, PowerMonotone
  <2>3. Power(Base, k) \in Nat /\ Power(Base, L - 1) \in Nat
    BY <1>3, <2>1, BaseFacts
  <2> QED BY <1>3, <1>6, <1>7, <2>1, <2>2, <2>3
<1>9. ~(k > L)
  <2> SUFFICES ASSUME k > L PROVE FALSE
    OBVIOUS
  <2>1. L \in 0..(k - 1)
    BY <1>0, <1>3
  <2>2. n >= Power(Base, L) /\ Power(Base, L) \in Nat
    BY <1>0, <1>3, <2>1, BaseFacts
  <2> QED BY <1>2, <1>7, <2>2
<1>10. k = L
  BY <1>0, <1>3, <1>8, <1>9
<1> QED BY <1>10 DEF k, n

\* Without its length, a token comes back without the NULs at its front.
LEMMA ToBytesByteLength ==
    ASSUME NEW t \in Seq(Bytes), Len(t) <= MaxLength
    PROVE  ToBytes(ToInt(t), ByteLength(ToInt(t))) = DropNuls(t)
<1> DEFINE u == DropNuls(t)
<1>1. u \in Seq(Bytes) /\ Len(u) <= Len(t) /\ (u # <<>> => u[1] # 0) /\ ToInt(u) = ToInt(t)
  BY DropNulsToInt
<1> HIDE DEF u
<1>2. Len(u) <= MaxLength
  <2>1. Len(u) \in Nat /\ Len(t) \in Nat
    BY <1>1
  <2>2. MaxLength \in Nat
    BY BaseFacts
  <2> QED BY <1>1, <2>1, <2>2
<1>3. ByteLength(ToInt(u)) = Len(u)
  BY <1>1, <1>2, ByteLengthToInt
<1>4. ToBytes(ToInt(u), Len(u)) = u
  BY <1>1, ToBytesToInt
<1> QED BY <1>1, <1>3, <1>4 DEF u

-----------------------------------------------------------------------------
(* Whitespace *)

\* k[i] is what is left of the first i bytes of t when whitespace is dropped.
AreStripped(k, t) ==
    /\ k \in [0..Len(t) -> Seq(Bytes)]
    /\ k[0] = <<>>
    /\ \A i \in 1..Len(t) : k[i] = IF t[i] = Space THEN k[i - 1] ELSE Append(k[i - 1], t[i])

StripStep(t) ==
    [i \in 1..Len(t) |-> [x \in Seq(Bytes) |-> IF t[i] = Space THEN x ELSE Append(x, t[i])]]

\* The recursion of Stripped holds.
LEMMA StrippedDef ==
    ASSUME NEW t \in Seq(Bytes)
    PROVE  AreStripped(Stripped(t), t)
<1> DEFINE L == Len(t)
           Eq(k) == k = [i \in 0..L |-> IF i = 0 THEN <<>>
                                        ELSE IF t[i] = Space THEN k[i - 1]
                                        ELSE Append(k[i - 1], t[i])]
<1>0. L \in Nat /\ \A i \in 1..L : t[i] \in Bytes
  OBVIOUS
<1>1. PICK s \in [0..L -> Seq(Bytes)] : Iterates(s, L, <<>>, StripStep(t))
  <2>1. \A x \in Seq(Bytes), b \in Bytes : Append(x, b) \in Seq(Bytes)
    OBVIOUS
  <2>2. StripStep(t) \in [1..L -> [Seq(Bytes) -> Seq(Bytes)]]
    BY <1>0, <2>1 DEF StripStep
  <2>3. <<>> \in Seq(Bytes)
    OBVIOUS
  <2> HIDE DEF L
  <2> QED BY <1>0, <2>2, <2>3, Recursion
<1>2. /\ s[0] = <<>>
      /\ \A i \in 1..L : s[i] = IF t[i] = Space THEN s[i - 1] ELSE Append(s[i - 1], t[i])
  <2>1. \A i \in 1..L : s[i - 1] \in Seq(Bytes)
    BY <1>0
  <2> QED BY <1>1, <2>1 DEF Iterates, StripStep
<1>3. Eq(s)
  <2>1. \A i \in 0..L : i # 0 => i \in 1..L
    BY <1>0
  <2> QED BY <1>2, <2>1
<1>4. Eq(Stripped(t))
  <2>1. Stripped(t) = CHOOSE k : Eq(k)
    BY DEF Stripped
  <2> HIDE DEF Eq
  <2> QED BY <1>3, <2>1
<1>5. ASSUME NEW k, Eq(k)
      PROVE  k = s
  <2> DEFINE G == {i \in 0..L : k[i] = s[i]}
  <2>1. 0 \in G
    BY <1>0, <1>2, <1>5
  <2>2. ASSUME NEW i \in 1..L, i - 1 \in G
        PROVE  i \in G
    <3>1. i \in 0..L /\ i # 0 /\ k[i - 1] = s[i - 1]
      BY <1>0, <2>2
    <3>2. k[i] = IF t[i] = Space THEN k[i - 1] ELSE Append(k[i - 1], t[i])
      BY <1>5, <3>1
    <3> QED BY <1>2, <3>1, <3>2
  <2>3. \A i \in 0..L : i \in G
    <3> HIDE DEF G, Eq
    <3> QED BY <1>0, <2>1, <2>2, InductionTo
  <2> QED BY <2>3, <1>5
<1>6. Stripped(t) = s
  <2> HIDE DEF Eq
  <2> QED BY <1>4, <1>5
<1> QED BY <1>2, <1>6 DEF AreStripped

\* Without whitespace a token is a sequence of bytes.
LEMMA StripSpacesType ==
    ASSUME NEW t \in Seq(Bytes)
    PROVE  StripSpaces(t) \in Seq(Bytes)
<1> AreStripped(Stripped(t), t) /\ Len(t) \in 0..Len(t)
  BY StrippedDef
<1> QED BY DEF AreStripped, StripSpaces

\* Trim takes nothing but whitespace, at the ends.
LEMMA TrimDef ==
    ASSUME NEW t \in Seq(Bytes), Trim(t) # <<>>
    PROVE  \E a \in 1..Len(t), b \in 1..Len(t) :
              /\ a <= b
              /\ Trim(t) = SubSeq(t, a, b)
              /\ \A i \in 1..Len(t) : i < a \/ i > b => t[i] = Space
<1> DEFINE L == Len(t)
           kept == {i \in DOMAIN t : t[i] # Space}
           low == Min(kept)
           high == Max(kept)
<1>0. L \in Nat /\ DOMAIN t = 1..L
  OBVIOUS
<1>1. kept # {} /\ Trim(t) = SubSeq(t, low, high)
  BY DEF Trim
<1>2. kept \subseteq 1..L /\ kept \subseteq Nat /\ \A i \in 1..L : i \notin kept => t[i] = Space
  BY <1>0
<1> HIDE DEF kept
<1>3. low \in kept /\ \A y \in kept : low <= y
  BY <1>1, <1>2, MinDef
<1>4. high \in kept /\ \A y \in kept : high >= y
  <2> DEFINE T == {m \in Nat : L - m \in kept}
  <2>1. ASSUME NEW y \in kept
        PROVE  y \in Int /\ L - y \in T
    <3> y \in 1..L
      BY <1>2
    <3> L - y \in Nat /\ L - (L - y) = y
      BY <1>0
    <3> QED OBVIOUS
  <2>2. PICK n \in T : \A m \in T : n <= m
    <3> T \subseteq Nat /\ T # {}
      BY <1>1, <2>1
    <3> HIDE DEF T
    <3> QED BY LeastElement
  <2>3. n \in Nat /\ L - n \in kept
    OBVIOUS
  <2>4. \A y \in kept : L - n >= y
    <3> TAKE y \in kept
    <3>1. L - y \in Nat /\ n <= L - y /\ y \in Int
      BY <2>1, <2>2
    <3> QED BY <1>0, <2>3, <3>1
  <2>5. \E z \in kept : \A y \in kept : z >= y
    BY <2>3, <2>4
  <2> QED BY <2>5 DEF Max
<1> HIDE DEF low, high
<1>5. low \in 1..L /\ high \in 1..L /\ low <= high
  BY <1>2, <1>3, <1>4
<1>6. \A i \in 1..L : i < low \/ i > high => t[i] = Space
  <2> TAKE i \in 1..L
  <2> HAVE i < low \/ i > high
  <2>1. ~(low <= i) \/ ~(high >= i)
    BY <1>5
  <2> QED BY <1>2, <1>3, <1>4, <2>1
<1> QED BY <1>1, <1>5, <1>6

\* Trimming first makes no difference to the token without whitespace.
LEMMA StripTrim ==
    ASSUME NEW t \in Seq(Bytes), Trim(t) # <<>>
    PROVE  /\ Trim(t) \in Seq(Bytes) /\ Len(Trim(t)) <= Len(t)
           /\ StripSpaces(Trim(t)) = StripSpaces(t)
<1> DEFINE L == Len(t)
           u == Trim(t)
           k == Stripped(t)
           h == Stripped(u)
<1>0. L \in Nat /\ \A i \in 1..L : t[i] \in Bytes
  OBVIOUS
<1>1. PICK a \in 1..L, b \in 1..L :
         /\ a <= b
         /\ u = SubSeq(t, a, b)
         /\ \A i \in 1..L : i < a \/ i > b => t[i] = Space
  BY TrimDef
<1> DEFINE M == b - a + 1
           c == a - 1
<1>2. M \in Nat /\ c \in Nat /\ c + M = b /\ M <= L /\ b \in Nat /\ L - b \in Nat
  BY <1>0, <1>1
<1>3. /\ u \in Seq(Bytes) /\ Len(u) = M
      /\ \A i \in 1..M : c + i \in 1..L /\ u[i] = t[c + i]
  <2> HIDE DEF u
  <2>1. u = [i \in 1..(b - a + 1) |-> t[a + i - 1]]
    BY <1>0, <1>1
  <2>2. \A i \in 1..M : a + i - 1 \in 1..L /\ a + i - 1 = c + i
    BY <1>0, <1>1
  <2>3. u = [i \in 1..M |-> t[c + i]]
    BY <2>1, <2>2
  <2>4. \A i \in 1..M : c + i \in 1..L
    BY <2>2
  <2> HIDE DEF M, c
  <2> QED BY <1>0, <1>2, <2>3, <2>4
<1>4. AreStripped(k, t) /\ AreStripped(h, u)
  BY <1>3, StrippedDef
<1>5. StripSpaces(t) = k[L] /\ StripSpaces(u) = h[M]
  BY <1>3 DEF StripSpaces
<1>6. \A i \in 1..c : i \in 1..L /\ t[i] = Space
  BY <1>0, <1>1
<1>7. \A i \in 1..(L - b) : b + i \in 1..L /\ t[b + i] = Space
  BY <1>0, <1>1
<1> HIDE DEF u, k, h, L, M, c
<1>8. /\ k[0] = <<>>
      /\ \A i \in 1..L : k[i] = IF t[i] = Space THEN k[i - 1] ELSE Append(k[i - 1], t[i])
      /\ h[0] = <<>>
      /\ \A i \in 1..M : h[i] = IF t[c + i] = Space THEN h[i - 1] ELSE Append(h[i - 1], t[c + i])
  BY <1>3, <1>4 DEF AreStripped, L
<1>9. k[c] = <<>>
  <2> DEFINE G == {i \in 0..c : k[i] = <<>>}
  <2>1. 0 \in G
    BY <1>2, <1>8
  <2>2. ASSUME NEW i \in 1..c, i - 1 \in G
        PROVE  i \in G
    <3> k[i] = k[i - 1] /\ k[i - 1] = <<>> /\ i \in 0..c
      BY <1>2, <1>6, <1>8, <2>2
    <3> QED OBVIOUS
  <2>3. \A i \in 0..c : i \in G
    <3> HIDE DEF G
    <3> QED BY <1>2, <2>1, <2>2, InductionTo
  <2>4. c \in 0..c
    BY <1>2
  <2> QED BY <2>3, <2>4
<1>10. k[b] = h[M]
  <2> DEFINE G == {i \in 0..M : k[c + i] = h[i]}
  <2>1. 0 \in G
    <3> c + 0 = c
      BY <1>2
    <3> QED BY <1>2, <1>8, <1>9
  <2>2. ASSUME NEW i \in 1..M, i - 1 \in G
        PROVE  i \in G
    <3>1. c + i \in 1..L /\ (c + i) - 1 = c + (i - 1) /\ i \in 0..M
      <4>1. c + i \in 1..L
        BY <1>3
      <4>2. c \in Int /\ i \in Int
        BY <1>2
      <4>3. (c + i) - 1 = c + (i - 1)
        BY <4>2
      <4> QED BY <4>1, <4>3
    <3>2. k[c + i] = IF t[c + i] = Space THEN k[c + (i - 1)] ELSE Append(k[c + (i - 1)], t[c + i])
      BY <1>8, <3>1
    <3>3. k[c + (i - 1)] = h[i - 1]
      BY <2>2
    <3>4. h[i] = IF t[c + i] = Space THEN h[i - 1] ELSE Append(h[i - 1], t[c + i])
      BY <1>8
    <3> QED BY <3>1, <3>2, <3>3, <3>4
  <2>3. \A i \in 0..M : i \in G
    <3> HIDE DEF G
    <3> QED BY <1>2, <2>1, <2>2, InductionTo
  <2>4. M \in 0..M
    BY <1>2
  <2> QED BY <1>2, <2>3, <2>4
<1>11. k[L] = k[b]
  <2> DEFINE G == {i \in 0..(L - b) : k[b + i] = k[b]}
  <2>1. 0 \in G
    <3> b + 0 = b
      BY <1>2
    <3> QED BY <1>2
  <2>2. ASSUME NEW i \in 1..(L - b), i - 1 \in G
        PROVE  i \in G
    <3>1. b + i \in 1..L /\ (b + i) - 1 = b + (i - 1) /\ i \in 0..(L - b)
      BY <1>2, <1>7
    <3>2. k[b + i] = k[b + (i - 1)]
      BY <1>7, <1>8, <3>1
    <3> QED BY <2>2, <3>1, <3>2
  <2>3. \A i \in 0..(L - b) : i \in G
    <3> HIDE DEF G
    <3> QED BY <1>2, <2>1, <2>2, InductionTo
  <2>4. L - b \in 0..(L - b) /\ b + (L - b) = L
    BY <1>0, <1>2
  <2> QED BY <2>3, <2>4
<1> QED BY <1>2, <1>3, <1>5, <1>10, <1>11 DEF u, L

-----------------------------------------------------------------------------
(* Splitting and putting together *)

\* points are distinct shards of the token t, that all record the length.
DealtFor(points, t, coefficients, length) ==
    /\ Distinct(points)
    /\ \A i \in 1..Len(points) :
          /\ points[i].value = Evaluate(ToInt(t), coefficients, points[i].index)
          /\ points[i].length = length

\* Split deals such shards.
LEMMA SplitShards ==
    ASSUME NEW t \in Seq(Bytes), Len(t) <= MaxLength, NEW c, c.total \in 1..MaxTotal,
           NEW m \in Nat, NEW coefficients \in [1..m -> Field],
           NEW length \in {Len(t), OldFormat}
    PROVE  LET sh == Split(t, c, coefficients, length)
           IN  Len(sh) = c.total /\ DealtFor(sh, t, coefficients, length)
<1> DEFINE n == c.total
           v(i) == Evaluate(ToInt(t), coefficients, i)
           r(i) == [index |-> i, value |-> v(i), length |-> length]
           sh == [i \in 1..n |-> r(i)]
<1>1. sh = Split(t, c, coefficients, length)
  BY DEF Split
<1>2. n \in Nat
  <2> HIDE DEF n
  <2> QED BY PrimeFacts DEF n
<1>3. length \in 0..MaxLength \cup {OldFormat}
  <2> Len(t) \in Nat /\ MaxLength \in Nat
    BY BaseFacts
  <2> QED OBVIOUS
<1>4. ASSUME NEW i \in 1..n
      PROVE  v(i) \in Field
  <2>1. ToInt(t) \in Int /\ coefficients \in [1..m -> Int]
    <3> ToInt(t) \in Field /\ Field \subseteq Int
      BY ToIntType, PrimeFacts
    <3> QED OBVIOUS
  <2>2. i \in Int
    OBVIOUS
  <2> DEFINE V == Value(ToInt(t), coefficients, i, m, m)
  <2>3. V \in Int /\ v(i) = V % Prime
    BY <2>1, <2>2, EvaluateValue
  <2> HIDE DEF v, V
  <2> QED BY <2>3, FieldMod
<1>5. \A i \in 1..n : i \in 1..MaxTotal
  <2> HIDE DEF n
  <2> n \in 1..MaxTotal
    BY DEF n
  <2> QED BY PrimeFacts
<1>6. \A i \in 1..n : r(i) \in Share
  <2> HIDE DEF v, n
  <2> QED BY <1>3, <1>4, <1>5 DEF Share
<1>7. \A i \in 1..n : sh[i] = r(i)
  OBVIOUS
<1>8. \A i \in 1..n : r(i).index = i /\ r(i).value = v(i) /\ r(i).length = length
  OBVIOUS
<1> HIDE DEF r, n
<1>9. sh \in Seq(Share) /\ Len(sh) = n
  BY <1>2, <1>6
<1> HIDE DEF sh
<1>10. Distinct(sh)
  BY <1>7, <1>8, <1>9 DEF Distinct
<1>11. DealtFor(sh, t, coefficients, length)
  BY <1>7, <1>8, <1>9, <1>10 DEF DealtFor
<1> QED BY <1>1, <1>9, <1>11 DEF n

\* The shards at the positions f[1] ... f[k].
Chosen(points, f, k) == [i \in 1..k |-> points[f[i]]]

\* A choice of the shards of a token, in any order, is again shards of the token.
LEMMA Selected ==
    ASSUME NEW points, NEW t, NEW coefficients, NEW length,
           DealtFor(points, t, coefficients, length),
           NEW k \in Nat, NEW f \in [1..k -> 1..Len(points)],
           \A i, j \in 1..k : i # j => f[i] # f[j]
    PROVE  Len(Chosen(points, f, k)) = k /\ DealtFor(Chosen(points, f, k), t, coefficients, length)
<1> DEFINE some == Chosen(points, f, k)
<1>1. points \in Seq(Share) /\ Distinct(points)
  BY DEF DealtFor, Distinct
<1>2. \A i \in 1..k : points[f[i]] \in Share
  BY <1>1
<1>3. some \in Seq(Share) /\ Len(some) = k /\ \A i \in 1..k : some[i] = points[f[i]]
  BY <1>2 DEF Chosen
<1> HIDE DEF some
<1>4. \A i, j \in 1..k : i # j => some[i].index # some[j].index
  <2> TAKE i, j \in 1..k
  <2> HAVE i # j
  <2>1. f[i] \in 1..Len(points) /\ f[j] \in 1..Len(points) /\ f[i] # f[j]
    OBVIOUS
  <2>2. points[f[i]].index # points[f[j]].index
    BY <1>1, <2>1 DEF Distinct
  <2> QED BY <1>3, <2>2
<1>5. Distinct(some)
  BY <1>3, <1>4 DEF Distinct
<1>6. \A i \in 1..k : /\ some[i].value = Evaluate(ToInt(t), coefficients, some[i].index)
                      /\ some[i].length = length
  <2> TAKE i \in 1..k
  <2>1. f[i] \in 1..Len(points)
    OBVIOUS
  <2>2. /\ points[f[i]].value = Evaluate(ToInt(t), coefficients, points[f[i]].index)
        /\ points[f[i]].length = length
    BY <2>1 DEF DealtFor
  <2> QED BY <1>3, <2>2
<1>7. DealtFor(some, t, coefficients, length)
  BY <1>3, <1>5, <1>6 DEF DealtFor
<1> QED BY <1>3, <1>7 DEF some

\* The first k shards of a token are shards of the token.
LEMMA FirstShards ==
    ASSUME NEW points, NEW t, NEW coefficients, NEW length,
           DealtFor(points, t, coefficients, length),
           NEW k \in 0..Len(points)
    PROVE  /\ Len(SubSeq(points, 1, k)) = k
           /\ DealtFor(SubSeq(points, 1, k), t, coefficients, length)
<1>1. points \in Seq(Share) /\ Len(points) \in Nat
  BY DEF DealtFor, Distinct
<1> DEFINE f == [i \in 1..k |-> i]
<1>2. k \in Nat /\ f \in [1..k -> 1..Len(points)] /\ \A i, j \in 1..k : i # j => f[i] # f[j]
  BY <1>1
<1>3. SubSeq(points, 1, k) = Chosen(points, f, k)
  BY <1>1 DEF Chosen
<1> HIDE DEF f
<1> QED BY <1>2, <1>3, Selected

\* A number makes bytes, of any length.
LEMMA ToBytesType ==
    ASSUME NEW n \in Field, NEW l \in Nat
    PROVE  ToBytes(n, l) \in Seq(Bytes)
<1>1. ASSUME NEW i \in 1..l
      PROVE  (n \div Power(Base, l - i)) % Base \in Bytes
  <2> DEFINE P == Power(Base, l - i)
             q == n \div P
  <2>1. P \in Nat \ {0}
    <3> l - i \in Nat
      OBVIOUS
    <3> QED BY BaseFacts
  <2>2. n \in Int
    BY PrimeFacts
  <2> HIDE DEF P
  <2>3. q \in Int
    BY <2>1, <2>2, DivMod
  <2> HIDE DEF q
  <2>4. Base \in Nat \ {0}
    BY BaseFacts
  <2>5. q % Base \in 0..(Base - 1)
    BY <2>3, <2>4, DivMod
  <2> QED BY <2>5 DEF Bytes, q, P
<1> QED BY <1>1 DEF ToBytes

\* What is put together from shards of a token is bytes, however few they are.
LEMMA CombineType ==
    ASSUME NEW points, NEW t, NEW coefficients, NEW length \in 0..MaxLength \cup {OldFormat},
           DealtFor(points, t, coefficients, length),
           NEW threshold \in 1..Len(points)
    PROVE  Combine(points, threshold) \in Seq(Bytes)
<1> DEFINE used == SubSeq(points, 1, threshold)
           n == Interpolate(used)
           l == TokenLength(used, n)
<1>0. Len(points) \in Nat
  BY DEF DealtFor, Distinct
<1>1. Len(used) = threshold /\ DealtFor(used, t, coefficients, length)
  <2> threshold \in 0..Len(points)
    BY <1>0
  <2> QED BY FirstShards
<1> HIDE DEF used
<1>2. n \in Field
  BY <1>1, InterpolateType DEF DealtFor
<1>3. used[Len(used)].length = length
  <2> Len(used) \in 1..Len(used)
    BY <1>0, <1>1
  <2> QED BY <1>1 DEF DealtFor
<1> HIDE DEF n
<1>4. l = IF length \in {OldFormat, 0} THEN ByteLength(n) ELSE length
  BY <1>3 DEF TokenLength
<1>5. l \in Nat
  <2>1. ByteLength(n) \in Nat
    BY <1>2, ByteLengthDef
  <2>2. length # OldFormat => length \in Nat
    BY BaseFacts
  <2> HIDE DEF l
  <2> QED BY <1>4, <2>1, <2>2
<1> HIDE DEF l
<1>6. StripSpaces(ToBytes(n, l)) \in Seq(Bytes)
  BY <1>2, <1>5, ToBytesType, StripSpacesType
<1> QED BY <1>6 DEF Combine, used, n, l

\* What shards remember of a token.
Remembered(t, length) == IF length = OldFormat THEN DropNuls(t) ELSE t

\* From more of the shards of a token than the degree of its polynomial the token comes back,
\* without whitespace, and fits the bytes it is written to.
LEMMA CombineShards ==
    ASSUME NEW t \in Seq(Bytes), Len(t) <= MaxLength,
           NEW m \in Nat, NEW coefficients \in [1..m -> Field],
           NEW length \in {Len(t), OldFormat},
           NEW points, DealtFor(points, t, coefficients, length),
           NEW threshold \in 1..Len(points), m < threshold
    PROVE  /\ Combine(points, threshold) = StripSpaces(Remembered(t, length))
           /\ ~Overflows(points, threshold)
<1> DEFINE used == SubSeq(points, 1, threshold)
           n == Interpolate(used)
           l == TokenLength(used, n)
           kept == Remembered(t, length)
<1>0. Len(points) \in Nat /\ Len(t) \in Nat
  BY DEF DealtFor, Distinct
<1>1. Len(used) = threshold /\ DealtFor(used, t, coefficients, length)
  <2> threshold \in 0..Len(points)
    BY <1>0
  <2> QED BY FirstShards
<1> HIDE DEF used
<1>2. n = ToInt(t) /\ n \in Field /\ n < Power(Base, Len(t))
  <2>1. ToInt(t) \in Field /\ ToInt(t) < Power(Base, Len(t))
    BY ToIntType
  <2>2. m < Len(used) /\ Distinct(used)
        /\ \A i \in 1..Len(used) : used[i].value = Evaluate(ToInt(t), coefficients, used[i].index)
    BY <1>1 DEF DealtFor
  <2>3. n = ToInt(t)
    BY <2>1, <2>2, InterpolateSecret
  <2> QED BY <2>1, <2>3
<1>3. used[Len(used)].length = length
  <2> Len(used) \in 1..Len(used)
    BY <1>0, <1>1
  <2> QED BY <1>1 DEF DealtFor
<1>4. l = IF length \in {OldFormat, 0} THEN ByteLength(n) ELSE length
  BY <1>3 DEF TokenLength
<1> HIDE DEF n, l
<1>5. n < Power(Base, ByteLength(n)) /\ ByteLength(n) \in Nat
  BY <1>2, ByteLengthDef
<1>6. ToBytes(n, ByteLength(n)) = DropNuls(t)
  BY <1>2, ToBytesByteLength
<1>7. ToBytes(n, l) = kept
  <2>1. CASE length = OldFormat
    BY <1>4, <1>6, <2>1 DEF Remembered
  <2>2. CASE length # OldFormat /\ length = 0
    <3>1. t = <<>> /\ kept = t
      BY <2>2 DEF Remembered
    <3>2. DropNuls(t) \in Seq(Bytes) /\ Len(DropNuls(t)) <= Len(t)
      BY DropNulsToInt
    <3>3. DropNuls(t) = <<>>
      BY <3>1, <3>2
    <3> QED BY <1>4, <1>6, <2>2, <3>1, <3>3
  <2>3. CASE length # OldFormat /\ length # 0
    <3>1. l = Len(t) /\ kept = t
      BY <1>4, <2>3 DEF Remembered
    <3> QED BY <1>2, <3>1, ToBytesToInt
  <2> QED BY <2>1, <2>2, <2>3
<1>8. n < Power(Base, l) /\ l \in Nat
  <2>1. CASE length \in {OldFormat, 0}
    BY <1>4, <1>5, <2>1
  <2>2. CASE length \notin {OldFormat, 0}
    <3> l = Len(t)
      BY <1>4, <2>2
    <3> QED BY <1>0, <1>2
  <2> QED BY <2>1, <2>2
<1>9. ~(n >= Power(Base, l))
  <2> DEFINE P == Power(Base, l)
  <2> P \in Nat /\ n \in Int
    BY <1>2, <1>8, BaseFacts, PrimeFacts
  <2> n < P
    BY <1>8
  <2> HIDE DEF P
  <2> ~(n >= P)
    OBVIOUS
  <2> QED BY DEF P
<1>10. Combine(points, threshold) = StripSpaces(kept)
  BY <1>7 DEF Combine, used, n, l
<1>11. ~Overflows(points, threshold)
  BY <1>9 DEF Overflows, used, n, l
<1> QED BY <1>10, <1>11

-----------------------------------------------------------------------------
(* The invariant: what a run of the program holds at any moment are shards of *)
(* the token, or of the trimmed token, dealt with one polynomial.             *)

\* The inductive invariant, in three parts.  The first: the variables have their types, and
\* each stage has filled in its own.
Shape ==
    /\ config \in Configs
    /\ token \in Tokens
    /\ stage \in {"given", "rejected", "split", "returned", "too_few", "kept",
                  "not_kept", "not_rebuilt"}
    /\ dealt \in 0..MaxTotal
    /\ result \in Seq(Bytes)
    /\ Len(shards) \in {0, config.total, 3}
    /\ shards # <<>> => dealt >= 2
    /\ stage = "given" => shards = <<>>
    /\ stage = "split" => /\ ConfigAccepted
                          /\ config.threshold = dealt
                          /\ Len(shards) = config.total
    /\ stage = "kept" => Len(shards) = 3

\* The second: the shards in hand are those of the token, or of the trimmed token, by a
\* polynomial of a degree below the threshold of the split.
Dealt(points, given, threshold) ==
    \E t \in {given, Trim(given)} :
       \E length \in {Len(t), OldFormat}, coefficients \in [1..Degree(threshold) -> Field] :
          /\ t # given => t # <<>> /\ length = Len(t)
          /\ DealtFor(points, t, coefficients, length)

DealtShards == shards # <<>> => Dealt(shards, token, dealt)

\* The third: what was put together is the token.
Inv == Shape /\ DealtShards /\ RoundTrip

\* The part of the token that can come back: shards without a length lose leading NULs.
Kept == IF shards # <<>> /\ shards[1].length = OldFormat THEN DropNuls(token) ELSE token

\* A token is a sequence of bytes.
LEMMA TokenType ==
    ASSUME NEW t \in Tokens
    PROVE  t \in Seq(Bytes) /\ Len(t) \in 0..MaxLength
<1>1. PICK n \in 0..MaxLength : t \in [1..n -> Bytes]
  BY DEF Tokens
<1>2. n \in Nat
  BY BaseFacts
<1>3. t \in Seq(Bytes) /\ Len(t) = n
  BY <1>1, <1>2
<1> QED BY <1>1, <1>3

\* A configuration has a threshold and a number of shards.
LEMMA ConfigType ==
    ASSUME NEW c \in Configs
    PROVE  c.threshold \in 1..MaxTotal /\ c.total \in 1..MaxTotal
           /\ c.threshold \in Nat /\ c.total \in Nat
<1> c.threshold \in 1..MaxTotal /\ c.total \in 1..MaxTotal
  BY DEF Configs
<1> QED BY PrimeFacts

\* What the shards remember of the token dealt is, without whitespace, what can come back.
LEMMA DealtToken ==
    ASSUME token \in Tokens, shards # <<>>,
           NEW t \in {token, Trim(token)}, NEW length \in {Len(t), OldFormat}, NEW coefficients,
           t # token => t # <<>> /\ length = Len(t),
           DealtFor(shards, t, coefficients, length)
    PROVE  /\ t \in Seq(Bytes) /\ Len(t) <= MaxLength
           /\ StripSpaces(Remembered(t, length)) = StripSpaces(Kept)
<1>1. token \in Seq(Bytes) /\ Len(token) \in Nat /\ Len(token) <= MaxLength /\ MaxLength \in Nat
  <2> MaxLength \in Nat
    BY BaseFacts
  <2> QED BY TokenType
<1>2. shards[1].length = length
  <2>1. shards \in Seq(Share)
    BY DEF DealtFor, Distinct
  <2>2. 1 \in 1..Len(shards)
    BY <2>1
  <2> QED BY <2>2 DEF DealtFor
<1>3. CASE t = token
  BY <1>1, <1>2, <1>3 DEF Kept, Remembered
<1>4. CASE t # token
  <2>1. t = Trim(token) /\ Trim(token) # <<>> /\ length = Len(t)
    BY <1>4
  <2>2. t \in Seq(Bytes) /\ Len(t) <= Len(token) /\ StripSpaces(t) = StripSpaces(token)
    BY <1>1, <2>1, StripTrim
  <2>3. Len(t) \in Nat /\ length # OldFormat
    BY <2>1, <2>2 DEF OldFormat
  <2>4. Kept = token
    BY <1>2, <2>3 DEF Kept
  <2>5. Len(t) <= MaxLength
    BY <1>1, <2>2, <2>3
  <2> QED BY <2>2, <2>3, <2>4, <2>5 DEF Remembered
<1> QED BY <1>3, <1>4

\* From a choice of the shards in hand, put together with at least the threshold of the split,
\* the token comes back.
LEMMA Rebuilt ==
    ASSUME Shape, DealtShards, shards # <<>>,
           NEW k \in Nat, NEW f \in [1..k -> 1..Len(shards)],
           \A i, j \in 1..k : i # j => f[i] # f[j],
           NEW threshold \in 1..k
    PROVE  /\ Combine(Chosen(shards, f, k), threshold) \in Seq(Bytes)
           /\ threshold >= dealt =>
                /\ Combine(Chosen(shards, f, k), threshold) = StripSpaces(Kept)
                /\ ~Overflows(Chosen(shards, f, k), threshold)
<1> DEFINE points == Chosen(shards, f, k)
           m == Degree(dealt)
<1>1. PICK t \in {token, Trim(token)} :
         \E length \in {Len(t), OldFormat}, coefficients \in [1..m -> Field] :
            /\ t # token => t # <<>> /\ length = Len(t)
            /\ DealtFor(shards, t, coefficients, length)
  BY DEF DealtShards, Dealt
<1>2. PICK length \in {Len(t), OldFormat}, coefficients \in [1..m -> Field] :
         /\ t # token => t # <<>> /\ length = Len(t)
         /\ DealtFor(shards, t, coefficients, length)
  BY <1>1
<1>3. /\ t \in Seq(Bytes) /\ Len(t) <= MaxLength
      /\ StripSpaces(Remembered(t, length)) = StripSpaces(Kept)
  <2> token \in Tokens
    BY DEF Shape
  <2> QED BY <1>2, DealtToken
<1>4. Len(points) = k /\ DealtFor(points, t, coefficients, length)
  BY <1>2, Selected
<1>5. dealt \in Nat /\ dealt >= 2 /\ m \in Nat /\ m = dealt - 1
  <2> dealt \in Nat /\ dealt >= 2
    BY PrimeFacts DEF Shape
  <2> QED BY DEF Degree
<1> HIDE DEF points, m
<1>6. length \in 0..MaxLength \cup {OldFormat}
  <2> Len(t) \in Nat /\ MaxLength \in Nat
    BY <1>3, BaseFacts
  <2> QED BY <1>3
<1>7. Combine(points, threshold) \in Seq(Bytes)
  BY <1>4, <1>6, CombineType
<1>8. ASSUME threshold >= dealt
      PROVE  Combine(points, threshold) = StripSpaces(Kept) /\ ~Overflows(points, threshold)
  <2>1. m < threshold
    BY <1>5, <1>8
  <2>2. threshold \in 1..Len(points)
    BY <1>4
  <2>3. length \in {Len(t), OldFormat}
    OBVIOUS
  <2>4. /\ Combine(points, threshold) = StripSpaces(Remembered(t, length))
        /\ ~Overflows(points, threshold)
    BY <1>3, <1>4, <1>5, <2>1, <2>2, <2>3, CombineShards, Zenon
  <2> QED BY <1>3, <2>4
<1> QED BY <1>7, <1>8 DEF points

\* So it does from all the shards in hand.
LEMMA AllShards ==
    ASSUME Shape, DealtShards, shards # <<>>, NEW threshold \in 1..Len(shards)
    PROVE  /\ Combine(shards, threshold) \in Seq(Bytes)
           /\ threshold >= dealt =>
                Combine(shards, threshold) = StripSpaces(Kept) /\ ~Overflows(shards, threshold)
<1> DEFINE k == Len(shards)
           f == [i \in 1..k |-> i]
<1>1. shards \in Seq(Share) /\ k \in Nat
  BY DEF DealtShards, Dealt, DealtFor, Distinct
<1>2. shards = Chosen(shards, f, k)
  BY <1>1 DEF Chosen
<1>3. f \in [1..k -> 1..k] /\ \A i, j \in 1..k : i # j => f[i] # f[j]
  OBVIOUS
<1> HIDE DEF f
<1>4. /\ Combine(Chosen(shards, f, k), threshold) \in Seq(Bytes)
      /\ threshold >= dealt =>
           /\ Combine(Chosen(shards, f, k), threshold) = StripSpaces(Kept)
           /\ ~Overflows(Chosen(shards, f, k), threshold)
  BY <1>1, <1>3, Rebuilt
<1> QED BY <1>2, <1>4

\* The invariant says the types.
LEMMA InvTypeOK ==
    ASSUME Inv
    PROVE  TypeOK
<1>1. \A i \in DOMAIN shards : shards[i] \in Share
  <2>1. CASE shards = <<>>
    BY <2>1
  <2>2. CASE shards # <<>>
    <3> shards \in Seq(Share)
      BY <2>2 DEF Inv, DealtShards, Dealt, DealtFor, Distinct
    <3> QED OBVIOUS
  <2> QED BY <2>1, <2>2
<1> QED BY <1>1 DEF Inv, Shape, TypeOK, Share

\* The invariant says that what is kept can be put together.
LEMMA InvKeptRebuilds ==
    ASSUME Inv
    PROVE  KeptRebuilds
<1> SUFFICES ASSUME stage = "kept", ConfigAccepted, config.threshold \in dealt..Len(shards)
             PROVE  Rebuildable
  BY DEF KeptRebuilds
<1>1. Shape /\ DealtShards /\ Len(shards) = 3 /\ shards # <<>>
  <2>1. Shape /\ DealtShards
    BY DEF Inv
  <2>2. Len(shards) = 3
    BY <2>1 DEF Shape
  <2>3. Len(<<>>) = 0
    OBVIOUS
  <2> QED BY <2>1, <2>2, <2>3
<1>2. dealt \in Nat /\ dealt >= 2
  BY <1>1, PrimeFacts DEF Shape
<1>3. config.threshold \in 1..Len(shards) /\ config.threshold >= dealt /\ Len(shards) >= config.threshold
  BY <1>1, <1>2
<1>4. ~Overflows(shards, config.threshold)
  BY <1>1, <1>3, AllShards
<1> QED BY <1>3, <1>4 DEF Rebuildable

-----------------------------------------------------------------------------
(* The invariant holds *)

\* The invariant holds at first.
LEMMA InitInv == Init => Inv
<1> SUFFICES ASSUME Init PROVE Inv
  OBVIOUS
<1>1. shards = <<>> /\ Len(shards) = 0 /\ result \in Seq(Bytes) /\ 0 \in 0..MaxTotal
  BY PrimeFacts DEF Init, NoToken
<1>2. Shape
  BY <1>1 DEF Init, Shape
<1>3. DealtShards
  BY <1>1 DEF DealtShards
<1>4. RoundTrip
  BY DEF Init, RoundTrip
<1> QED BY <1>2, <1>3, <1>4 DEF Inv

\* Dealing keeps the invariant: split_token and the script.
LEMMA DealStep ==
    ASSUME Inv, stage = "given", NEW t \in {token, Trim(token)},
           NEW length \in {Len(t), OldFormat}, t # token => t # <<>> /\ length = Len(t),
           NEW threshold \in 2..MaxTotal, NEW c, c.total \in 1..MaxTotal,
           NEW coefficients \in [1..Degree(threshold) -> Field],
           shards' = Split(t, c, coefficients, length), dealt' = threshold,
           token' = token, stage' # "returned"
    PROVE  Len(shards') = c.total /\ dealt' \in 0..MaxTotal /\ dealt' >= 2 /\ DealtShards' /\ RoundTrip'
<1>1. t \in Seq(Bytes) /\ Len(t) <= MaxLength
  <2>1. token \in Seq(Bytes) /\ Len(token) \in Nat /\ Len(token) <= MaxLength /\ MaxLength \in Nat
    <3> token \in Tokens
      BY DEF Inv, Shape
    <3> MaxLength \in Nat
      BY BaseFacts
    <3> QED BY TokenType
  <2>2. CASE t = token
    BY <2>1, <2>2
  <2>3. CASE t # token
    <3>1. t = Trim(token) /\ t # <<>>
      BY <2>3
    <3>2. t \in Seq(Bytes) /\ Len(t) <= Len(token)
      BY <2>1, <3>1, StripTrim
    <3>3. Len(t) \in Nat
      BY <3>2
    <3> QED BY <2>1, <3>2, <3>3
  <2> QED BY <2>2, <2>3
<1> DEFINE m == Degree(threshold)
           sh == Split(t, c, coefficients, length)
<1>2. m \in Nat /\ threshold \in 0..MaxTotal /\ threshold >= 2
  BY PrimeFacts DEF Degree
<1>3. Len(sh) = c.total /\ DealtFor(sh, t, coefficients, length)
  <2> HIDE DEF m
  <2> coefficients \in [1..m -> Field]
    BY DEF m
  <2> QED BY <1>1, <1>2, SplitShards
<1> HIDE DEF sh
<1>4. Dealt(sh, token, threshold)
  BY <1>3 DEF Dealt
<1>5. shards' = sh
  BY DEF sh
<1>6. DealtShards'
  BY <1>4, <1>5 DEF DealtShards
<1>7. RoundTrip'
  BY DEF RoundTrip
<1> QED BY <1>2, <1>3, <1>5, <1>6, <1>7

\* Steps that leave the shards alone and return nothing keep the invariant.
LEMMA KeepStep ==
    ASSUME Inv, UNCHANGED <<dealt, token, shards>>, stage' # "returned"
    PROVE  DealtShards' /\ RoundTrip'
<1>1. DealtShards'
  BY DEF Inv, DealtShards
<1>2. RoundTrip'
  BY DEF RoundTrip
<1> QED BY <1>1, <1>2

\* Steps that put a token together keep the invariant.
LEMMA ReturnStep ==
    ASSUME Inv, UNCHANGED <<config, dealt, token, shards>>,
           config.threshold >= dealt => result' = StripSpaces(Kept)
    PROVE  DealtShards' /\ RoundTrip'
<1>1. DealtShards'
  BY DEF Inv, DealtShards
<1>2. RoundTrip'
  BY DEF RoundTrip, Kept
<1> QED BY <1>1, <1>2

\* Every step keeps the invariant.
LEMMA NextInv == Inv /\ [Next]_vars => Inv'
<1> SUFFICES ASSUME Inv, [Next]_vars PROVE Inv'
  OBVIOUS
<1>0. Shape /\ DealtShards /\ RoundTrip
  BY DEF Inv
<1>a. /\ config.threshold \in 1..MaxTotal /\ config.total \in 1..MaxTotal
      /\ config.threshold \in Nat /\ config.total \in Nat
  <2> config \in Configs
    BY <1>0 DEF Shape
  <2> QED BY ConfigType
<1>b. Len(<<>>) = 0
  OBVIOUS
<1>1. CASE RejectConfig
  <2>1. Shape'
    BY <1>0, <1>1 DEF Shape, RejectConfig
  <2>2. DealtShards' /\ RoundTrip'
    BY <1>1, KeepStep DEF RejectConfig
  <2> QED BY <2>1, <2>2 DEF Inv
<1>2. CASE SplitToken
  <2>1. PICK coefficients \in [1..Degree(config.threshold) -> Field], length \in {Len(token), OldFormat} :
           shards' = Split(token, config, coefficients, length)
    BY <1>2 DEF SplitToken
  <2>2. stage = "given" /\ dealt' = config.threshold /\ token' = token /\ stage' = "split"
        /\ config.threshold \in 2..MaxTotal /\ ConfigAccepted
    BY <1>2, <1>a DEF SplitToken, ConfigAccepted
  <2>3. Len(shards') = config.total /\ dealt' \in 0..MaxTotal /\ dealt' >= 2
        /\ DealtShards' /\ RoundTrip'
    BY <1>a, <2>1, <2>2, DealStep
  <2>4. Shape'
    BY <1>0, <1>2, <2>2, <2>3 DEF Shape, SplitToken, ConfigAccepted
  <2> QED BY <2>3, <2>4 DEF Inv
<1>3. ASSUME NEW t \in {token, Trim(token)}, InitShards(t)
      PROVE  Inv'
  <2>1. PICK coefficients \in [1..Degree(3) -> Field] : shards' = ScriptDeals(t, coefficients)
    BY <1>3 DEF InitShards
  <2> DEFINE c == [threshold |-> 3, total |-> 3]
  <2>2. shards' = Split(t, c, coefficients, Len(t)) /\ c.total = 3
    BY <2>1 DEF ScriptDeals
  <2>3. /\ stage = "given" /\ t # <<>> /\ dealt' = 3 /\ token' = token /\ stage' = "kept"
        /\ config' = config /\ result' = result
    BY <1>3 DEF InitShards
  <2>4. 3 \in 2..MaxTotal /\ 3 \in 1..MaxTotal
    BY PrimeFacts
  <2> HIDE DEF c
  <2>5. Len(shards') = 3 /\ dealt' \in 0..MaxTotal /\ dealt' >= 2 /\ DealtShards' /\ RoundTrip'
    BY <2>2, <2>3, <2>4, DealStep
  <2>6. Shape'
    BY <1>0, <2>3, <2>5 DEF Shape
  <2> QED BY <2>5, <2>6 DEF Inv
<1>4. ASSUME NEW t \in {token, Trim(token)}, InitShardsRefuses(t)
      PROVE  Inv'
  <2>1. Shape'
    BY <1>0, <1>4 DEF Shape, InitShardsRefuses
  <2>2. DealtShards' /\ RoundTrip'
    BY <1>4, KeepStep DEF InitShardsRefuses
  <2> QED BY <2>1, <2>2 DEF Inv
<1>5. ASSUME NEW selection \in Selections[config.total], ReconstructToken(selection)
      PROVE  Inv'
  <2> DEFINE total == config.total
             k == Len(selection)
             points == [i \in 1..Len(selection) |-> shards[selection[i]]]
  <2>1. /\ stage = "split" /\ k >= config.threshold /\ result' = Combine(points, config.threshold)
        /\ stage' = "returned" /\ UNCHANGED <<config, dealt, token, shards>>
    BY <1>5 DEF ReconstructToken
  <2>2. /\ ConfigAccepted /\ config.threshold = dealt /\ Len(shards) = total
        /\ config.threshold >= 2 /\ shards # <<>>
    BY <1>0, <1>a, <1>b, <2>1 DEF Shape, ConfigAccepted
  <2>3. PICK S \in SUBSET (1..total) : selection \in SetToSeqs(S)
    <3> selection \in SetToAllKPermutations(1..total)
      BY <1>a, <1>5 DEF Selections
    <3> QED BY DEF SetToAllKPermutations
  <2>4. /\ k \in Nat /\ selection \in [1..k -> 1..Len(shards)]
        /\ \A i, j \in 1..k : i # j => selection[i] # selection[j]
    <3> DEFINE d == Cardinality(S)
    <3>1. d \in Nat
      <4> IsFiniteSet(1..total)
        BY <1>a, FS_Interval
      <4> IsFiniteSet(S)
        BY FS_Subset
      <4> QED BY FS_CardinalityType
    <3>2. selection \in [1..d -> S] /\ \A i, j \in 1..d : i # j => selection[i] # selection[j]
      BY <2>3 DEF SetToSeqs
    <3> HIDE DEF d
    <3>3. Len(selection) = d
      BY <3>1, <3>2
    <3> QED BY <2>2, <3>1, <3>2, <3>3
  <2>5. points = Chosen(shards, selection, k)
    BY DEF Chosen
  <2>6. config.threshold \in 1..k /\ config.threshold >= dealt
    BY <1>a, <2>1, <2>2, <2>4
  <2> HIDE DEF points, k
  <2>7. Combine(points, config.threshold) \in Seq(Bytes)
    BY <1>0, <2>2, <2>4, <2>5, <2>6, Rebuilt
  <2>8. Combine(points, config.threshold) = StripSpaces(Kept)
    BY <1>0, <2>2, <2>4, <2>5, <2>6, Rebuilt
  <2>9. Shape'
    BY <1>0, <2>1, <2>7 DEF Shape
  <2>10. DealtShards' /\ RoundTrip'
    BY <2>1, <2>8, ReturnStep
  <2> QED BY <2>9, <2>10 DEF Inv
<1>6. ASSUME NEW selection \in Selections[config.total], TooFewShards(selection)
      PROVE  Inv'
  <2>1. Shape'
    BY <1>0, <1>6 DEF Shape, TooFewShards
  <2>2. DealtShards' /\ RoundTrip'
    BY <1>6, KeepStep DEF TooFewShards
  <2> QED BY <2>1, <2>2 DEF Inv
<1>7. CASE KeepThree
  <2>1. /\ stage = "split" /\ config.total >= 3 /\ shards' = SubSeq(shards, 1, 3)
        /\ stage' = "kept" /\ UNCHANGED <<config, dealt, token, result>>
    BY <1>7 DEF KeepThree
  <2>2. Len(shards) = config.total /\ shards # <<>> /\ 3 \in 0..Len(shards) /\ dealt >= 2
    BY <1>0, <1>a, <1>b, <2>1 DEF Shape
  <2>3. PICK t \in {token, Trim(token)} :
           \E length \in {Len(t), OldFormat}, coefficients \in [1..Degree(dealt) -> Field] :
              /\ t # token => t # <<>> /\ length = Len(t)
              /\ DealtFor(shards, t, coefficients, length)
    BY <1>0, <2>2 DEF DealtShards, Dealt
  <2>4. PICK length \in {Len(t), OldFormat}, coefficients \in [1..Degree(dealt) -> Field] :
              /\ t # token => t # <<>> /\ length = Len(t)
              /\ DealtFor(shards, t, coefficients, length)
    BY <2>3
  <2>5. Len(shards') = 3 /\ DealtFor(shards', t, coefficients, length)
    BY <2>1, <2>2, <2>4, FirstShards
  <2>6. Dealt(shards', token, dealt)
    BY <2>4, <2>5 DEF Dealt
  <2>7. DealtShards'
    BY <2>1, <2>6 DEF DealtShards
  <2>8. RoundTrip'
    BY <2>1 DEF RoundTrip
  <2>9. Shape'
    BY <1>0, <2>1, <2>2, <2>5 DEF Shape
  <2> QED BY <2>7, <2>8, <2>9 DEF Inv
<1>8. CASE KeepThreeFails
  <2>1. Shape'
    BY <1>0, <1>8 DEF Shape, KeepThreeFails
  <2>2. DealtShards' /\ RoundTrip'
    BY <1>8, KeepStep DEF KeepThreeFails
  <2> QED BY <2>1, <2>2 DEF Inv
<1>9. CASE Reconfigure
  <2>1. Shape'
    BY <1>0, <1>9 DEF Shape, Reconfigure
  <2>2. DealtShards' /\ RoundTrip'
    BY <1>9, KeepStep DEF Reconfigure
  <2> QED BY <2>1, <2>2 DEF Inv
<1>10. CASE ReconstructFromEnv
  <2>1. /\ stage = "kept" /\ Rebuildable /\ result' = Combine(shards, config.threshold)
        /\ stage' = "returned" /\ UNCHANGED <<config, dealt, token, shards>>
    BY <1>10 DEF ReconstructFromEnv
  <2>2. Len(shards) = 3 /\ shards # <<>>
    <3> Len(shards) = 3
      BY <1>0, <2>1 DEF Shape
    <3> QED BY <1>b
  <2>3. config.threshold \in 1..Len(shards)
    BY <1>a, <2>1, <2>2 DEF Rebuildable
  <2>4. Combine(shards, config.threshold) \in Seq(Bytes)
    BY <1>0, <2>2, <2>3, AllShards
  <2>5. config.threshold >= dealt => Combine(shards, config.threshold) = StripSpaces(Kept)
    BY <1>0, <2>2, <2>3, AllShards
  <2>6. Shape'
    BY <1>0, <2>1, <2>4 DEF Shape
  <2>7. DealtShards' /\ RoundTrip'
    BY <2>1, <2>5, ReturnStep
  <2> QED BY <2>6, <2>7 DEF Inv
<1>11. CASE ReconstructFromEnvFails
  <2>1. Shape'
    BY <1>0, <1>11 DEF Shape, ReconstructFromEnvFails
  <2>2. DealtShards' /\ RoundTrip'
    BY <1>11, KeepStep DEF ReconstructFromEnvFails
  <2> QED BY <2>1, <2>2 DEF Inv
<1>12. CASE UNCHANGED vars
  <2>1. Shape'
    BY <1>0, <1>12 DEF Shape, vars, ConfigAccepted
  <2>2. DealtShards'
    BY <1>0, <1>12 DEF DealtShards, vars
  <2>3. RoundTrip'
    BY <1>0, <1>12 DEF RoundTrip, vars
  <2> QED BY <2>1, <2>2, <2>3 DEF Inv
<1> QED BY <1>1, <1>2, <1>3, <1>4, <1>5, <1>6, <1>7, <1>8, <1>9, <1>10, <1>11, <1>12 DEF Next

\* The inductive invariant holds in every state.
THEOREM Invariant == Spec => []Inv
<1>1. Init => Inv
  BY InitInv
<1>2. Inv /\ [Next]_vars => Inv'
  BY NextInv
<1> QED BY <1>1, <1>2, PTL DEF Spec

\* In every state the variables have their types: split_token and reconstruct_token return
\* shards and tokens.
THEOREM TypeCorrect == Spec => []TypeOK
<1>1. Inv => TypeOK
  BY InvTypeOK
<1> QED BY <1>1, Invariant, PTL

\* What was split comes back from any choice of at least the threshold of the shards, in any
\* order (split_token, reconstruct_token, reconstruct_token_from_env).
THEOREM RoundTripCorrect == Spec => []RoundTrip
<1>1. Inv => RoundTrip
  BY DEF Inv
<1> QED BY <1>1, Invariant, PTL

\* Once the shards are in the environment, a threshold no lower than that of the split rebuilds
\* the token without an overflow (reconstruct_token_from_env).
THEOREM KeptRebuildsCorrect == Spec => []KeptRebuilds
<1>1. Inv => KeptRebuilds
  BY InvKeptRebuilds
<1> QED BY <1>1, Invariant, PTL

-----------------------------------------------------------------------------
(* One shard short of the threshold *)

\* Shards one short of the threshold that a token may have dealt, any other token of its length
\* may have dealt too.
LEMMA SameViews ==
    ASSUME config \in Configs, ConfigAccepted,
           NEW S \in SUBSET (1..config.total), Cardinality(S) = config.threshold - 1,
           NEW t \in Seq(Bytes), NEW o \in Seq(Bytes), Len(t) <= MaxLength, Len(o) = Len(t)
    PROVE  Views(S, t) \subseteq Views(S, o)
<1> DEFINE n == Degree(config.threshold)
           total == config.total
           W(u, c) == [i \in S |-> Split(u, config, c, Len(u))[i]]
<1>1. /\ n \in Nat /\ n = config.threshold - 1
      /\ total \in 1..MaxTotal /\ total \in Nat
  <2> config.threshold \in Nat /\ config.threshold >= 2 /\ total \in 1..MaxTotal /\ total \in Nat
    BY ConfigType DEF ConfigAccepted
  <2> QED BY DEF Degree
<1>2. S \in SUBSET (1..MaxTotal) /\ Cardinality(S) = n
  <2> HIDE DEF n, total
  <2>1. 1..total \subseteq 1..MaxTotal
    BY <1>1, PrimeFacts
  <2>2. S \subseteq 1..total
    BY DEF total
  <2> QED BY <1>1, <2>1, <2>2
<1>3. \A u, c : c \in [1..n -> Field] => W(u, c) \in Views(S, u)
  BY DEF Views
<1>4. ASSUME NEW view \in Views(S, t)
      PROVE  view \in Views(S, o)
  <2>1. PICK c \in [1..n -> Field] : view = W(t, c)
    BY DEF Views
  <2>2. ToInt(t) \in Field /\ ToInt(o) \in Field
    BY ToIntType
  <2>3. PICK e \in [1..n -> Field] : \A i \in S : Evaluate(ToInt(o), e, i) = Evaluate(ToInt(t), c, i)
    <3> HIDE DEF n
    <3> QED BY <1>1, <1>2, <2>2, OtherSecret
  <2>4. \A i \in S : i \in 1..config.total
    OBVIOUS
  <2>5. \A i \in S : Split(t, config, c, Len(t))[i] = Split(o, config, e, Len(o))[i]
    BY <2>3, <2>4 DEF Split
  <2>6. W(t, c) = W(o, e)
    BY <2>5
  <2>7. W(o, e) \in Views(S, o)
    BY <1>3
  <2> QED BY <2>1, <2>6, <2>7
<1> QED BY <1>4

\* Shards one short of the threshold tell nothing of the token but its length (split_token).
THEOREM Secrecy == Spec => []BelowThresholdFitsAnyToken
<1>1. Inv => BelowThresholdFitsAnyToken
  <2> SUFFICES ASSUME Inv, ConfigAccepted,
                      NEW S \in kSubset(config.threshold - 1, 1..config.total),
                      NEW t \in [1..Len(token) -> Bytes]
               PROVE  Views(S, t) = Views(S, token)
    BY DEF BelowThresholdFitsAnyToken
  <2>1. config \in Configs /\ token \in Tokens
    BY DEF Inv, Shape
  <2>2. S \in SUBSET (1..config.total) /\ Cardinality(S) = config.threshold - 1
    BY DEF kSubset
  <2>3. token \in Seq(Bytes) /\ Len(token) \in Nat /\ Len(token) <= MaxLength
    <3> MaxLength \in Nat
      BY BaseFacts
    <3> QED BY <2>1, TokenType
  <2>4. t \in Seq(Bytes) /\ Len(t) = Len(token)
    BY <2>3
  <2>5. Views(S, t) \subseteq Views(S, token)
    BY <2>1, <2>2, <2>3, <2>4, SameViews
  <2>6. Views(S, token) \subseteq Views(S, t)
    BY <2>1, <2>2, <2>3, <2>4, SameViews
  <2> QED BY <2>5, <2>6
<1> QED BY <1>1, Invariant, PTL

=============================================================================
