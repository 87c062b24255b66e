--------------------------- MODULE ModularLemmas ---------------------------
(***************************************************************************)
(* Facts about quotient and remainder, and about powers of two, that the   *)
(* proofs about sequence numbers, line indices and words rest on.          *)
(***************************************************************************)
EXTENDS Integers, TLAPS, WellFoundedInduction

\* Division with remainder.
LEMMA DivMod ==
  ASSUME NEW a \in Int, NEW m \in Nat \ {0}
  PROVE  /\ a = m * (a \div m) + (a % m)
         /\ a % m \in 0 .. m - 1
         /\ a \div m \in Int
OBVIOUS

\* Quotient and remainder are unique.
LEMMA DivUnique ==
  ASSUME NEW m \in Nat \ {0}, NEW q1 \in Int, NEW q2 \in Int,
         NEW r1 \in 0 .. m - 1, NEW r2 \in 0 .. m - 1,
         m * q1 + r1 = m * q2 + r2
  PROVE  q1 = q2 /\ r1 = r2
<1>1. m * (q1 - q2) = r2 - r1
  OBVIOUS
<1>2. q1 = q2
  <2>1. CASE q1 - q2 >= 1
    <3>1. m * (q1 - q2) >= m
      BY <2>1
    <3> QED BY <3>1, <1>1
  <2>2. CASE q2 - q1 >= 1
    <3>1. m * (q2 - q1) >= m
      BY <2>2
    <3> QED BY <3>1, <1>1
  <2> QED BY <2>1, <2>2
<1> QED BY <1>1, <1>2

\* A number given by quotient and remainder.
LEMMA DivModOf ==
  ASSUME NEW m \in Nat \ {0}, NEW q \in Int, NEW r \in 0 .. m - 1
  PROVE  (m * q + r) % m = r /\ (m * q + r) \div m = q
<1> DEFINE a == m * q + r
<1>1. a \in Int
  OBVIOUS
<1>2. /\ a = m * (a \div m) + (a % m)
      /\ a % m \in 0 .. m - 1
      /\ a \div m \in Int
  BY <1>1, DivMod
<1>3. m * q + r = m * (a \div m) + (a % m)
  BY <1>2
<1> HIDE DEF a
<1>4. q = a \div m /\ r = a % m
  BY <1>2, <1>3, DivUnique
<1> QED BY <1>4 DEF a

\* Numbers less than m apart that leave the same remainder are equal.
LEMMA ModEqual ==
  ASSUME NEW a \in Int, NEW b \in Int, NEW m \in Nat \ {0},
         a % m = b % m, a - b < m, b - a < m
  PROVE  a = b
<1> DEFINE qa == a \div m
           qb == b \div m
<1>1. /\ a = m * qa + (a % m) /\ b = m * qb + (b % m)
      /\ qa \in Int /\ qb \in Int
  BY DivMod
<1>2. a - b = m * (qa - qb)
  BY <1>1
<1> HIDE DEF qa, qb
<1>3. qa = qb
  <2>1. CASE qa - qb >= 1
    <3>1. m * (qa - qb) >= m
      BY <1>1, <2>1
    <3> QED BY <3>1, <1>2
  <2>2. CASE qb - qa >= 1
    <3>1. m * (qb - qa) >= m
      BY <1>1, <2>2
    <3> QED BY <3>1, <1>2, <1>1
  <2> QED BY <2>1, <2>2, <1>1
<1> QED BY <1>2, <1>3, <1>1

\* Taking a remainder twice.
LEMMA ModMod ==
  ASSUME NEW a \in Int, NEW m \in Nat \ {0}, NEW k \in Nat \ {0}
  PROVE  (a % (m * k)) % m = a % m
<1> DEFINE d == m * k
           u == a \div d
           x == a % d
           p == x \div m
           w == x % m
<1>1. d \in Nat \ {0}
  OBVIOUS
<1>2. a = d * u + x /\ x \in 0 .. d - 1 /\ u \in Int
  BY <1>1, DivMod
<1> HIDE DEF d, u, x
<1>3. x = m * p + w /\ w \in 0 .. m - 1 /\ p \in Int
  BY <1>1, <1>2, DivMod
<1> HIDE DEF p, w
<1>4. a = m * (k * u + p) + w /\ k * u + p \in Int
  BY <1>2, <1>3 DEF d
<1>5. a % m = w
  BY <1>3, <1>4, DivModOf
<1> QED BY <1>5 DEF w, x, d

\* Row q, column r of a table with k rows of m.
LEMMA Cell ==
  ASSUME NEW m \in Nat \ {0}, NEW k \in Nat \ {0},
         NEW q \in 0 .. k - 1, NEW r \in 0 .. m - 1
  PROVE  m * q + r \in 0 .. m * k - 1
<1>1. m * (k - 1 - q) >= 0
  OBVIOUS
<1>2. m * (k - 1 - q) = m * k - m - m * q
  OBVIOUS
<1>3. m * q >= 0 /\ m * q \in Int /\ m * k \in Int
  OBVIOUS
<1> QED BY <1>1, <1>2, <1>3

\* The row and the column of an entry.
LEMMA RowColumn ==
  ASSUME NEW m \in Nat \ {0}, NEW k \in Nat \ {0}, NEW x \in 0 .. m * k - 1
  PROVE  /\ x = m * (x \div m) + (x % m)
         /\ x \div m \in 0 .. k - 1
         /\ x % m \in 0 .. m - 1
<1> DEFINE q == x \div m
           r == x % m
<1>1. x \in Int /\ m * k \in Int
  OBVIOUS
<1>2. x = m * q + r /\ r \in 0 .. m - 1 /\ q \in Int
  BY <1>1, DivMod
<1> HIDE DEF q, r
<1>3. q >= 0
  <2>1. CASE q <= 0 - 1
    <3>1. m * (0 - 1 - q) >= 0
      BY <2>1, <1>2
    <3>2. m * (0 - 1 - q) = 0 - m - m * q
      BY <1>2
    <3> QED BY <3>1, <3>2, <1>2
  <2> QED BY <2>1, <1>2
<1>4. q <= k - 1
  <2>1. CASE q >= k
    <3>1. m * (q - k) >= 0
      BY <2>1, <1>2
    <3>2. m * (q - k) = m * q - m * k
      BY <1>2
    <3> QED BY <3>1, <3>2, <1>2
  <2> QED BY <2>1, <1>2
<1> QED BY <1>2, <1>3, <1>4 DEF q, r

\* A number that divides another one.
LEMMA Quotient ==
  ASSUME NEW a \in Nat \ {0}, NEW m \in Nat \ {0}, a % m = 0
  PROVE  a = m * (a \div m) /\ a \div m \in Nat \ {0}
<1> DEFINE k == a \div m
<1>1. a = m * k + (a % m) /\ k \in Int
  BY DivMod
<1> HIDE DEF k
<1>2. a = m * k
  BY <1>1
<1>3. k > 0
  <2>1. CASE k <= 0
    <3>1. m * (0 - k) >= 0
      BY <1>1, <2>1
    <3>2. m * (0 - k) = 0 - m * k
      BY <1>1
    <3> QED BY <3>1, <3>2, <1>2
  <2> QED BY <2>1, <1>1
<1> QED BY <1>1, <1>2, <1>3 DEF k

\* A number less than the divisor.
LEMMA ModSmall ==
  ASSUME NEW d \in Nat \ {0}, NEW a \in Nat, a < d
  PROVE  a % d = a
<1>1. a = d * (a \div d) + (a % d) /\ a % d \in 0 .. d - 1 /\ a \div d \in Int
  BY DivMod
<1>2. d * 0 + a = a /\ a \in 0 .. d - 1 /\ 0 \in Int
  BY SMT
<1> QED
  BY <1>1, <1>2, DivUnique

-----------------------------------------------------------------------------
\* A set of natural numbers has a least one: what the proofs use for induction.
LEMMA HasLeast ==
  ASSUME NEW S \in SUBSET Nat, NEW e \in S
  PROVE  \E m \in S : \A k \in S : m <= k
<1> DEFINE R1 == OpToRel(<, Nat)
<1>1. IsWellFoundedOn(R1, Nat)
  BY NatLessThanWellFounded
<1>2. \A x \in Nat, y \in Nat : x < y => <<x, y>> \in R1
  BY Zenon DEF OpToRel
<1> HIDE DEF R1
<1>3. PICK m \in S : \A k \in S : <<k, m>> \notin R1
  BY <1>1, WFMin, Zenon
<1>4. \A k \in S : ~(k < m)
  BY <1>2, <1>3, Zenon
<1> QED
  BY <1>4, SMT

\* Powers of two up to 2^w, given that each one is twice the one before.
Doubling(w) == \A k \in 0 .. w - 1 : 2 ^ (k + 1) = 2 * 2 ^ k

LEMMA PowNat ==
  ASSUME NEW w \in Nat, Doubling(w), NEW k \in 0 .. w
  PROVE  2 ^ k \in Nat \ {0}
<1> DEFINE Bad == {j \in 0 .. w : 2 ^ j \notin Nat \ {0}}
<1> SUFFICES ASSUME Bad # {} PROVE FALSE
  BY Zenon
<1>1. Bad \in SUBSET Nat
  OBVIOUS
<1>2. PICK b \in Bad : \A j \in Bad : b <= j
  BY <1>1, HasLeast
<1>3. b \in 0 .. w /\ 2 ^ b \notin Nat \ {0}
  BY Zenon
<1>4. b # 0
  <2>1. 2 ^ 0 = 1 /\ 1 \in Nat \ {0}
    OBVIOUS
  <2> QED BY <2>1, <1>3, Zenon
<1> DEFINE c == b - 1
<1>5. c \in 0 .. w - 1 /\ c + 1 = b /\ c \in 0 .. w /\ ~(b <= c)
  BY <1>3, <1>4
<1>6. c \notin Bad
  BY <1>2, <1>5, Zenon
<1> HIDE DEF c
<1>7. 2 ^ c \in Nat \ {0}
  BY <1>5, <1>6, Zenon
<1>8. 2 ^ b = 2 * 2 ^ c
  BY <1>5, Zenon DEF Doubling
<1> QED BY <1>3, <1>7, <1>8

LEMMA PowSum ==
  ASSUME NEW w \in Nat, Doubling(w), NEW i \in 0 .. w, NEW k \in 0 .. w - i
  PROVE  2 ^ (i + k) = 2 ^ i * 2 ^ k
<1> DEFINE Bad == {j \in 0 .. w - i : 2 ^ (i + j) # 2 ^ i * 2 ^ j}
<1> SUFFICES ASSUME Bad # {} PROVE FALSE
  BY Zenon
<1>1. Bad \in SUBSET Nat
  OBVIOUS
<1>2. PICK b \in Bad : \A j \in Bad : b <= j
  BY <1>1, HasLeast
<1>3. b \in 0 .. w - i /\ 2 ^ (i + b) # 2 ^ i * 2 ^ b
  BY Zenon
<1> DEFINE p == 2 ^ i
<1>4. p \in Nat \ {0}
  BY PowNat
<1>5. b # 0
  <2>1. 2 ^ 0 = 1 /\ i + 0 = i /\ p * 1 = p
    BY <1>4
  <2> QED BY <2>1, <1>3, Zenon
<1> DEFINE c == b - 1
<1>6. /\ c \in 0 .. w - 1 /\ c \in 0 .. w - i /\ c + 1 = b /\ ~(b <= c)
      /\ i + c \in 0 .. w - 1 /\ (i + c) + 1 = i + b /\ c \in 0 .. w
  BY <1>3, <1>5
<1>7. c \notin Bad
  BY <1>2, <1>6, Zenon
<1> HIDE DEF c
<1> DEFINE q == 2 ^ c
<1>8. 2 ^ (i + c) = p * q
  BY <1>6, <1>7, Zenon
<1>9. q \in Nat \ {0}
  BY <1>6, PowNat
<1>10. 2 ^ (i + b) = 2 * 2 ^ (i + c) /\ 2 ^ b = 2 * q
  BY <1>6, Zenon DEF Doubling
<1> HIDE DEF p, q
<1>11. 2 * (p * q) = p * (2 * q)
  BY <1>4, <1>9
<1> QED BY <1>3, <1>8, <1>10, <1>11, Zenon DEF p

\* A smaller one divides a larger one.
LEMMA PowDivides ==
  ASSUME NEW w \in Nat, Doubling(w), NEW i \in 0 .. w, NEW j \in 0 .. w
  PROVE  /\ i <= j => /\ 2 ^ j = 2 ^ i * 2 ^ (j - i) /\ 2 ^ (j - i) \in Nat \ {0}
                      /\ 2 ^ i <= 2 ^ j
         /\ i < j => 2 ^ i < 2 ^ j
<1> DEFINE p == 2 ^ i  q == 2 ^ (j - i)  r == 2 ^ j
<1>0. i < j => i <= j
  OBVIOUS
<1> SUFFICES ASSUME i <= j
             PROVE  r = p * q /\ q \in Nat \ {0} /\ p <= r /\ (i < j => p < r)
  BY <1>0, Zenon
<1>1. j - i \in 0 .. w - i /\ j - i \in 0 .. w /\ i + (j - i) = j
  OBVIOUS
<1>2. p \in Nat \ {0} /\ q \in Nat \ {0}
  BY <1>1, PowNat
<1>3. r = p * q
  BY <1>1, PowSum
<1>4. i < j => q >= 2
  <2> SUFFICES ASSUME i < j PROVE q >= 2
    OBVIOUS
  <2> DEFINE h == 2 ^ ((j - i) - 1)
  <2>1. (j - i) - 1 \in 0 .. w - 1 /\ ((j - i) - 1) + 1 = j - i /\ (j - i) - 1 \in 0 .. w
    OBVIOUS
  <2>2. h \in Nat \ {0} /\ q = 2 * h
    BY <2>1, PowNat DEF Doubling
  <2> HIDE DEF h, q
  <2> QED BY <2>2
<1> HIDE DEF p, q, r
<1> QED BY <1>2, <1>3, <1>4

\* Dividing by a product.
LEMMA DivProduct ==
  ASSUME NEW a \in Int, NEW m \in Nat \ {0}, NEW k \in Nat \ {0}
  PROVE  /\ a \div (m * k) = (a \div m) \div k
         /\ a % (m * k) = m * ((a \div m) % k) + (a % m)
         /\ (a % (m * k)) \div m = (a \div m) % k
<1> DEFINE q == a \div m  r == a % m  p == q \div k  s == q % k
<1>1. a = m * q + r /\ r \in 0 .. m - 1 /\ q \in Int
  BY DivMod
<1> HIDE DEF q, r
<1>2. q = k * p + s /\ s \in 0 .. k - 1 /\ p \in Int
  BY <1>1, DivMod
<1> HIDE DEF p, s
<1> DEFINE mk == m * k  t == m * s + r
<1>3. mk \in Nat \ {0} /\ t \in 0 .. mk - 1
  BY <1>1, <1>2, Cell
<1>4. a = mk * p + t
  <2>1. m * (k * p + s) = (m * k) * p + m * s
    BY <1>2
  <2> QED BY <1>1, <1>2, <2>1
<1> HIDE DEF mk, t
<1>5. a \div mk = p /\ a % mk = t
  BY <1>2, <1>3, <1>4, DivModOf
<1>6. (m * s + r) \div m = s
  BY <1>1, <1>2, DivModOf
<1> QED BY <1>5, <1>6 DEF mk, t, p, s, q, r

\* Dividing what is as far below -1 as a number is above 0.
LEMMA DivNot ==
  ASSUME NEW a \in Int, NEW m \in Nat \ {0}
  PROVE  (-1 - a) \div m = -1 - (a \div m) /\ (-1 - a) % m = m - 1 - (a % m)
<1> DEFINE q == a \div m  r == a % m
<1>1. a = m * q + r /\ r \in 0 .. m - 1 /\ q \in Int
  BY DivMod
<1> HIDE DEF q, r
<1>2. /\ -1 - a = m * (-1 - q) + (m - 1 - r)
      /\ -1 - q \in Int /\ m - 1 - r \in 0 .. m - 1
  BY <1>1
<1> DEFINE q2 == -1 - q  r2 == m - 1 - r
<1>3. q2 \in Int /\ r2 \in 0 .. m - 1 /\ -1 - a = m * q2 + r2
  BY <1>2
<1> HIDE DEF q2, r2
<1>4. (m * q2 + r2) % m = r2 /\ (m * q2 + r2) \div m = q2
  BY <1>3, DivModOf
<1> QED BY <1>3, <1>4 DEF q2, r2, q, r

\* A quotient of naturals is a natural, and no larger.
LEMMA DivBelow ==
  ASSUME NEW v \in Nat, NEW p \in Nat \ {0}
  PROVE  v \div p \in Nat /\ v \div p <= v
<1> DEFINE q == v \div p  r == v % p
<1>1. v = p * q + r /\ r \in 0 .. p - 1 /\ q \in Int
  BY DivMod
<1> HIDE DEF q, r
<1>2. q >= 0
  <2>1. CASE q <= -1
    <3>1. p * (-1 - q) >= 0
      BY <2>1, <1>1
    <3>2. p * (-1 - q) = -p - p * q
      BY <1>1
    <3> QED BY <3>1, <3>2, <1>1
  <2> QED BY <2>1, <1>1
<1>3. q <= v
  <2>1. (p - 1) * q >= 0
    BY <1>1, <1>2
  <2>2. (p - 1) * q = p * q - q
    BY <1>1
  <2> QED BY <2>1, <2>2, <1>1
<1> QED BY <1>1, <1>2, <1>3 DEF q

\* The larger number has the larger square.
LEMMA Squares ==
  ASSUME NEW a \in Nat, NEW b \in Nat, a <= b
  PROVE  a * a \in Nat /\ b * b \in Nat /\ a * a <= b * b
<1>1. a * a <= a * b
  OBVIOUS
<1>2. a * b <= b * b
  OBVIOUS
<1> QED BY <1>1, <1>2
=============================================================================
