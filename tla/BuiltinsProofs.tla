--------------------------- MODULE BuiltinsProofs ---------------------------
(***************************************************************************)
(* Theorems about Builtins: what a call of a built-in procedure answers.   *)
(*                                                                         *)
(* Each branch has a loop over its operands.  Working says what the locals *)
(* of the loop are after some operands, and what a call answers follows    *)
(* from that when it is over.  Sums, products and the functions that go    *)
(* down a list are recursive functions: the lemmas below show first that   *)
(* each exists, and then use its equation.                                 *)
(***************************************************************************)
EXTENDS Builtins, CommonLemmas, TLAPS

-----------------------------------------------------------------------------
(* Integers *)

Modulus == 2 * (MaxInt + 1)

LEMMA Limits ==
  /\ MaxInt \in Nat /\ MaxInt >= 1 /\ MaxCast \in 0..MaxInt /\ MaxOperands \in Nat
  /\ MinInt \in Int /\ MinInt = -MaxInt - 1
  /\ Modulus \in Nat /\ Modulus = 2 * (MaxInt + 1) /\ Modulus > 1
BY BuiltinsAssumption DEF MinInt, Modulus

LEMMA DivisionFacts ==
  ASSUME NEW m \in Nat, m > 0, NEW a \in Int
  PROVE  (a % m) \in 0..(m - 1) /\ (a \div m) \in Int /\ a = m * (a \div m) + (a % m)
<1>1. (a % m) \in 0..(m - 1) /\ (a \div m) \in Int
  BY SMTT(30)
<1>2. a = m * (a \div m) + (a % m)
  BY SMTT(30)
<1> QED
  BY <1>1, <1>2

\* There is only one multiple of m between two numbers at a distance below m.
LEMMA NextMultiple ==
  ASSUME NEW m \in Nat, NEW d \in Int, d * m < m, d * m > -m
  PROVE  d = 0
<1>1. CASE d >= 1
  BY <1>1, SMTT(30)
<1>2. CASE d <= -1
  BY <1>2, SMTT(30)
<1> QED
  BY <1>1, <1>2

\* Wrapping gives an integer in range, and the same one for numbers that differ by
\* a multiple of the modulus.
LEMMA WrapRange ==
  ASSUME NEW v \in Int
  PROVE  /\ Wrap(v) \in Int /\ Wrap(v) \in MinInt .. MaxInt
         /\ \E q \in Int : v = Wrap(v) + q * Modulus
<1>1. PICK u \in Int : u = v - MinInt
  BY Limits
<1>2. PICK m \in Nat : m = Modulus
  BY Limits
<1>3. PICK r \in 0..(m - 1) : r = u % m
  BY <1>1, <1>2, Limits, DivisionFacts
<1>4. PICK q \in Int : q = u \div m
  BY <1>1, <1>2, Limits, DivisionFacts
<1>5. u = m * q + r
  <2>1. u = m * (u \div m) + (u % m)
    BY <1>2, Limits, DivisionFacts
  <2> QED
    BY <1>3, <1>4, <2>1, Zenon
<1>6. Wrap(v) = r + MinInt
  BY <1>1, <1>2, <1>3 DEF Wrap, Modulus
<1>7. Wrap(v) \in Int /\ Wrap(v) \in MinInt .. MaxInt
  BY <1>2, <1>3, <1>6, Limits
<1>8. v = (r + MinInt) + q * m
  <2>1. m * q = q * m /\ q * m \in Int
    OBVIOUS
  <2> QED
    BY <1>1, <1>5, <2>1, Limits
<1> QED
  BY <1>2, <1>6, <1>7, <1>8

LEMMA WrapUnique ==
  ASSUME NEW v \in Int, NEW w \in MinInt .. MaxInt, NEW q \in Int, v = w + q * Modulus
  PROVE  Wrap(v) = w
<1>1. PICK p \in Int : v = Wrap(v) + p * Modulus
  BY WrapRange
<1>2. PICK u \in MinInt .. MaxInt : u = Wrap(v)
  BY WrapRange
<1>3. PICK m \in Nat : m = Modulus
  BY Limits
<1>4. u \in Int /\ w \in Int /\ u - w < m /\ u - w > -m
  BY <1>3, Limits
<1>5. (q - p) * m = q * m - p * m /\ q * m \in Int /\ p * m \in Int
  BY SMTT(30)
<1>6. u - w = (q - p) * m
  <2>1. v = w + q * m /\ v = u + p * m
    BY <1>1, <1>2, <1>3, Zenon
  <2>2. PICK x \in Int, y \in Int : x = q * m /\ y = p * m
    BY <1>5
  <2> QED
    BY <1>4, <1>5, <2>1, <2>2
<1>7. q - p = 0
  BY <1>4, <1>6, NextMultiple
<1> QED
  BY <1>2, <1>4, <1>6, <1>7

LEMMA WrapInRange ==
  ASSUME NEW v \in MinInt .. MaxInt
  PROVE  Wrap(v) = v
<1>1. v \in Int /\ 0 \in Int /\ v = v + 0 * Modulus
  BY Limits
<1> QED
  BY <1>1, WrapUnique

\* An overflow on the way does not matter.
LEMMA WrapOnTheWay ==
  ASSUME NEW u \in Int, NEW v \in Int
  PROVE  /\ Wrap(Wrap(u) + v) = Wrap(u + v)
         /\ Wrap(Wrap(u) - v) = Wrap(u - v)
         /\ Wrap(Wrap(u) * v) = Wrap(u * v)
<1>1. PICK q \in Int : u = Wrap(u) + q * Modulus /\ Wrap(u) \in MinInt .. MaxInt
  BY WrapRange
<1>2. PICK w : w = Wrap(u)
  OBVIOUS
<1>3. w \in Int /\ q * Modulus \in Int
  BY <1>1, <1>2, Limits
<1>4. ASSUME NEW x \in Int, NEW y \in Int, NEW k \in Int, x = y + k * Modulus
      PROVE  Wrap(y) = Wrap(x)
  <2>1. PICK p \in Int : y = Wrap(y) + p * Modulus /\ Wrap(y) \in MinInt .. MaxInt
    BY WrapRange
  <2>2. (p + k) * Modulus = p * Modulus + k * Modulus /\ p + k \in Int
    BY <2>1, Limits, SMTT(30)
  <2>3. p * Modulus \in Int /\ k * Modulus \in Int
    BY <2>1, Limits
  <2>4. x = Wrap(y) + (p + k) * Modulus
    BY <1>4, <2>1, <2>2, <2>3, Limits
  <2> QED
    BY <2>1, <2>2, <2>4, WrapUnique
<1>5. u + v = (w + v) + q * Modulus /\ u + v \in Int /\ w + v \in Int
  BY <1>1, <1>2, <1>3
<1>6. u - v = (w - v) + q * Modulus /\ u - v \in Int /\ w - v \in Int
  BY <1>1, <1>2, <1>3
<1>7. u * v = w * v + (q * v) * Modulus /\ u * v \in Int /\ w * v \in Int /\ q * v \in Int
  <2>1. (w + q * Modulus) * v = w * v + (q * v) * Modulus
    BY <1>1, <1>3, Limits, SMTT(30)
  <2> QED
    BY <1>1, <1>2, <1>3, <2>1
<1>8. Wrap(w + v) = Wrap(u + v)
  BY <1>4, <1>5
<1>9. Wrap(w - v) = Wrap(u - v)
  BY <1>4, <1>6
<1>10. Wrap(w * v) = Wrap(u * v)
  BY <1>4, <1>7
<1> QED
  BY <1>2, <1>8, <1>9, <1>10

-----------------------------------------------------------------------------
(* Division *)

LEMMA AbsSign ==
  ASSUME NEW v \in Int
  PROVE  /\ Abs(v) \in Nat /\ Sign(v) \in {-1, 0, 1}
         /\ v = Sign(v) * Abs(v)
         /\ v >= 0 => Abs(v) = v
         /\ v <= 0 => Abs(v) = -v
         /\ v > 0 <=> Sign(v) = 1
         /\ v < 0 <=> Sign(v) = -1
         /\ v = 0 <=> Sign(v) = 0
         /\ v = 0 <=> Abs(v) = 0
BY DEF Abs, Sign

LEMMA MultipleMod ==
  ASSUME NEW m \in Nat, m > 0, NEW j \in Int
  PROVE  ((m * j) % m) = 0
<1>1. PICK a \in Int : a = m * j
  OBVIOUS
<1>2. PICK r \in 0..(m - 1) : r = a % m
  BY DivisionFacts
<1>3. PICK q \in Int : q = a \div m
  BY DivisionFacts
<1>4. a = m * q + r
  <2>1. a = m * (a \div m) + (a % m)
    BY DivisionFacts
  <2> QED
    BY <1>2, <1>3, <2>1, Zenon
<1>5. (j - q) * m = m * j - m * q /\ m * j \in Int /\ m * q \in Int
  BY SMTT(30)
<1>6. (j - q) * m = r
  <2>1. PICK x \in Int, y \in Int : x = m * j /\ y = m * q
    BY <1>5
  <2> QED
    BY <1>1, <1>4, <1>5, <2>1
<1>7. j - q = 0
  BY <1>6, NextMultiple
<1> QED
  BY <1>1, <1>2, <1>6, <1>7

LEMMA RemainderIntro ==
  ASSUME NEW r \in Int, NEW n \in Int, NEW m \in Int, NEW j \in Int,
         Abs(r) < Abs(m), r * n >= 0, n - r = Abs(m) * j
  PROVE  IsRemainder(r, n, m)
<1>1. Abs(m) \in Nat /\ Abs(m) > 0
  BY AbsSign
<1>2. ((Abs(m) * j) % Abs(m)) = 0
  BY <1>1, MultipleMod
<1> QED
  BY <1>2 DEF IsRemainder

\* C's quotient and remainder.
LEMMA QuotFacts ==
  ASSUME NEW a \in Int, NEW b \in Int, b # 0
  PROVE  /\ Quot(a, b) \in Int /\ Abs(Quot(a, b)) <= Abs(a)
         /\ Abs(a - b * Quot(a, b)) < Abs(b)
         /\ (a - b * Quot(a, b)) * a >= 0
         /\ \E j \in Int : a - (a - b * Quot(a, b)) = Abs(b) * j
<1>1. PICK n \in Nat : n = Abs(a)
  BY AbsSign
<1>2. PICK m \in Nat : m = Abs(b) /\ m > 0
  BY AbsSign
<1>3. PICK k \in Int : k = n \div m
  BY <1>2, DivisionFacts
<1>4. PICK t \in 0..(m - 1) : t = n % m
  BY <1>2, DivisionFacts
<1>5. n = m * k + t
  <2>1. n \in Int
    OBVIOUS
  <2>2. n = m * (n \div m) + (n % m)
    BY <1>2, <2>1, DivisionFacts
  <2> QED
    BY <1>3, <1>4, <2>2, Zenon
<1>6. m * k \in Int
  OBVIOUS
<1>7. k >= 0 /\ k <= n
  <2>1. k >= 0
    <3>1. CASE k <= -1
      <4>1. m * k <= -m
        BY <1>2, <3>1, SMTT(30)
      <4> QED
        BY <1>4, <1>5, <1>6, <4>1
    <3> QED
      BY <3>1
  <2>2. m * k >= k
    BY <1>2, <2>1, SMTT(30)
  <2> QED
    BY <1>4, <1>5, <1>6, <2>1, <2>2
<1>8. PICK q : q = Quot(a, b)
  OBVIOUS
<1>9. PICK x \in {-1, 0, 1}, y \in {-1, 0, 1} :
        x = Sign(a) /\ y = Sign(b) /\ q = x * y * k
  BY <1>1, <1>2, <1>3, <1>8, AbsSign DEF Quot
<1>10. ASSUME a = 0
       PROVE  q = 0 /\ a - b * q = 0
  <2>1. x = 0
    BY <1>9, <1>10, AbsSign
  <2>2. q = 0
    BY <1>9, <2>1
  <2> QED
    BY <1>10, <2>2
<1>11. ASSUME a > 0, b > 0
       PROVE  q = k /\ b * q = m * k /\ a = n
  BY <1>1, <1>2, <1>9, <1>11, AbsSign
<1>12. ASSUME a > 0, b < 0
       PROVE  q = -k /\ b * q = m * k /\ a = n
  <2>1. q = -k /\ b = -m /\ a = n
    BY <1>1, <1>2, <1>9, <1>12, AbsSign
  <2>2. (-m) * (-k) = m * k
    BY SMTT(30)
  <2> QED
    BY <2>1, <2>2
<1>13. ASSUME a < 0, b > 0
       PROVE  q = -k /\ b * q = -(m * k) /\ a = -n
  <2>1. q = -k /\ b = m /\ a = -n
    BY <1>1, <1>2, <1>9, <1>13, AbsSign
  <2>2. m * (-k) = -(m * k)
    BY SMTT(30)
  <2> QED
    BY <2>1, <2>2
<1>14. ASSUME a < 0, b < 0
       PROVE  q = k /\ b * q = -(m * k) /\ a = -n
  <2>1. x = -1 /\ y = -1
    BY <1>9, <1>14, AbsSign
  <2>2. b = -m /\ a = -n
    BY <1>1, <1>2, <1>14 DEF Abs
  <2>3. q = k
    BY <1>9, <2>1
  <2>4. (-m) * k = -(m * k)
    BY SMTT(30)
  <2> QED
    BY <2>2, <2>3, <2>4
<1>15. q \in Int /\ Abs(q) <= n
  <2>1. q \in {0, k, -k}
    BY <1>10, <1>11, <1>12, <1>13, <1>14
  <2> QED
    BY <1>7, <2>1 DEF Abs
<1>16. PICK r \in Int : r = a - b * q
  BY <1>15
<1>17. Abs(r) < m /\ r * a >= 0
  <2>1. CASE a = 0
    BY <1>2, <1>10, <1>16, <2>1 DEF Abs
  <2>2. CASE a > 0
    <3>1. r = t /\ r >= 0
      BY <1>4, <1>5, <1>6, <1>11, <1>12, <1>16, <2>2
    <3>2. r * a >= 0
      BY <2>2, <3>1, SMTT(30)
    <3> QED
      BY <1>4, <3>1, <3>2 DEF Abs
  <2>3. CASE a < 0
    <3>1. r = -t /\ r <= 0
      BY <1>4, <1>5, <1>6, <1>13, <1>14, <1>16, <2>3
    <3>2. r * a >= 0
      BY <2>3, <3>1, SMTT(30)
    <3> QED
      BY <1>4, <3>1, <3>2 DEF Abs
  <2> QED
    BY <2>1, <2>2, <2>3
<1>18. \E j \in Int : b * q = m * j
  <2>1. \/ b * q = m * q
        \/ b * q = m * (-q)
    <3>1. CASE b > 0
      BY <1>2, <3>1, AbsSign
    <3>2. CASE b < 0
      <4>1. b = -m
        BY <1>2, <3>2, AbsSign
      <4>2. (-m) * q = m * (-q)
        BY <1>15, SMTT(30)
      <4> QED
        BY <4>1, <4>2
    <3> QED
      BY <3>1, <3>2
  <2>2. q \in Int /\ -q \in Int
    BY <1>15
  <2> QED
    BY <2>1, <2>2, Zenon
<1>19. a - r = b * q
  <2>1. b * q \in Int
    BY <1>15
  <2> QED
    BY <1>16, <2>1
<1> QED
  BY <1>1, <1>2, <1>8, <1>15, <1>16, <1>17, <1>18, <1>19

-----------------------------------------------------------------------------
(* Sums and products *)

LEMMA SumFacts ==
  ASSUME NEW n \in Nat, NEW f, \A i \in 1..n : f[i] \in Int
  PROVE  /\ Sum(f, 0) = 0
         /\ \A k \in 0..n : Sum(f, k) \in Int
         /\ \A k \in 1..n : Sum(f, k) = Sum(f, k - 1) + f[k]
<1> DEFINE F == [k \in 1..n |-> [x \in Int |-> x + f[k]]]
           Of(m, t) == t = [k \in 0..m |-> IF k = 0 THEN 0 ELSE t[k - 1] + f[k]]
<1>1. F \in [1..n -> [Int -> Int]]
  OBVIOUS
<1>2. \A k \in 1..n : \A x \in Int : F[k][x] = x + f[k]
  OBVIOUS
<1> HIDE DEF F
<1>3. PICK s \in [0..n -> Int] : Iterates(s, n, 0, F)
  <2>1. 0 \in Int
    OBVIOUS
  <2> QED
    BY <1>1, <2>1, RecursionUpTo, Zenon
<1>4. \A k \in 1..n : s[k - 1] \in Int /\ s[k] = s[k - 1] + f[k]
  <2>1. \A k \in 1..n : k - 1 \in 0..n
    OBVIOUS
  <2>2. \A k \in 1..n : s[k - 1] \in Int
    BY <2>1, <1>3, Zenon
  <2> QED
    BY <1>2, <1>3, <2>2, Zenon DEF Iterates
<1>5. ASSUME NEW m \in 0..n
      PROVE  Sum(f, m) = s[m]
  <2> DEFINE t == [k \in 0..m |-> s[k]]
  <2>1. Of(m, t)
    BY <1>3, <1>4 DEF Iterates
  <2>2. ASSUME NEW u, Of(m, u)
        PROVE  u[m] = s[m]
    <3> DEFINE T == {k \in 0..m : u[k] = s[k]}
    <3>1. u[0] = 0 /\ \A k \in 1..m : u[k] = u[k - 1] + f[k]
      BY <2>2
    <3>2. 0 \in T
      BY <1>3, <3>1 DEF Iterates
    <3>3. ASSUME NEW k \in 0..(m - 1), k \in T
          PROVE  k + 1 \in T
      <4>1. k + 1 \in 1..m /\ k + 1 \in 1..n /\ (k + 1) - 1 = k
        OBVIOUS
      <4>2. u[k + 1] = u[k] + f[k + 1]
        BY <3>1, <4>1
      <4>3. s[k + 1] = s[k] + f[k + 1]
        BY <1>4, <4>1
      <4> QED
        BY <3>3, <4>1, <4>2, <4>3
    <3> HIDE DEF T
    <3>4. m \in T
      BY <3>2, <3>3, AllUpTo
    <3> QED
      BY <3>4 DEF T
  <2> DEFINE c == CHOOSE u : Of(m, u)
  <2>3. Of(m, c)
    <3> HIDE DEF Of, t
    <3> QED
      BY <2>1
  <2>4. Sum(f, m) = c[m]
    BY DEF Sum
  <2> HIDE DEF c, Of
  <2> QED
    BY <2>2, <2>3, <2>4
<1>6. 0 \in 0..n /\ \A k \in 1..n : k \in 0..n /\ k - 1 \in 0..n
  OBVIOUS
<1>7. \A k \in 1..n : Sum(f, k) = Sum(f, k - 1) + f[k]
  BY <1>4, <1>5, <1>6
<1> QED
  BY <1>3, <1>5, <1>6, <1>7 DEF Iterates
LEMMA ProductFacts ==
  ASSUME NEW n \in Nat, NEW f, \A i \in 1..n : f[i] \in Int
  PROVE  /\ Product(f, 0) = 1
         /\ \A k \in 0..n : Product(f, k) \in Int
         /\ \A k \in 1..n : Product(f, k) = Product(f, k - 1) * f[k]
<1> DEFINE F == [k \in 1..n |-> [x \in Int |-> x * f[k]]]
           Of(m, t) == t = [k \in 0..m |-> IF k = 0 THEN 1 ELSE t[k - 1] * f[k]]
<1>1. F \in [1..n -> [Int -> Int]]
  OBVIOUS
<1>2. \A k \in 1..n : \A x \in Int : F[k][x] = x * f[k]
  OBVIOUS
<1> HIDE DEF F
<1>3. PICK s \in [0..n -> Int] : Iterates(s, n, 1, F)
  <2>1. 1 \in Int
    OBVIOUS
  <2> QED
    BY <1>1, <2>1, RecursionUpTo, Zenon
<1>4. \A k \in 1..n : s[k - 1] \in Int /\ s[k] = s[k - 1] * f[k]
  <2>1. \A k \in 1..n : k - 1 \in 0..n
    OBVIOUS
  <2>2. \A k \in 1..n : s[k - 1] \in Int
    BY <2>1, <1>3, Zenon
  <2> QED
    BY <1>2, <1>3, <2>2, Zenon DEF Iterates
<1>5. ASSUME NEW m \in 0..n
      PROVE  Product(f, m) = s[m]
  <2> DEFINE t == [k \in 0..m |-> s[k]]
  <2>1. Of(m, t)
    BY <1>3, <1>4 DEF Iterates
  <2>2. ASSUME NEW u, Of(m, u)
        PROVE  u[m] = s[m]
    <3> DEFINE T == {k \in 0..m : u[k] = s[k]}
    <3>1. u[0] = 1 /\ \A k \in 1..m : u[k] = u[k - 1] * f[k]
      BY <2>2
    <3>2. 0 \in T
      BY <1>3, <3>1 DEF Iterates
    <3>3. ASSUME NEW k \in 0..(m - 1), k \in T
          PROVE  k + 1 \in T
      <4>1. k + 1 \in 1..m /\ k + 1 \in 1..n /\ (k + 1) - 1 = k
        OBVIOUS
      <4>2. u[k + 1] = u[k] * f[k + 1]
        BY <3>1, <4>1
      <4>3. s[k + 1] = s[k] * f[k + 1]
        BY <1>4, <4>1
      <4> QED
        BY <3>3, <4>1, <4>2, <4>3
    <3> HIDE DEF T
    <3>4. m \in T
      BY <3>2, <3>3, AllUpTo
    <3> QED
      BY <3>4 DEF T
  <2> DEFINE c == CHOOSE u : Of(m, u)
  <2>3. Of(m, c)
    <3> HIDE DEF Of, t
    <3> QED
      BY <2>1
  <2>4. Product(f, m) = c[m]
    BY DEF Product
  <2> HIDE DEF c, Of
  <2> QED
    BY <2>2, <2>3, <2>4
<1>6. 0 \in 0..n /\ \A k \in 1..n : k \in 0..n /\ k - 1 \in 0..n
  OBVIOUS
<1>7. \A k \in 1..n : Product(f, k) = Product(f, k - 1) * f[k]
  BY <1>4, <1>5, <1>6
<1> QED
  BY <1>3, <1>5, <1>6, <1>7 DEF Iterates

LEMMA SumScaled ==
  ASSUME NEW n \in Nat, NEW c \in Int, NEW f, NEW g,
         \A i \in 1..n : f[i] \in Int /\ g[i] = c * f[i]
  PROVE  Sum(g, n) = c * Sum(f, n)
<1> DEFINE T == {k \in 0..n : Sum(g, k) = c * Sum(f, k)}
<1>1. \A i \in 1..n : f[i] \in Int
  OBVIOUS
<1>2. \A i \in 1..n : g[i] \in Int
  OBVIOUS
<1>3. 0 \in T
  BY <1>1, <1>2, SumFacts
<1>4. ASSUME NEW k \in 0..(n - 1), k \in T
      PROVE  k + 1 \in T
  <2>1. k + 1 \in 1..n /\ (k + 1) - 1 = k /\ k \in 0..n
    OBVIOUS
  <2>2. Sum(g, k + 1) = Sum(g, k) + g[k + 1]
    BY <1>2, <2>1, SumFacts
  <2>3. Sum(f, k + 1) = Sum(f, k) + f[k + 1]
    BY <1>1, <2>1, SumFacts
  <2>4. PICK x \in Int : x = Sum(f, k)
    BY <1>1, <2>1, SumFacts
  <2>5. PICK y \in Int : y = f[k + 1]
    BY <1>1, <2>1
  <2>6. c * (x + y) = c * x + c * y
    BY SMTT(30)
  <2>7. g[k + 1] = c * f[k + 1] /\ Sum(g, k) = c * Sum(f, k)
    BY <1>4, <2>1
  <2>8. Sum(g, k + 1) = c * Sum(f, k + 1)
    BY <2>2, <2>3, <2>4, <2>5, <2>6, <2>7, Zenon
  <2> QED
    BY <2>1, <2>8
<1> HIDE DEF T
<1>5. n \in T
  BY <1>3, <1>4, AllUpTo
<1> QED
  BY <1>5 DEF T

LEMMA ProductOfOnes ==
  ASSUME NEW n \in Nat, NEW f, \A i \in 1..n : f[i] = 1
  PROVE  Product(f, n) = 1
<1> DEFINE T == {k \in 0..n : Product(f, k) = 1}
<1>1. \A i \in 1..n : f[i] \in Int
  OBVIOUS
<1>2. 0 \in T
  BY <1>1, ProductFacts
<1>3. ASSUME NEW k \in 0..(n - 1), k \in T
      PROVE  k + 1 \in T
  <2>1. k + 1 \in 1..n /\ (k + 1) - 1 = k /\ k \in 0..n
    OBVIOUS
  <2>2. Product(f, k + 1) = Product(f, k) * f[k + 1]
    BY <1>1, <2>1, ProductFacts
  <2>3. Product(f, k) = 1 /\ f[k + 1] = 1
    BY <1>3, <2>1
  <2>4. Product(f, k + 1) = 1
    BY <2>2, <2>3
  <2> QED
    BY <2>1, <2>4
<1> HIDE DEF T
<1>4. n \in T
  BY <1>2, <1>3, AllUpTo
<1> QED
  BY <1>4 DEF T

\* A sum or a product of n is one of the first n - 1 and the last, whatever function
\* gives the first n - 1.
LEMMA SumNext ==
  ASSUME NEW n \in Nat, NEW f, NEW g, \A i \in 1..(n + 1) : f[i] \in Int,
         NEW c \in Int, \A i \in 1..n : g[i] \in Int /\ f[i] = c * g[i]
  PROVE  Sum(f, n + 1) = c * Sum(g, n) + f[n + 1]
<1>1. n + 1 \in Nat /\ n + 1 \in 1..(n + 1) /\ (n + 1) - 1 = n
  OBVIOUS
<1>2. Sum(f, n + 1) = Sum(f, n) + f[n + 1]
  BY <1>1, SumFacts
<1> QED
  BY <1>2, SumScaled

LEMMA ProductNext ==
  ASSUME NEW n \in Nat, NEW f, NEW g, \A i \in 1..(n + 1) : f[i] \in Int,
         \A i \in 1..n : f[i] = g[i]
  PROVE  Product(f, n + 1) = Product(g, n) * f[n + 1]
<1> DEFINE T == {k \in 0..n : Product(f, k) = Product(g, k)}
<1>1. \A i \in 1..n : f[i] \in Int /\ g[i] \in Int
  OBVIOUS
<1>2. 0 \in T
  BY <1>1, ProductFacts
<1>3. ASSUME NEW k \in 0..(n - 1), k \in T
      PROVE  k + 1 \in T
  <2>1. k + 1 \in 1..n /\ (k + 1) - 1 = k /\ k \in 0..n
    OBVIOUS
  <2>2. Product(f, k + 1) = Product(f, k) * f[k + 1]
    BY <1>1, <2>1, ProductFacts
  <2>3. Product(g, k + 1) = Product(g, k) * g[k + 1]
    BY <1>1, <2>1, ProductFacts
  <2>4. Product(f, k) = Product(g, k) /\ f[k + 1] = g[k + 1]
    BY <1>3, <2>1
  <2>5. Product(f, k + 1) = Product(g, k + 1)
    BY <2>2, <2>3, <2>4, Zenon
  <2> QED
    BY <2>1, <2>5
<1> HIDE DEF T
<1>4. n \in T
  BY <1>2, <1>3, AllUpTo
<1>5. Product(f, n) = Product(g, n)
  BY <1>4 DEF T
<1>6. n + 1 \in Nat /\ n + 1 \in 1..(n + 1) /\ (n + 1) - 1 = n
  OBVIOUS
<1>7. Product(f, n + 1) = Product(f, n) * f[n + 1]
  BY <1>6, ProductFacts
<1> QED
  BY <1>5, <1>7

-----------------------------------------------------------------------------
(* The exact result of + - * *)

\* Num and Den of any operands s, for the builtin b; a subtraction subtracts those
\* from the one at first on.
Signed(b, first, i) == IF b = "-" /\ i >= first THEN -1 ELSE 1
Others(s, i, n) == Product([j \in 1 .. n |-> IF j = i THEN 1 ELSE s[j].den], n)
DenOf(s, n) == Product([i \in 1 .. n |-> s[i].den], n)
NumOf(b, first, s, n) ==
  IF b = "*" THEN Product([i \in 1 .. n |-> s[i].num], n)
  ELSE Sum([i \in 1 .. n |-> Signed(b, first, i) * s[i].num * Others(s, i, n)], n)

LEMMA NumIsNumOf ==
  ASSUME NEW n \in Nat
  PROVE  /\ Num(n) = NumOf(Branch, IF argc = 1 THEN 1 ELSE 2, ops, n)
         /\ Den(n) = DenOf(ops, n)
<1>1. \A i \in 1..n : (i > 1 \/ argc = 1) <=> i >= (IF argc = 1 THEN 1 ELSE 2)
  OBVIOUS
<1> QED
  BY <1>1 DEF Num, Den, NumOf, DenOf, Signed, Others

Rationals(s, n) == \A i \in 1..n : s[i].num \in Int /\ s[i].den \in Int
Agree(s, t, n) == \A i \in 1..n : s[i] = t[i]

LEMMA OthersNext ==
  ASSUME NEW n \in Nat, NEW s, \A i \in 1..(n + 1) : s[i].den \in Int
  PROVE  /\ \A i \in 1..(n + 1) : Others(s, i, n) \in Int
         /\ \A i \in 1..n : Others(s, i, n + 1) = Others(s, i, n) * s[n + 1].den
         /\ Others(s, n + 1, n + 1) = DenOf(s, n)
         /\ DenOf(s, n + 1) = DenOf(s, n) * s[n + 1].den
         /\ DenOf(s, n) \in Int /\ DenOf(s, 0) = 1
<1>1. ASSUME NEW i \in 1..(n + 1)
      PROVE  /\ Others(s, i, n) \in Int
             /\ Others(s, i, n + 1) = Others(s, i, n) * (IF n + 1 = i THEN 1 ELSE s[n + 1].den)
  <2> DEFINE f == [j \in 1 .. n + 1 |-> IF j = i THEN 1 ELSE s[j].den]
             g == [j \in 1 .. n |-> IF j = i THEN 1 ELSE s[j].den]
  <2>1. (\A j \in 1..(n + 1) : f[j] \in Int) /\ (\A j \in 1..n : f[j] = g[j])
    OBVIOUS
  <2>2. \A j \in 1..n : g[j] \in Int
    OBVIOUS
  <2>3. f[n + 1] = IF n + 1 = i THEN 1 ELSE s[n + 1].den
    OBVIOUS
  <2>4. Others(s, i, n + 1) = Product(f, n + 1) /\ Others(s, i, n) = Product(g, n)
    BY DEF Others
  <2> HIDE DEF f, g
  <2>5. Product(f, n + 1) = Product(g, n) * f[n + 1]
    BY <2>1, ProductNext
  <2>6. Product(g, n) \in Int
    BY <2>2, ProductFacts
  <2> QED
    BY <2>3, <2>4, <2>5, <2>6, Zenon
<1> DEFINE d == [i \in 1 .. n |-> s[i].den]
           e == [i \in 1 .. n + 1 |-> s[i].den]
<1>2. DenOf(s, n) = Product(d, n) /\ DenOf(s, n + 1) = Product(e, n + 1)
  BY DEF DenOf
<1>3. (\A j \in 1..(n + 1) : e[j] \in Int) /\ (\A j \in 1..n : e[j] = d[j])
  OBVIOUS
<1>4. \A j \in 1..n : d[j] \in Int
  OBVIOUS
<1>5. e[n + 1] = s[n + 1].den
  OBVIOUS
<1>6. DenOf(s, 0) = 1
  <2>1. \A j \in 1..0 : [i \in 1 .. 0 |-> s[i].den][j] \in Int
    OBVIOUS
  <2>2. 0 \in Nat
    OBVIOUS
  <2> QED
    BY <2>1, <2>2, ProductFacts DEF DenOf
<1> HIDE DEF d, e
<1>7. Product(e, n + 1) = Product(d, n) * e[n + 1]
  BY <1>3, ProductNext
<1>8. Product(d, n) \in Int
  BY <1>4, ProductFacts
<1>9. DenOf(s, n + 1) = DenOf(s, n) * s[n + 1].den /\ DenOf(s, n) \in Int
  BY <1>2, <1>7, <1>8, <1>5, Zenon
<1>10. \A i \in 1..n : Others(s, i, n + 1) = Others(s, i, n) * s[n + 1].den
  <2>1. \A i \in 1..n : i \in 1..(n + 1) /\ n + 1 # i
    OBVIOUS
  <2> QED
    BY <1>1, <2>1, Zenon
<1>11. Others(s, n + 1, n + 1) = DenOf(s, n)
  <2> DEFINE f == [j \in 1 .. n + 1 |-> IF j = n + 1 THEN 1 ELSE s[j].den]
             g == [j \in 1 .. n |-> s[j].den]
  <2>1. (\A j \in 1..(n + 1) : f[j] \in Int) /\ (\A j \in 1..n : f[j] = g[j])
    OBVIOUS
  <2>2. \A j \in 1..n : g[j] \in Int
    OBVIOUS
  <2>3. f[n + 1] = 1
    OBVIOUS
  <2>4. Others(s, n + 1, n + 1) = Product(f, n + 1) /\ DenOf(s, n) = Product(g, n)
    BY DEF Others, DenOf
  <2> HIDE DEF f, g
  <2>5. Product(f, n + 1) = Product(g, n) * f[n + 1]
    BY <2>1, ProductNext
  <2>6. Product(g, n) \in Int
    BY <2>2, ProductFacts
  <2> QED
    BY <2>3, <2>4, <2>5, <2>6
<1>12. \A i \in 1..(n + 1) : Others(s, i, n) \in Int
  BY <1>1, Zenon
<1> QED
  BY <1>6, <1>9, <1>10, <1>11, <1>12

LEMMA CalculationSteps ==
  ASSUME NEW n \in Nat, NEW s, NEW b, NEW first \in Int, Rationals(s, n + 1)
  PROVE  /\ NumOf(b, first, s, 0) = IF b = "*" THEN 1 ELSE 0
         /\ NumOf(b, first, s, n) \in Int
         /\ b = "*" => NumOf(b, first, s, n + 1) = NumOf(b, first, s, n) * s[n + 1].num
         /\ b # "*" => NumOf(b, first, s, n + 1) =
                         s[n + 1].den * NumOf(b, first, s, n)
                         + Signed(b, first, n + 1) * s[n + 1].num * DenOf(s, n)
<1>1. 0 \in Nat /\ n + 1 \in 1..(n + 1) /\ \A i \in 1..n : i \in 1..(n + 1)
  OBVIOUS
<1>2. \A i \in 1..(n + 1) : s[i].num \in Int /\ s[i].den \in Int
  BY DEF Rationals
<1>3. CASE b = "*"
  <2> DEFINE f == [i \in 1 .. n + 1 |-> s[i].num]
             g == [i \in 1 .. n |-> s[i].num]
             h == [i \in 1 .. 0 |-> s[i].num]
  <2>1. (\A j \in 1..(n + 1) : f[j] \in Int) /\ (\A j \in 1..n : f[j] = g[j])
    BY <1>2
  <2>2. \A j \in 1..n : g[j] \in Int
    BY <1>2
  <2>3. f[n + 1] = s[n + 1].num
    OBVIOUS
  <2>4. \A j \in 1..0 : h[j] \in Int
    OBVIOUS
  <2>5. /\ NumOf(b, first, s, n + 1) = Product(f, n + 1)
        /\ NumOf(b, first, s, n) = Product(g, n) /\ NumOf(b, first, s, 0) = Product(h, 0)
    BY <1>3 DEF NumOf
  <2> HIDE DEF f, g, h
  <2>6. Product(f, n + 1) = Product(g, n) * f[n + 1]
    BY <2>1, ProductNext
  <2>7. Product(g, n) \in Int
    BY <2>2, ProductFacts
  <2>8. Product(h, 0) = 1
    BY <1>1, <2>4, ProductFacts
  <2> QED
    BY <1>3, <2>3, <2>5, <2>6, <2>7, <2>8, Zenon
<1>4. CASE b # "*"
  <2> DEFINE f == [i \in 1 .. n + 1 |-> Signed(b, first, i) * s[i].num * Others(s, i, n + 1)]
             g == [i \in 1 .. n |-> Signed(b, first, i) * s[i].num * Others(s, i, n)]
             h == [i \in 1 .. 0 |-> Signed(b, first, i) * s[i].num * Others(s, i, 0)]
  <2>1. /\ NumOf(b, first, s, n + 1) = Sum(f, n + 1)
        /\ NumOf(b, first, s, n) = Sum(g, n) /\ NumOf(b, first, s, 0) = Sum(h, 0)
    BY <1>4 DEF NumOf
  <2>2. \A i \in 1..(n + 1) : f[i] = Signed(b, first, i) * s[i].num * Others(s, i, n + 1)
    OBVIOUS
  <2>3. \A i \in 1..n : g[i] = Signed(b, first, i) * s[i].num * Others(s, i, n)
    OBVIOUS
  <2>4. \A j \in 1..0 : h[j] \in Int
    OBVIOUS
  <2> HIDE DEF f, g, h
  <2>5. s[n + 1].den \in Int
    BY <1>1, <1>2
  <2>6. ASSUME NEW i \in 1..n
        PROVE  g[i] \in Int /\ f[i] \in Int /\ f[i] = s[n + 1].den * g[i]
    <3>1. PICK x \in Int : x = Signed(b, first, i) * s[i].num
      BY <1>1, <1>2 DEF Signed
    <3>2. PICK y \in Int : y = Others(s, i, n)
      BY <1>1, <1>2, OthersNext
    <3>3. PICK z \in Int : z = s[n + 1].den
      BY <2>5
    <3>4. Others(s, i, n + 1) = y * z
      BY <1>2, <3>2, <3>3, OthersNext
    <3>5. x * (y * z) = z * (x * y) /\ x * y \in Int /\ x * (y * z) \in Int
      BY SMTT(30)
    <3>6. g[i] = x * y
      BY <2>3, <3>1, <3>2, Zenon
    <3>7. f[i] = x * (y * z)
      BY <1>1, <2>2, <3>1, <3>4, Zenon
    <3> QED
      BY <3>3, <3>5, <3>6, <3>7, Zenon
  <2>7. f[n + 1] = Signed(b, first, n + 1) * s[n + 1].num * DenOf(s, n) /\ f[n + 1] \in Int
    <3>1. PICK x \in Int : x = Signed(b, first, n + 1) * s[n + 1].num
      BY <1>1, <1>2 DEF Signed
    <3>2. PICK y \in Int : y = DenOf(s, n)
      BY <1>2, OthersNext
    <3>3. Others(s, n + 1, n + 1) = y
      BY <1>2, <3>2, OthersNext
    <3>4. f[n + 1] = x * y
      BY <1>1, <2>2, <3>1, <3>3, Zenon
    <3>5. x * y \in Int
      OBVIOUS
    <3> QED
      BY <3>1, <3>2, <3>4, <3>5, Zenon
  <2>8. \A i \in 1..(n + 1) : f[i] \in Int
    <3>1. \A i \in 1..(n + 1) : i \in 1..n \/ i = n + 1
      OBVIOUS
    <3> QED
      BY <2>6, <2>7, <3>1, Zenon
  <2>9. Sum(f, n + 1) = s[n + 1].den * Sum(g, n) + f[n + 1]
    BY <2>5, <2>6, <2>8, SumNext
  <2>10. Sum(g, n) \in Int
    <3>1. (\A i \in 1..n : g[i] \in Int) /\ n \in 0..n
      BY <2>6
    <3> QED
      BY <3>1, SumFacts
  <2>11. Sum(h, 0) = 0
    BY <1>1, <2>4, SumFacts
  <2> QED
    BY <1>4, <2>1, <2>7, <2>9, <2>10, <2>11, Zenon
<1> QED
  BY <1>3, <1>4

LEMMA SamePrefix ==
  ASSUME NEW n \in Nat, NEW s, NEW t, NEW b, NEW first, Agree(s, t, n)
  PROVE  NumOf(b, first, s, n) = NumOf(b, first, t, n) /\ DenOf(s, n) = DenOf(t, n)
<1>1. \A i \in 1..n : Others(s, i, n) = Others(t, i, n)
  BY DEF Others, Agree
<1> QED
  BY <1>1 DEF NumOf, DenOf, Agree

LEMMA IntegersHaveNoDen ==
  ASSUME NEW n \in Nat, NEW s, \A i \in 1..n : s[i].den = 1
  PROVE  DenOf(s, n) = 1
<1> DEFINE d == [i \in 1 .. n |-> s[i].den]
<1>1. \A i \in 1..n : d[i] = 1
  OBVIOUS
<1>2. DenOf(s, n) = Product(d, n)
  BY DEF DenOf
<1> HIDE DEF d
<1> QED
  BY <1>1, <1>2, ProductOfOnes

-----------------------------------------------------------------------------
(* Floating numbers *)

Quotient(o) == o.num \in Int /\ o.den \in Nat /\ (o.den = 0 => o.num \in {-1, 0, 1})

LEMMA OverFacts ==
  ASSUME NEW n \in Int, NEW d \in Int, NEW r, r = Over(n, d)
  PROVE  /\ r.typ = "float" /\ Quotient(r)
         /\ d = 0 => r.den = 0 /\ r.num = Sign(n)
         /\ d > 0 => r.den = d /\ r.num = n
         /\ d < 0 => r.den = -d /\ r.num = -n
<1>1. Sign(n) \in {-1, 0, 1} /\ Sign(d) \in {-1, 0, 1} /\ Abs(d) \in Nat
  BY AbsSign
<1>2. CASE d = 0
  BY <1>1, <1>2 DEF Over, Float, Quotient
<1>3. CASE d > 0
  <2>1. Sign(d) = 1 /\ Abs(d) = d
    BY <1>3, AbsSign
  <2>2. Over(n, d) = Float(1 * n, d)
    BY <1>3, <2>1 DEF Over
  <2> QED
    BY <1>3, <2>2 DEF Float, Quotient
<1>4. CASE d < 0
  <2>1. Sign(d) = -1 /\ Abs(d) = -d
    BY <1>4, AbsSign
  <2>2. Over(n, d) = Float((-1) * n, -d)
    BY <1>4, <2>1 DEF Over
  <2> QED
    BY <1>4, <2>2 DEF Float, Quotient
<1> QED
  BY <1>2, <1>3, <1>4

LEMMA PositiveTimes ==
  ASSUME NEW x \in Nat, NEW y \in Nat
  PROVE  /\ x * y \in Nat
         /\ x = 0 \/ y = 0 => x * y = 0
         /\ x > 0 /\ y > 0 => x * y > 0
<1>1. CASE x > 0 /\ y > 0
  BY <1>1, SMTT(30)
<1>2. CASE x = 0 \/ y = 0
  BY <1>2
<1> QED
  BY <1>1, <1>2

LEMMA PlusFacts ==
  ASSUME NEW a, Quotient(a), NEW n \in Int, NEW d \in Nat, d = 0 => n \in {-1, 0, 1},
         NEW r, r = Plus(a, n, d)
  PROVE  /\ r.typ = "float" /\ Quotient(r)
         /\ a.den = 0 \/ d = 0 => r.den = 0
         /\ IsNaN(a) \/ (n = 0 /\ d = 0) => IsNaN(r)
         /\ a.den > 0 /\ d > 0 => r.den = a.den * d /\ r.num = a.num * d + n * a.den
<1>1. PICK x \in Int, y \in Nat : x = a.num /\ y = a.den
  BY DEF Quotient
<1>2. CASE y = 0 /\ d = 0
  <2>1. r = Float(IF x = n THEN n ELSE 0, 0)
    BY <1>1, <1>2 DEF Plus
  <2> QED
    BY <1>1, <1>2, <2>1 DEF Float, Quotient, IsNaN
<1>3. CASE ~(y = 0 /\ d = 0)
  <2>1. PICK p \in Int, q \in Nat : p = x * d + n * y /\ q = y * d
    BY PositiveTimes
  <2>2. r = Over(p, q)
    BY <1>1, <1>3, <2>1 DEF Plus
  <2>3. r.typ = "float" /\ Quotient(r)
    BY <2>2, OverFacts
  <2>4. q = 0 => r.den = 0 /\ r.num = Sign(p)
    BY <2>2, OverFacts
  <2>5. q > 0 => r.den = q /\ r.num = p
    BY <2>2, OverFacts
  <2>6. y = 0 \/ d = 0 => q = 0
    BY <2>1, PositiveTimes
  <2>7. y > 0 /\ d > 0 => q > 0
    BY <2>1, PositiveTimes
  <2>8. (x = 0 /\ y = 0) \/ (n = 0 /\ d = 0) => p = 0
    BY <2>1
  <2>9. p = 0 => Sign(p) = 0
    BY AbsSign
  <2> QED
    BY <1>1, <2>1, <2>3, <2>4, <2>5, <2>6, <2>7, <2>8, <2>9 DEF IsNaN
<1> QED
  BY <1>2, <1>3

LEMMA FloatFacts ==
  ASSUME NEW a, NEW b, Quotient(a), Quotient(b), NEW op \in {"+", "-", "*"},
         NEW r, r = Floats(op, a, b)
  PROVE  /\ r.typ = "float" /\ Quotient(r)
         /\ a.den = 0 \/ b.den = 0 => r.den = 0
         /\ IsNaN(a) \/ IsNaN(b) => IsNaN(r)
         /\ a.den > 0 /\ b.den > 0 =>
              /\ r.den = a.den * b.den
              /\ r.num = IF op = "*" THEN a.num * b.num
                         ELSE a.num * b.den
                              + (IF op = "-" THEN -b.num ELSE b.num) * a.den
<1>1. CASE op = "+"
  <2>1. PICK n \in Int, d \in Nat : n = b.num /\ d = b.den /\ (d = 0 => n \in {-1, 0, 1})
    BY DEF Quotient
  <2>2. r = Plus(a, n, d)
    BY <1>1, <2>1 DEF Floats
  <2> QED
    BY <1>1, <2>1, <2>2, PlusFacts DEF IsNaN
<1>2. CASE op = "-"
  <2>1. PICK n \in Int, d \in Nat : n = -b.num /\ d = b.den /\ (d = 0 => n \in {-1, 0, 1})
    BY DEF Quotient
  <2>2. r = Plus(a, n, d)
    BY <1>2, <2>1 DEF Floats
  <2>3. n = 0 <=> b.num = 0
    BY <2>1 DEF Quotient
  <2> QED
    BY <1>2, <2>1, <2>2, <2>3, PlusFacts DEF IsNaN
<1>3. CASE op = "*"
  <2>1. PICK x \in Int, y \in Nat : x = a.num /\ y = a.den
    BY DEF Quotient
  <2>2. PICK n \in Int, d \in Nat : n = b.num /\ d = b.den
    BY DEF Quotient
  <2>3. PICK p \in Int, q \in Nat : p = x * n /\ q = y * d
    BY PositiveTimes
  <2>4. r = Over(p, q)
    BY <1>3, <2>1, <2>2, <2>3 DEF Floats
  <2>5. r.typ = "float" /\ Quotient(r)
    BY <2>4, OverFacts
  <2>6. q = 0 => r.den = 0 /\ r.num = Sign(p)
    BY <2>4, OverFacts
  <2>7. q > 0 => r.den = q /\ r.num = p
    BY <2>4, OverFacts
  <2>8. y = 0 \/ d = 0 => q = 0
    BY <2>3, PositiveTimes
  <2>9. y > 0 /\ d > 0 => q > 0
    BY <2>3, PositiveTimes
  <2>10. x = 0 \/ n = 0 => p = 0
    BY <2>3
  <2>11. p = 0 => Sign(p) = 0
    BY AbsSign
  <2> QED
    BY <1>3, <2>1, <2>2, <2>3, <2>5, <2>6, <2>7, <2>8, <2>9, <2>10, <2>11 DEF IsNaN
<1> QED
  BY <1>1, <1>2, <1>3

-----------------------------------------------------------------------------
(* + - * *)

NumberShape(o) ==
  /\ IsNumber(o) /\ Quotient(o)
  /\ o.typ = "integer" => o.num \in MinInt .. MaxInt /\ o = Integer(o.num)

AreIntegers(s, n) == \A i \in 1..n : s[i].typ = "integer"
InRange(b, first, s) ==
  \A n \in 1..Len(s) : AreIntegers(s, n) => NumOf(b, first, s, n) \in MinInt .. MaxInt

\* r is what b makes of s.
Calculated(b, first, s, r) ==
  /\ NumberShape(r)
  /\ AreIntegers(s, Len(s)) => r = Integer(Wrap(NumOf(b, first, s, Len(s))))
  /\ ~AreIntegers(s, Len(s)) => r.typ = "float"
  /\ (\E i \in 1..Len(s) : IsNaN(s[i])) => IsNaN(r)
  /\ (\E i \in 1..Len(s) : s[i].den = 0) => r.den = 0
  /\ (\A i \in 1..Len(s) : s[i].den > 0) /\ InRange(b, first, s) =>
       r.den > 0 /\ r.num * DenOf(s, Len(s)) = NumOf(b, first, s, Len(s)) * r.den

LEMMA IntegerShape ==
  ASSUME NEW v \in MinInt .. MaxInt
  PROVE  NumberShape(Integer(v)) /\ ~IsNaN(Integer(v))
BY Limits DEF NumberShape, Integer, IsNumber, Quotient, IsNaN

\* Adding c * n / d to x / y = N / D, and multiplying by n / d.
Crossed(x, y, N, D, m, d) ==
  /\ (x * d + m * y) * (D * d) = (d * N + m * D) * (y * d)
  /\ (x * m) * (D * d) = (N * m) * (y * d)

LEMMA CrossMultiplied ==
  ASSUME NEW x \in Int, NEW y \in Int, NEW N \in Int, NEW D \in Int, NEW m \in Int, NEW d \in Int,
         x * D = N * y
  PROVE  Crossed(x, y, N, D, m, d)
<1>1. (x * d + m * y) * (D * d) = (x * D) * (d * d) + (m * y) * (D * d)
  BY SMTT(30)
<1>2. (d * N + m * D) * (y * d) = (N * y) * (d * d) + (m * y) * (D * d)
  BY SMTT(30)
<1>3. (x * m) * (D * d) = (x * D) * (m * d)
  BY SMTT(30)
<1>4. (N * m) * (y * d) = (N * y) * (m * d)
  BY SMTT(30)
<1> QED
  BY <1>1, <1>2, <1>3, <1>4, Zenon DEF Crossed

LEMMA CalculatedNothing ==
  ASSUME NEW b \in {"+", "*"}
  PROVE  Calculated(b, 2, <<>>, Integer(IF b = "*" THEN 1 ELSE 0))
<1>0. PICK v : v = IF b = "*" THEN 1 ELSE 0
  OBVIOUS
<1> DEFINE t == [i \in 1..1 |-> Integer(0)]
<1>1. v \in MinInt .. MaxInt /\ v \in Int
  BY <1>0, Limits
<1>2. NumOf(b, 2, <<>>, 0) = v /\ DenOf(<<>>, 0) = 1
  <2>1. Rationals(t, 0 + 1) /\ \A i \in 1..(0 + 1) : t[i].den \in Int
    BY DEF Integer, Rationals
  <2>2. 0 \in Nat /\ 2 \in Int
    OBVIOUS
  <2> HIDE DEF t
  <2>3. NumOf(b, 2, t, 0) = v
    BY <1>0, <2>1, <2>2, CalculationSteps
  <2>4. DenOf(t, 0) = 1
    BY <2>1, <2>2, OthersNext
  <2> DEFINE e == <<>>
  <2>5. Agree(e, t, 0)
    BY DEF Agree
  <2> HIDE DEF e
  <2>6. NumOf(b, 2, e, 0) = NumOf(b, 2, t, 0) /\ DenOf(e, 0) = DenOf(t, 0)
    BY <2>2, <2>5, SamePrefix
  <2> QED
    BY <2>3, <2>4, <2>6 DEF e
<1>3. Wrap(v) = v /\ NumberShape(Integer(v))
  BY <1>1, WrapInRange, IntegerShape
<1>4. Len(<<>>) = 0
  OBVIOUS
<1>5. Integer(v).den = 1 /\ Integer(v).num = v
  BY DEF Integer
<1> HIDE DEF t
<1>6. Integer(v).den > 0 /\ Integer(v).num * 1 = v * Integer(v).den
  BY <1>1, <1>5
<1>7. \A i \in 1..0 : FALSE
  OBVIOUS
<1>8. Calculated(b, 2, <<>>, Integer(v))
  BY <1>2, <1>3, <1>4, <1>6, <1>7 DEF Calculated, AreIntegers
<1> QED
  BY <1>0, <1>8

LEMMA CalculatedNext ==
  ASSUME NEW b \in {"+", "-", "*"}, NEW n \in Nat, NEW s, NEW t, NEW o, NEW r,
         Len(s) = n, Len(t) = n + 1, \A i \in 1..n : t[i] = s[i], t[n + 1] = o,
         \A i \in 1..n : NumberShape(s[i]), NumberShape(o),
         b = "-" => n > 0,
         Calculated(b, 2, s, r)
  PROVE  Calculated(b, 2, t, Obj_operation(b, r, o))
<1> DEFINE q == Obj_operation(b, r, o)
<1>1. 2 \in Int /\ n + 1 \in 1..(n + 1) /\ \A i \in 1..n : i \in 1..(n + 1)
  OBVIOUS
<1>2. \A i \in 1..(n + 1) : i \in 1..n \/ i = n + 1
  OBVIOUS
<1>3. \A i \in 1..(n + 1) : NumberShape(t[i])
  BY <1>2
<1>4. Rationals(t, n + 1) /\ \A i \in 1..(n + 1) : t[i].den \in Int
  <2>1. ASSUME NEW i \in 1..(n + 1)
        PROVE  t[i].num \in Int /\ t[i].den \in Int
    <3>1. Quotient(t[i])
      BY <1>3 DEF NumberShape
    <3> QED
      BY <3>1 DEF Quotient
  <2> QED
    BY <2>1 DEF Rationals
<1>5. PICK D \in Int, N \in Int :
        /\ D = DenOf(t, n) /\ N = NumOf(b, 2, t, n)
        /\ D = DenOf(s, n) /\ N = NumOf(b, 2, s, n)
  <2>1. DenOf(t, n) = DenOf(s, n) /\ NumOf(b, 2, t, n) = NumOf(b, 2, s, n)
    <3>1. Agree(t, s, n)
      BY DEF Agree
    <3> QED
      BY <3>1, SamePrefix
  <2>2. NumOf(b, 2, t, n) \in Int
    BY <1>1, <1>4, CalculationSteps
  <2>3. DenOf(t, n) \in Int
    BY <1>4, OthersNext
  <2> QED
    BY <2>1, <2>2, <2>3
<1>6. DenOf(t, n + 1) = D * o.den
  <2>1. DenOf(t, n + 1) = DenOf(t, n) * t[n + 1].den
    BY <1>4, OthersNext
  <2> QED
    BY <1>5, <2>1
<1>7. PICK m \in Int : m = IF b = "-" THEN -o.num ELSE o.num
  BY DEF NumberShape, Quotient
<1>8. b # "*" => NumOf(b, 2, t, n + 1) = o.den * N + m * D
  <2>1. b # "*" => NumOf(b, 2, t, n + 1) =
          t[n + 1].den * NumOf(b, 2, t, n) + Signed(b, 2, n + 1) * t[n + 1].num * DenOf(t, n)
    BY <1>1, <1>4, CalculationSteps
  <2>2. Signed(b, 2, n + 1) * o.num = IF b = "-" THEN -o.num ELSE o.num
    BY DEF Signed, NumberShape, Quotient
  <2> QED
    BY <1>5, <1>7, <2>1, <2>2
<1>9. b = "*" => NumOf(b, 2, t, n + 1) = N * o.num
  <2>1. b = "*" => NumOf(b, 2, t, n + 1) = NumOf(b, 2, t, n) * t[n + 1].num
    BY <1>1, <1>4, CalculationSteps
  <2> QED
    BY <1>5, <2>1
<1>10. Quotient(r) /\ Quotient(o) /\ IsNumber(r) /\ IsNumber(o)
  BY DEF Calculated, NumberShape
<1>11. AreIntegers(t, n + 1) <=> AreIntegers(s, n) /\ o.typ = "integer"
  BY <1>1, <1>2 DEF AreIntegers
<1>12. (r.typ = "integer" <=> AreIntegers(s, n)) /\ (AreIntegers(s, n) => r = Integer(Wrap(N)))
  BY <1>5 DEF Calculated, Integer
<1>13. InRange(b, 2, t) => InRange(b, 2, s)
  <2>1. ASSUME NEW k \in 1..n, AreIntegers(s, k), InRange(b, 2, t)
        PROVE  NumOf(b, 2, s, k) \in MinInt .. MaxInt
    <3>1. k \in Nat /\ k \in 1..(n + 1) /\ \A i \in 1..k : i \in 1..n
      OBVIOUS
    <3>2. AreIntegers(t, k)
      BY <2>1, <3>1 DEF AreIntegers
    <3>3. Agree(t, s, k)
      BY <3>1 DEF Agree
    <3>4. NumOf(b, 2, t, k) = NumOf(b, 2, s, k)
      BY <3>1, <3>3, SamePrefix
    <3> QED
      BY <2>1, <3>1, <3>2, <3>4 DEF InRange
  <2> QED
    BY <2>1 DEF InRange
<1> HIDE DEF q
<1>14. CASE AreInts(r, o)
  <2>1. AreIntegers(s, n) /\ AreIntegers(t, n + 1) /\ r = Integer(Wrap(N))
    BY <1>11, <1>12, <1>14 DEF AreInts
  <2>2. PICK k \in MinInt .. MaxInt : o = Integer(k) /\ k = o.num /\ o.den = 1 /\ k \in Int
    BY <1>14, Limits DEF NumberShape, AreInts, Integer
  <2>3. D = 1
    <3>1. \A i \in 1..n : s[i].den = 1
      BY <2>1 DEF AreIntegers, NumberShape, Integer
    <3> QED
      BY <1>5, <3>1, IntegersHaveNoDen
  <2>4. PICK E \in Int : E = NumOf(b, 2, t, n + 1) /\
          E = CASE b = "+" -> N + k [] b = "-" -> N - k [] b = "*" -> N * k
    <3>1. b = "*" => NumOf(b, 2, t, n + 1) = N * k /\ N * k \in Int
      BY <1>6, <1>9, <2>2
    <3>2. b # "*" => NumOf(b, 2, t, n + 1) = 1 * N + m * 1
      BY <1>8, <2>2, <2>3
    <3>3. 1 * N + m * 1 = IF b = "-" THEN N - k ELSE N + k
      BY <1>6, <1>7, <2>2
    <3>4. N - k \in Int /\ N + k \in Int
      BY <1>6, <2>2
    <3> QED
      BY <3>1, <3>2, <3>3, <3>4
  <2>5. q = Integer(Wrap(E))
    <3>1. q = Integer(Ints(b, Wrap(N), k))
      BY <1>14, <2>1, <2>2 DEF q, Obj_operation, Integer
    <3>2. /\ Wrap(Wrap(N) + k) = Wrap(N + k) /\ Wrap(Wrap(N) - k) = Wrap(N - k)
          /\ Wrap(Wrap(N) * k) = Wrap(N * k)
      BY <1>6, <2>2, WrapOnTheWay
    <3>3. Ints(b, Wrap(N), k) = Wrap(E)
      BY <2>4, <3>2 DEF Ints
    <3> QED
      BY <3>1, <3>3
  <2>6. Wrap(E) \in MinInt .. MaxInt /\ Wrap(E) \in Int
    BY WrapRange
  <2>7. NumberShape(q) /\ q.den = 1 /\ q.num = Wrap(E)
    BY <2>5, <2>6, IntegerShape DEF Integer
  <2>8. \A i \in 1..(n + 1) : t[i].den = 1
    BY <1>3, <2>1 DEF AreIntegers, NumberShape, Integer
  <2>9. DenOf(t, n + 1) = 1
    BY <1>6, <2>2, <2>3
  <2>10. InRange(b, 2, t) => Wrap(E) = E
    <3>1. InRange(b, 2, t) => E \in MinInt .. MaxInt
      BY <1>1, <2>1, <2>4 DEF InRange
    <3> QED
      BY <3>1, WrapInRange
  <2>11. ASSUME InRange(b, 2, t)
         PROVE  q.den > 0 /\ q.num * DenOf(t, n + 1) = NumOf(b, 2, t, n + 1) * q.den
    <3>1. q.num = E /\ q.den = 1
      BY <2>7, <2>10, <2>11
    <3>2. q.den > 0 /\ E * 1 = E * 1
      BY <3>1
    <3> QED
      BY <2>4, <2>9, <3>1, <3>2, Zenon
  <2>12. \A i \in 1..(n + 1) : t[i].den # 0 /\ ~IsNaN(t[i])
    BY <2>8 DEF IsNaN
  <2> QED
    BY <2>1, <2>4, <2>5, <2>7, <2>11, <2>12 DEF Calculated, q
<1>15. CASE ~AreInts(r, o)
  <2>1. q = Floats(b, r, o)
    BY <1>15 DEF q, Obj_operation
  <2>2. ~AreIntegers(t, n + 1)
    BY <1>11, <1>12, <1>15 DEF AreInts
  <2>3. NumberShape(q) /\ q.typ = "float"
    <3>1. q.typ = "float" /\ Quotient(q)
      BY <1>10, <2>1, FloatFacts
    <3> QED
      BY <3>1 DEF NumberShape, IsNumber
  <2>4. ASSUME NEW i \in 1..(n + 1)
        PROVE  (IsNaN(t[i]) => IsNaN(q)) /\ (t[i].den = 0 => q.den = 0)
    <3>1. (IsNaN(t[i]) => IsNaN(r) \/ IsNaN(o)) /\ (t[i].den = 0 => r.den = 0 \/ o.den = 0)
      BY <1>2 DEF Calculated
    <3> QED
      BY <1>10, <2>1, <3>1, FloatFacts
  <2>5. ASSUME \A i \in 1..(n + 1) : t[i].den > 0, InRange(b, 2, t)
        PROVE  q.den > 0 /\ q.num * DenOf(t, n + 1) = NumOf(b, 2, t, n + 1) * q.den
    <3>1. r.den > 0 /\ r.num * D = N * r.den /\ o.den > 0
      BY <1>1, <1>5, <1>13, <2>5 DEF Calculated
    <3>2. PICK x \in Int, y \in Nat : x = r.num /\ y = r.den
      BY <1>10 DEF Quotient
    <3>3. PICK k \in Int, d \in Nat : k = o.num /\ d = o.den
      BY <1>10 DEF Quotient
    <3>4. q.den = y * d /\ q.num = IF b = "*" THEN x * k ELSE x * d + m * y
      <4>1. q.den = r.den * o.den /\
            q.num = IF b = "*" THEN r.num * o.num
                    ELSE r.num * o.den + (IF b = "-" THEN -o.num ELSE o.num) * r.den
        BY <1>10, <2>1, <3>1, FloatFacts
      <4> QED
        BY <1>7, <3>2, <3>3, <4>1, Zenon
    <3>5. x * D = N * y
      BY <3>1, <3>2
    <3>6. Crossed(x, y, N, D, m, d) /\ Crossed(x, y, N, D, k, d)
      <4>1. y \in Int /\ d \in Int
        OBVIOUS
      <4> QED
        BY <3>5, <4>1, CrossMultiplied, Zenon
    <3>7. /\ (x * d + m * y) * (D * d) = (d * N + m * D) * (y * d)
          /\ (x * k) * (D * d) = (N * k) * (y * d)
      BY <3>6, Zenon DEF Crossed
    <3>8. y * d > 0
      BY <3>1, <3>2, <3>3, PositiveTimes
    <3>9. CASE b = "*"
      <4>1. q.num = x * k /\ NumOf(b, 2, t, n + 1) = N * k /\ DenOf(t, n + 1) = D * d
        BY <1>6, <1>9, <3>3, <3>4, <3>9
      <4> QED
        BY <3>4, <3>7, <3>8, <4>1, Zenon
    <3>10. CASE b # "*"
      <4>1. q.num = x * d + m * y /\ NumOf(b, 2, t, n + 1) = d * N + m * D /\ DenOf(t, n + 1) = D * d
        BY <1>6, <1>8, <3>3, <3>4, <3>10
      <4> QED
        BY <3>4, <3>7, <3>8, <4>1, Zenon
    <3> QED
      BY <3>9, <3>10
  <2> QED
    BY <2>2, <2>3, <2>4, <2>5 DEF Calculated, q
<1> QED
  BY <1>14, <1>15

LEMMA OneOperand ==
  ASSUME NEW s, NumberShape(s[1]), NEW first \in {1, 2}
  PROVE  /\ NumOf("-", first, s, 1) = IF first = 1 THEN -s[1].num ELSE s[1].num
         /\ DenOf(s, 1) = s[1].den
<1>1. PICK x \in Int, y \in Int : x = s[1].num /\ y = s[1].den
  BY DEF NumberShape, Quotient
<1>2. 0 \in Nat /\ 0 + 1 = 1 /\ first \in Int
  OBVIOUS
<1>3. Rationals(s, 0 + 1) /\ \A i \in 1..(0 + 1) : s[i].den \in Int
  BY <1>1 DEF Rationals
<1>4. DenOf(s, 0) = 1 /\ DenOf(s, 0 + 1) = DenOf(s, 0) * s[0 + 1].den
  BY <1>2, <1>3, OthersNext
<1>5. NumOf("-", first, s, 0) = 0
  BY <1>2, <1>3, CalculationSteps
<1>6. NumOf("-", first, s, 0 + 1) = s[0 + 1].den * NumOf("-", first, s, 0)
                                   + Signed("-", first, 0 + 1) * s[0 + 1].num * DenOf(s, 0)
  BY <1>2, <1>3, CalculationSteps
<1>7. Signed("-", first, 1) = IF first = 1 THEN -1 ELSE 1
  BY DEF Signed
<1>8. NumOf("-", first, s, 1) = y * 0 + (IF first = 1 THEN -1 ELSE 1) * x * 1
  BY <1>1, <1>2, <1>4, <1>5, <1>6, <1>7
<1>9. DenOf(s, 1) = 1 * y
  BY <1>1, <1>2, <1>4
<1> QED
  BY <1>1, <1>8, <1>9

LEMMA CalculatedFirst ==
  ASSUME NEW s, NEW o, Len(s) = 1, s[1] = o, NumberShape(o)
  PROVE  Calculated("-", 2, s, o)
<1>1. NumOf("-", 2, s, 1) = o.num /\ DenOf(s, 1) = o.den
  BY OneOperand
<1>2. o.typ = "integer" => Wrap(o.num) = o.num
  BY WrapInRange DEF NumberShape
<1>3. AreIntegers(s, 1) <=> o.typ = "integer"
  BY DEF AreIntegers
<1>4. \A i \in 1..1 : s[i] = o
  OBVIOUS
<1>5. 1 \in 1..1
  OBVIOUS
<1>6. AreIntegers(s, 1) => o = Integer(Wrap(NumOf("-", 2, s, 1)))
  BY <1>1, <1>2, <1>3 DEF NumberShape
<1>7. ~AreIntegers(s, 1) => o.typ = "float"
  BY <1>3 DEF NumberShape, IsNumber
<1> QED
  BY <1>1, <1>4, <1>5, <1>6, <1>7 DEF Calculated

LEMMA CalculatedNegative ==
  ASSUME NEW s, NEW r, Len(s) = 1, NumberShape(s[1]), Calculated("-", 2, s, r)
  PROVE  Calculated("-", 1, s, Obj_operation("-", Integer(0), r))
<1> DEFINE q == Obj_operation("-", Integer(0), r)
           z == Integer(0)
<1>1. PICK n \in Int, d \in Nat : n = s[1].num /\ d = s[1].den
  BY DEF NumberShape, Quotient
<1>2. NumOf("-", 2, s, 1) = n /\ NumOf("-", 1, s, 1) = -n /\ DenOf(s, 1) = d
  BY <1>1, OneOperand
<1>3. NumberShape(z) /\ z.typ = "integer" /\ z.num = 0 /\ z.den = 1
  BY Limits, IntegerShape DEF Integer
<1>4. NumberShape(r)
  BY DEF Calculated
<1>5. AreIntegers(s, 1) <=> s[1].typ = "integer"
  BY DEF AreIntegers
<1>6. q = IF AreInts(z, r) THEN Integer(Wrap(0 - r.num)) ELSE Floats("-", z, r)
  BY <1>3 DEF Obj_operation, Ints
<1> HIDE DEF q, z
<1>7. CASE AreIntegers(s, 1)
  <2>1. n \in MinInt .. MaxInt /\ d = 1
    BY <1>1, <1>5, <1>7 DEF NumberShape, Integer
  <2>2. Wrap(n) = n
    BY <2>1, WrapInRange
  <2>3. r = Integer(n)
    BY <1>2, <1>7, <2>2 DEF Calculated
  <2>4. q = Integer(Wrap(-n))
    BY <1>3, <1>6, <2>3 DEF AreInts, Integer
  <2>5. Wrap(-n) \in MinInt .. MaxInt /\ Wrap(-n) \in Int
    BY WrapRange
  <2>6. NumberShape(q) /\ q.den = 1 /\ q.num = Wrap(-n)
    BY <2>4, <2>5, IntegerShape DEF Integer
  <2>7. InRange("-", 1, s) => Wrap(-n) = -n
    <3>1. InRange("-", 1, s) => -n \in MinInt .. MaxInt
      BY <1>2, <1>7 DEF InRange
    <3> QED
      BY <3>1, WrapInRange
  <2>8. \A i \in 1..1 : s[i].den = 1 /\ ~IsNaN(s[i])
    <3>1. s[1].den = 1 /\ ~IsNaN(s[1])
      BY <1>1, <2>1 DEF IsNaN
    <3>2. \A i \in 1..1 : i = 1
      OBVIOUS
    <3> QED
      BY <3>1, <3>2, Zenon
  <2>9. InRange("-", 1, s) => q.den > 0 /\ q.num * 1 = (-n) * q.den
    BY <2>6, <2>7
  <2> QED
    BY <1>2, <1>7, <2>1, <2>4, <2>6, <2>8, <2>9 DEF Calculated, q
<1>8. CASE ~AreIntegers(s, 1)
  <2>1. r.typ = "float"
    BY <1>8 DEF Calculated
  <2>2. q = Floats("-", z, r)
    BY <1>6, <2>1 DEF AreInts
  <2>3. Quotient(z) /\ Quotient(r)
    BY <1>3, <1>4 DEF NumberShape
  <2>4. q.typ = "float" /\ Quotient(q) /\ (r.den = 0 => q.den = 0) /\ (IsNaN(r) => IsNaN(q))
    BY <2>2, <2>3, FloatFacts
  <2>5. r.den > 0 => q.den = r.den /\ q.num = -r.num
    <3>1. PICK x \in Int, y \in Nat : x = r.num /\ y = r.den
      BY <2>3 DEF Quotient
    <3>2. r.den > 0 => q.den = 1 * y /\ q.num = 0 * y + (-x) * 1
      <4>1. z.den > 0
        BY <1>3
      <4>2. r.den > 0 => q.den = z.den * r.den /\ q.num = z.num * r.den + (-r.num) * z.den
        BY <2>2, <2>3, <4>1, FloatFacts
      <4> QED
        BY <1>3, <3>1, <4>2
    <3> QED
      BY <3>1, <3>2
  <2>6. NumberShape(q)
    BY <2>4 DEF NumberShape, IsNumber
  <2>7. InRange("-", 2, s)
    BY <1>5, <1>8 DEF InRange, AreIntegers
  <2>8. d > 0 => r.den > 0 /\ r.num * d = n * r.den
    BY <1>1, <1>2, <2>7 DEF Calculated
  <2>9. d > 0 => q.den > 0 /\ q.num * d = (-n) * q.den
    <3>1. PICK x \in Int, y \in Nat : x = r.num /\ y = r.den
      BY <2>3 DEF Quotient
    <3>2. (-x) * d = -(x * d) /\ (-n) * y = -(n * y)
      BY SMTT(30)
    <3>3. d > 0 => q.den > 0 /\ q.num = -x /\ q.den = y /\ x * d = n * y
      BY <2>5, <2>8, <3>1
    <3>4. d > 0 => (-x) * d = (-n) * y
      BY <3>2, <3>3
    <3> QED
      BY <3>3, <3>4, Zenon
  <2>10. \A i \in 1..1 : i = 1
    OBVIOUS
  <2>11. (IsNaN(s[1]) => IsNaN(q)) /\ (s[1].den = 0 => q.den = 0)
    BY <2>4 DEF Calculated
  <2> QED
    BY <1>1, <1>2, <1>8, <2>4, <2>6, <2>9, <2>10, <2>11 DEF Calculated, q
<1> QED
  BY <1>7, <1>8

-----------------------------------------------------------------------------
(* Division *)

LEMMA AbsTimes ==
  ASSUME NEW v \in Int, NEW D \in Nat, D > 0
  PROVE  Abs(v * D) = Abs(v) * D
<1>1. CASE v < 0
  <2>1. v * D < 0
    BY <1>1, SMTT(30)
  <2>2. v * D \in Int /\ (-v) * D = -(v * D)
    BY SMTT(30)
  <2> QED
    BY <1>1, <2>1, <2>2 DEF Abs
<1>2. CASE v >= 0
  <2>1. v * D >= 0 /\ v * D \in Int
    BY <1>2, SMTT(30)
  <2> QED
    BY <1>2, <2>1 DEF Abs
<1> QED
  BY <1>1, <1>2

LEMMA ScaledRemainder ==
  ASSUME NEW r \in Int, NEW n \in Int, NEW m \in Int, NEW j \in Int, NEW D \in Nat, D > 0,
         Abs(r) < Abs(m), r * n >= 0, n - r = Abs(m) * j
  PROVE  IsRemainder(r * D, n * D, m * D)
<1>1. PICK x \in Nat, y \in Nat : x = Abs(r) /\ y = Abs(m)
  BY AbsSign
<1>2. Abs(r * D) = x * D /\ Abs(m * D) = y * D
  BY <1>1, AbsTimes
<1>3. x * D < y * D
  <2>1. x < y
    BY <1>1
  <2>2. (y - x) * D = y * D - x * D
    BY SMTT(30)
  <2>3. y - x \in Nat /\ y - x > 0
    BY <2>1
  <2>4. (y - x) * D > 0
    BY <2>3, PositiveTimes
  <2>5. x * D \in Int /\ y * D \in Int
    OBVIOUS
  <2> QED
    BY <2>2, <2>4, <2>5
<1>4. (r * D) * (n * D) >= 0
  <2>1. (r * D) * (n * D) = (r * n) * (D * D)
    BY SMTT(30)
  <2>2. PICK z \in Nat : z = r * n
    OBVIOUS
  <2>3. D * D \in Nat
    BY PositiveTimes
  <2>4. z * (D * D) \in Nat
    BY <2>3, PositiveTimes
  <2> QED
    BY <2>1, <2>2, <2>4
<1>5. n * D - r * D = (y * D) * j
  <2>1. n * D - r * D = (n - r) * D
    BY SMTT(30)
  <2>2. (y * j) * D = (y * D) * j
    BY SMTT(30)
  <2> QED
    BY <1>1, <2>1, <2>2, Zenon
<1>6. r * D \in Int /\ n * D \in Int /\ m * D \in Int
  OBVIOUS
<1> QED
  BY <1>2, <1>3, <1>4, <1>5, <1>6, RemainderIntro

\* The division of two integers that does not trap.
LEMMA IntegerDivision ==
  ASSUME NEW x \in MinInt .. MaxInt, NEW y \in MinInt .. MaxInt, y # 0,
         ~(x = MinInt /\ y = -1)
  PROVE  /\ Quot(x, y) \in MinInt .. MaxInt /\ IsRemainder(x - Quot(x, y) * y, x, y)
         /\ x - y * Quot(x, y) \in MinInt .. MaxInt /\ IsRemainder(x - y * Quot(x, y), x, y)
<1>1. x \in Int /\ y \in Int
  BY Limits
<1>2. PICK q \in Int : q = Quot(x, y) /\ Abs(q) <= Abs(x)
  BY <1>1, QuotFacts
<1>3. PICK r \in Int : r = x - y * q
  BY <1>1
<1>4. Abs(r) < Abs(y) /\ r * x >= 0 /\ \E j \in Int : x - r = Abs(y) * j
  BY <1>1, <1>2, <1>3, QuotFacts
<1>5. PICK M \in Nat : M = MaxInt + 1 /\ MinInt = -M /\ M >= 2
  BY Limits
<1>6. Abs(y) <= M /\ Abs(x) <= M
  BY <1>1, <1>5, Limits DEF Abs
<1>7. r \in MinInt .. MaxInt
  BY <1>1, <1>4, <1>5, <1>6, Limits DEF Abs
<1>8. q # M
  <2>1. SUFFICES ASSUME q = M
                 PROVE  FALSE
    OBVIOUS
  <2>2. x = -M
    BY <1>1, <1>2, <1>5, <2>1, Limits DEF Abs
  <2>3. r = (-M) * (1 + y)
    <3>1. (-M) * (1 + y) = (-M) - y * M
      BY <1>1, SMTT(30)
    <3> QED
      BY <1>3, <2>1, <2>2, <3>1
  <2>4. 1 + y # 0
    BY <1>1, <1>5, <2>2
  <2>5. r >= M \/ r <= -M
    <3>1. CASE 1 + y >= 1
      BY <1>1, <1>5, <2>3, <3>1, SMTT(30)
    <3>2. CASE 1 + y <= -1
      BY <1>1, <1>5, <2>3, <3>2, SMTT(30)
    <3> QED
      BY <1>1, <2>4, <3>1, <3>2
  <2> QED
    BY <1>1, <1>4, <1>5, <1>6, <2>5 DEF Abs
<1>9. q \in MinInt .. MaxInt
  BY <1>2, <1>5, <1>6, <1>8, Limits DEF Abs
<1>10. IsRemainder(r, x, y)
  BY <1>1, <1>4, RemainderIntro
<1>11. y * q = q * y
  BY <1>1, <1>2
<1> QED
  BY <1>2, <1>3, <1>7, <1>9, <1>10, <1>11, Zenon

LEMMA SignTimes ==
  ASSUME NEW v \in Int, NEW D \in Nat, D > 0
  PROVE  Sign(v * D) = Sign(v)
<1>1. v > 0 => v * D > 0
  BY SMTT(30)
<1>2. v < 0 => v * D < 0
  BY SMTT(30)
<1>3. v = 0 => v * D = 0
  OBVIOUS
<1>4. v * D \in Int
  OBVIOUS
<1> QED
  BY <1>1, <1>2, <1>3, <1>4 DEF Sign

\* v is a divided by b, or what remains if op is %.
Divided(op, a, b, v) ==
  LET n == a.num * b.den  m == b.num * a.den IN
  /\ NumberShape(v)
  /\ IF AreInts(a, b)
     THEN v.typ = "integer" /\ IsRemainder(IF op = "%" THEN v.num ELSE n - v.num * m, n, m)
     ELSE /\ v.typ = "float"
          /\ a.den = 0 \/ IsNaN(b) => v.den = 0
          /\ a.den > 0 /\ b.den = 0 /\ b.num # 0 =>
               v.den > 0 /\ v.num * a.den = (IF op = "%" THEN a.num ELSE 0) * v.den
          /\ a.den > 0 /\ b.den > 0 /\ b.num = 0 =>
               v.den = 0 /\ v.num = (IF op = "%" THEN 0 ELSE Sign(a.num))
          /\ a.den > 0 /\ b.den > 0 /\ b.num # 0 =>
               /\ v.den > 0
               /\ IF op = "%"
                  THEN IsRemainder(v.num * a.den * b.den, n * v.den, m * v.den)
                  ELSE v.num * m = n * v.den

LEMMA DividedIntegers ==
  ASSUME NEW op \in {"/", "%"}, NEW a, NEW b, NumberShape(a), NumberShape(b),
         AreInts(a, b), ~Traps(op, a, b)
  PROVE  Divided(op, a, b, Obj_operation(op, a, b))
<1>1. PICK x \in MinInt .. MaxInt : x = a.num /\ a = Integer(x) /\ a.den = 1
  BY DEF AreInts, NumberShape, Integer
<1>2. PICK y \in MinInt .. MaxInt : y = b.num /\ b = Integer(y) /\ b.den = 1
  BY DEF AreInts, NumberShape, Integer
<1>3. y # 0 /\ ~(x = MinInt /\ y = -1)
  BY <1>1, <1>2 DEF Traps
<1>4. x \in Int /\ y \in Int /\ x * 1 = x /\ y * 1 = y
  BY Limits
<1>5. PICK v \in MinInt .. MaxInt :
        /\ Obj_operation(op, a, b) = Integer(v)
        /\ IsRemainder(IF op = "%" THEN v ELSE x - v * y, x, y)
  <2>1. Obj_operation(op, a, b) =
          Integer(IF op = "%" THEN x - y * Quot(x, y) ELSE Quot(x, y))
    BY <1>1, <1>2 DEF Obj_operation, Ints
  <2> QED
    BY <1>3, <2>1, IntegerDivision
<1>6. NumberShape(Integer(v)) /\ Integer(v).typ = "integer" /\ Integer(v).num = v
  BY IntegerShape DEF Integer
<1> QED
  BY <1>1, <1>2, <1>4, <1>5, <1>6 DEF Divided

LEMMA DividedFloats ==
  ASSUME NEW op \in {"/", "%"}, NEW a, NEW b, NumberShape(a), NumberShape(b), ~AreInts(a, b)
  PROVE  Divided(op, a, b, Obj_operation(op, a, b))
<1>1. PICK x \in Int, y \in Nat : x = a.num /\ y = a.den /\ (y = 0 => x \in {-1, 0, 1})
  BY DEF NumberShape, Quotient
<1>2. PICK k \in Int, d \in Nat : k = b.num /\ d = b.den
  BY DEF NumberShape, Quotient
<1>3. PICK v : v = Floats(op, a, b)
  OBVIOUS
<1>4. v = Obj_operation(op, a, b)
  BY <1>3 DEF Obj_operation
<1>5. CASE op = "/"
  <2>1. PICK g \in {-1, 1} : g = (IF k < 0 THEN -1 ELSE 1) /\ g * k = Abs(k)
    BY DEF Abs
  <2>2. PICK c \in Nat : c = Abs(k) /\ (c = 0 <=> k = 0)
    BY AbsSign
  <2>3. PICK p \in Int, q \in Nat : p = (g * x) * d /\ q = y * c
    BY <2>1, PositiveTimes
  <2>4. v = Over(p, q)
    BY <1>1, <1>2, <1>3, <1>5, <2>1, <2>2, <2>3 DEF Floats
  <2>5. /\ v.typ = "float" /\ Quotient(v)
        /\ q = 0 => v.den = 0 /\ v.num = Sign(p)
        /\ q > 0 => v.den = q /\ v.num = p
    BY <2>4, OverFacts
  <2>6. NumberShape(v)
    BY <2>5 DEF NumberShape, IsNumber
  <2>7. y = 0 \/ c = 0 => q = 0
    BY <2>3, PositiveTimes
  <2>8. y > 0 /\ c > 0 => q > 0
    BY <2>3, PositiveTimes
  <2>9. a.den = 0 \/ IsNaN(b) => v.den = 0
    BY <1>1, <1>2, <2>2, <2>5, <2>7 DEF IsNaN
  <2>10. y > 0 /\ d = 0 /\ k # 0 => v.den > 0 /\ v.num * y = 0 * v.den
    <3>1. d = 0 => p = 0
      BY <2>1, <2>3
    <3> QED
      BY <2>2, <2>5, <2>8, <3>1
  <2>11. y > 0 /\ d > 0 /\ k = 0 => v.den = 0 /\ v.num = Sign(x)
    <3>1. k = 0 => g * x = x
      BY <2>1
    <3>2. k = 0 /\ d > 0 => Sign(p) = Sign(x)
      BY <2>3, <3>1, SignTimes
    <3> QED
      BY <2>2, <2>5, <2>7, <3>2
  <2>12. y > 0 /\ d > 0 /\ k # 0 => v.den > 0 /\ v.num * (k * y) = (x * d) * v.den
    <3>1. ((g * x) * d) * (k * y) = (x * d) * (y * (g * k))
      BY <2>1, SMTT(30)
    <3>2. p * (k * y) = (x * d) * q
      BY <2>1, <2>2, <2>3, <3>1, Zenon
    <3> QED
      BY <2>2, <2>5, <2>8, <3>2
  <2> QED
    BY <1>1, <1>2, <1>4, <1>5, <2>5, <2>6, <2>9, <2>10, <2>11, <2>12 DEF Divided
<1>6. CASE op = "%"
  <2>1. v = fmod(a, b)
    BY <1>3, <1>6 DEF Floats
  <2>2. CASE y = 0 \/ k = 0
    <3>1. v = Float(0, 0)
      BY <1>1, <1>2, <2>1, <2>2 DEF fmod
    <3>2. v.typ = "float" /\ v.num = 0 /\ v.den = 0
      BY <3>1 DEF Float
    <3>3. NumberShape(v)
      BY <3>2 DEF NumberShape, IsNumber, Quotient
    <3> QED
      BY <1>1, <1>2, <1>4, <1>6, <2>2, <3>2, <3>3 DEF Divided, IsNaN
  <2>3. CASE y > 0 /\ k # 0 /\ d = 0
    <3>1. v = Float(x, y)
      BY <1>1, <1>2, <2>1, <2>3 DEF fmod
    <3>2. v.typ = "float" /\ v.num = x /\ v.den = y
      BY <3>1 DEF Float
    <3>3. NumberShape(v)
      BY <2>3, <3>2 DEF NumberShape, IsNumber, Quotient
    <3> QED
      BY <1>1, <1>2, <1>4, <1>6, <2>3, <3>2, <3>3 DEF Divided, IsNaN
  <2>4. CASE y > 0 /\ k # 0 /\ d > 0
    <3>1. PICK n \in Int, m \in Int, D \in Nat : n = x * d /\ m = k * y /\ D = y * d /\ D > 0
      BY <2>4, PositiveTimes
    <3>2. m # 0
      <4>1. k > 0 => k * y > 0
        BY <2>4, SMTT(30)
      <4>2. k < 0 => k * y < 0
        BY <2>4, SMTT(30)
      <4> QED
        BY <2>4, <3>1, <4>1, <4>2
    <3>3. PICK t \in Int : t = Quot(n, m)
      BY <3>2, QuotFacts
    <3>4. PICK r \in Int : r = n - m * t
      OBVIOUS
    <3>5. Abs(r) < Abs(m) /\ r * n >= 0 /\ \E j \in Int : n - r = Abs(m) * j
      BY <3>2, <3>3, <3>4, QuotFacts
    <3>6. v = Over(r, D)
      BY <1>1, <1>2, <2>1, <2>4, <3>1, <3>3, <3>4 DEF fmod
    <3>7. v.typ = "float" /\ Quotient(v) /\ v.den = D /\ v.num = r
      BY <3>1, <3>6, OverFacts
    <3>8. NumberShape(v)
      BY <3>7 DEF NumberShape, IsNumber
    <3>9. IsRemainder(r * D, n * D, m * D)
      BY <3>1, <3>5, ScaledRemainder
    <3>10. r * y * d = r * D
      <4>1. r * y * d = r * (y * d)
        BY SMTT(30)
      <4> QED
        BY <3>1, <4>1, Zenon
    <3>11. IsRemainder(v.num * a.den * b.den, (a.num * b.den) * v.den, (b.num * a.den) * v.den)
      BY <1>1, <1>2, <3>1, <3>7, <3>9, <3>10, Zenon
    <3> QED
      BY <1>1, <1>2, <1>4, <1>6, <2>4, <3>1, <3>7, <3>8, <3>11 DEF Divided, IsNaN
  <2> QED
    BY <2>2, <2>3, <2>4
<1> QED
  BY <1>5, <1>6

-----------------------------------------------------------------------------
(* Objects *)

LEMMA ObjectFacts ==
  ASSUME NEW o \in Objects
  PROVE  /\ IsObject(o) /\ Null \in Objects
         /\ o.typ = "integer" => o.num \in MinInt .. MaxInt
         /\ IsNumber(o) => NumberShape(o)
         /\ o \in Pairs => o.car \in Objects /\ o.cdr \in Objects
<1>1. IsObject(Null)
  BY DEF IsObject, Null
<1>2. IsObject(o)
  BY <1>1, BuiltinsAssumption DEF Objects
<1>3. o.typ = "integer" => o.num \in MinInt .. MaxInt /\ o = Integer(o.num)
  BY <1>2 DEF IsObject
<1>4. o.typ = "integer" => NumberShape(o)
  BY <1>3, IntegerShape
<1>5. o.typ = "float" => NumberShape(o)
  BY <1>2 DEF IsObject, NumberShape, IsNumber, Quotient
<1> QED
  BY <1>2, <1>3, <1>4, <1>5, BuiltinsAssumption DEF Objects, IsNumber

-----------------------------------------------------------------------------
(* Functions that go down a list *)

LEMMA HasNullEquation ==
  ASSUME NEW o \in Objects
  PROVE  HasNull[o] <=> o = Null \/ (o \in Pairs /\ (HasNull[o.car] \/ HasNull[o.cdr]))
<1> DEFINE F == [S \in SUBSET Objects |->
                   {x \in Objects : x = Null \/ (x \in Pairs /\ (x.car \in S \/ x.cdr \in S))}]
           Is(h) == h = [x \in Objects |-> x = Null \/ (x \in Pairs /\ (h[x.car] \/ h[x.cdr]))]
<1>1. F \in [SUBSET Objects -> SUBSET Objects] /\ Monotone(F, Objects)
  BY DEF Monotone
<1>2. \A S \in SUBSET Objects : \A x \in Objects :
        x \in F[S] <=> x = Null \/ (x \in Pairs /\ (x.car \in S \/ x.cdr \in S))
  OBVIOUS
<1> HIDE DEF F
<1>3. PICK L \in SUBSET Objects : F[L] = L
  BY <1>1, FixedPoint, Zenon
<1> DEFINE g == [x \in Objects |-> x \in L]
<1>4. \A x \in Objects : g[x] <=> x \in L
  OBVIOUS
<1>5. \A x \in Pairs : x.car \in Objects /\ x.cdr \in Objects
  BY BuiltinsAssumption
<1>6. Is(g)
  BY <1>2, <1>3, <1>4, <1>5
<1>7. HasNull = CHOOSE h : Is(h)
  BY DEF HasNull
<1> HIDE DEF g, Is
<1>8. Is(HasNull)
  BY <1>6, <1>7
<1> QED
  BY <1>8 DEF Is

LEMMA HasFloatEquation ==
  ASSUME NEW o \in Objects
  PROVE  HasFloat[o] <=> o.typ = "float" \/ (o \in Pairs /\ (HasFloat[o.car] \/ HasFloat[o.cdr]))
<1> DEFINE F == [S \in SUBSET Objects |->
                   {x \in Objects : x.typ = "float" \/ (x \in Pairs /\ (x.car \in S \/ x.cdr \in S))}]
           Is(h) == h = [x \in Objects |-> x.typ = "float" \/ (x \in Pairs /\ (h[x.car] \/ h[x.cdr]))]
<1>1. F \in [SUBSET Objects -> SUBSET Objects] /\ Monotone(F, Objects)
  BY DEF Monotone
<1>2. \A S \in SUBSET Objects : \A x \in Objects :
        x \in F[S] <=> x.typ = "float" \/ (x \in Pairs /\ (x.car \in S \/ x.cdr \in S))
  OBVIOUS
<1> HIDE DEF F
<1>3. PICK L \in SUBSET Objects : F[L] = L
  BY <1>1, FixedPoint, Zenon
<1> DEFINE g == [x \in Objects |-> x \in L]
<1>4. \A x \in Objects : g[x] <=> x \in L
  OBVIOUS
<1>5. \A x \in Pairs : x.car \in Objects /\ x.cdr \in Objects
  BY BuiltinsAssumption
<1>6. Is(g)
  BY <1>2, <1>3, <1>4, <1>5
<1>7. HasFloat = CHOOSE h : Is(h)
  BY DEF HasFloat
<1> HIDE DEF g, Is
<1>8. Is(HasFloat)
  BY <1>6, <1>7
<1> QED
  BY <1>8 DEF Is

LEMMA BothPairsParts ==
  ASSUME NEW a \in Objects, NEW b \in Objects, BothPairs(a, b)
  PROVE  a \in Pairs /\ b \in Pairs /\ {a.car, a.cdr, b.car, b.cdr} \subseteq Objects
BY BuiltinsAssumption DEF BothPairs, Pairs

LEMMA EqualEquation ==
  ASSUME NEW a \in Objects, NEW b \in Objects
  PROVE  equal_obj[a][b] <=>
           \/ eq_obj(a, b)
           \/ BothPairs(a, b) /\ equal_obj[a.car][b.car] /\ equal_obj[a.cdr][b.cdr]
<1> DEFINE D == Objects \X Objects
           Next2(S, x, y) == \/ eq_obj(x, y)
                             \/ BothPairs(x, y) /\ <<x.car, y.car>> \in S /\ <<x.cdr, y.cdr>> \in S
           F == [S \in SUBSET D |-> {p \in D : Next2(S, p[1], p[2])}]
           Is(h) == h = [x \in Objects |-> [y \in Objects |->
                          \/ eq_obj(x, y)
                          \/ BothPairs(x, y) /\ h[x.car][y.car] /\ h[x.cdr][y.cdr]]]
<1>1. F \in [SUBSET D -> SUBSET D]
  OBVIOUS
<1>2. Monotone(F, D)
  BY DEF Monotone
<1>3. \A S \in SUBSET D : \A x \in Objects : \A y \in Objects :
        <<x, y>> \in F[S] <=> Next2(S, x, y)
  OBVIOUS
<1> HIDE DEF F
<1>4. PICK L \in SUBSET D : F[L] = L
  BY <1>1, <1>2, FixedPoint, Zenon
<1>5. \A x \in Objects : \A y \in Objects : <<x, y>> \in L <=> Next2(L, x, y)
  BY <1>3, <1>4
<1> DEFINE g == [x \in Objects |-> [y \in Objects |-> <<x, y>> \in L]]
<1>6. \A x \in Objects : \A y \in Objects : g[x][y] <=> <<x, y>> \in L
  OBVIOUS
<1>7. ASSUME NEW x \in Objects, NEW y \in Objects
      PROVE  <<x, y>> \in L <=>
               \/ eq_obj(x, y)
               \/ BothPairs(x, y) /\ g[x.car][y.car] /\ g[x.cdr][y.cdr]
  <2>1. CASE BothPairs(x, y)
    <3>1. x.car \in Objects /\ x.cdr \in Objects /\ y.car \in Objects /\ y.cdr \in Objects
      BY <2>1, BothPairsParts
    <3> QED
      BY <1>5, <1>6, <3>1
  <2>2. CASE ~BothPairs(x, y)
    BY <1>5, <2>2
  <2> QED
    BY <2>1, <2>2
<1> HIDE DEF g
<1>8. Is(g)
  <2> DEFINE body(x, y) == \/ eq_obj(x, y)
                           \/ BothPairs(x, y) /\ g[x.car][y.car] /\ g[x.cdr][y.cdr]
  <2>1. \A x \in Objects : \A y \in Objects : <<x, y>> \in L <=> body(x, y)
    BY <1>7, Zenon
  <2>2. \A x \in Objects : \A y \in Objects : body(x, y) \in BOOLEAN
    OBVIOUS
  <2> HIDE DEF body
  <2>3. g = [x \in Objects |-> [y \in Objects |-> body(x, y)]]
    BY <2>1, <2>2 DEF g
  <2> QED
    BY <2>3 DEF body
<1>9. equal_obj = CHOOSE h : Is(h)
  BY DEF equal_obj
<1> HIDE DEF Is
<1>10. Is(equal_obj)
  BY <1>8, <1>9
<1>11. equal_obj[a] = [y \in Objects |->
          \/ eq_obj(a, y)
          \/ BothPairs(a, y) /\ equal_obj[a.car][y.car] /\ equal_obj[a.cdr][y.cdr]]
  BY <1>10 DEF Is
<1> QED
  BY <1>11

LEMMA EqualCrashesEquation ==
  ASSUME NEW a \in Objects, NEW b \in Objects
  PROVE  EqualCrashes[a][b] <=>
           \/ EqCrashes(a, b)
           \/ /\ ~eq_obj(a, b)
              /\ \/ Null \in {a, b}
                 \/ BothPairs(a, b) /\ (EqualCrashes[a.car][b.car] \/ EqualCrashes[a.cdr][b.cdr])
<1> DEFINE D == Objects \X Objects
           Next2(S, x, y) ==
             \/ EqCrashes(x, y)
             \/ /\ ~eq_obj(x, y)
                /\ \/ Null \in {x, y}
                   \/ BothPairs(x, y) /\ (<<x.car, y.car>> \in S \/ <<x.cdr, y.cdr>> \in S)
           F == [S \in SUBSET D |-> {p \in D : Next2(S, p[1], p[2])}]
           Is(h) == h = [x \in Objects |-> [y \in Objects |->
             \/ EqCrashes(x, y)
             \/ /\ ~eq_obj(x, y)
                /\ \/ Null \in {x, y}
                   \/ BothPairs(x, y) /\ (h[x.car][y.car] \/ h[x.cdr][y.cdr])]]
<1>1. F \in [SUBSET D -> SUBSET D]
  OBVIOUS
<1>2. Monotone(F, D)
  BY DEF Monotone
<1>3. \A S \in SUBSET D : \A x \in Objects : \A y \in Objects :
        <<x, y>> \in F[S] <=> Next2(S, x, y)
  OBVIOUS
<1> HIDE DEF F
<1>4. PICK L \in SUBSET D : F[L] = L
  BY <1>1, <1>2, FixedPoint, Zenon
<1>5. \A x \in Objects : \A y \in Objects : <<x, y>> \in L <=> Next2(L, x, y)
  BY <1>3, <1>4
<1> DEFINE g == [x \in Objects |-> [y \in Objects |-> <<x, y>> \in L]]
<1>6. \A x \in Objects : \A y \in Objects : g[x][y] <=> <<x, y>> \in L
  OBVIOUS
<1>7. ASSUME NEW x \in Objects, NEW y \in Objects
      PROVE  <<x, y>> \in L <=>
               \/ EqCrashes(x, y)
               \/ /\ ~eq_obj(x, y)
                  /\ \/ Null \in {x, y}
                     \/ BothPairs(x, y) /\ (g[x.car][y.car] \/ g[x.cdr][y.cdr])
  <2>1. CASE BothPairs(x, y)
    <3>1. x.car \in Objects /\ x.cdr \in Objects /\ y.car \in Objects /\ y.cdr \in Objects
      BY <2>1, BothPairsParts
    <3> QED
      BY <1>5, <1>6, <3>1
  <2>2. CASE ~BothPairs(x, y)
    BY <1>5, <2>2
  <2> QED
    BY <2>1, <2>2
<1> HIDE DEF g
<1>8. Is(g)
  <2> DEFINE body(x, y) ==
               \/ EqCrashes(x, y)
               \/ /\ ~eq_obj(x, y)
                  /\ \/ Null \in {x, y}
                     \/ BothPairs(x, y) /\ (g[x.car][y.car] \/ g[x.cdr][y.cdr])
  <2>1. \A x \in Objects : \A y \in Objects : <<x, y>> \in L <=> body(x, y)
    BY <1>7, Zenon
  <2>2. \A x \in Objects : \A y \in Objects : body(x, y) \in BOOLEAN
    OBVIOUS
  <2> HIDE DEF body
  <2>3. g = [x \in Objects |-> [y \in Objects |-> body(x, y)]]
    BY <2>1, <2>2 DEF g
  <2> QED
    BY <2>3 DEF body
<1>9. EqualCrashes = CHOOSE h : Is(h)
  BY DEF EqualCrashes
<1> HIDE DEF Is
<1>10. Is(EqualCrashes)
  BY <1>8, <1>9
<1> QED
  BY <1>10, ZenonT(60) DEF Is

\* Pairs are well-founded: a statement about all pairs is proved of one whose parts
\* that are pairs have it.
LEMMA OverPairs ==
  ASSUME NEW T, \A o \in Pairs : (\A x \in {o.car, o.cdr} : x \in Pairs => x \in T) => o \in T
  PROVE  Pairs \subseteq T
<1> DEFINE bad == {o \in Pairs : o \notin T}
<1>1. ASSUME bad # {}
      PROVE  FALSE
  <2>1. bad \in SUBSET Pairs
    OBVIOUS
  <2>2. PICK o \in bad : {o.car, o.cdr} \cap bad = {}
    BY <1>1, <2>1, BuiltinsAssumption
  <2>3. \A x \in {o.car, o.cdr} : x \in Pairs => x \in T
    BY <2>2
  <2> QED
    BY <2>2, <2>3
<1> QED
  BY <1>1

LEMMA CrashesNeedNull ==
  ASSUME NEW a \in Objects, NEW b \in Objects, EqualCrashes[a][b]
  PROVE  HasNull[a] \/ HasNull[b]
<1> DEFINE Right(x) == \A y \in Objects : EqualCrashes[x][y] => HasNull[x] \/ HasNull[y]
           T == {x \in Objects : Right(x)}
<1>1. ASSUME NEW x \in Objects, x \in Pairs => Right(x.car) /\ Right(x.cdr)
      PROVE  Right(x)
  <2>1. ASSUME NEW y \in Objects, EqualCrashes[x][y]
        PROVE  HasNull[x] \/ HasNull[y]
    <3>1. CASE Null \in {x, y}
      BY <3>1, HasNullEquation
    <3>2. CASE Null \notin {x, y}
      <4>1. ~EqCrashes(x, y)
        BY <3>2 DEF EqCrashes
      <4>2. BothPairs(x, y) /\ (EqualCrashes[x.car][y.car] \/ EqualCrashes[x.cdr][y.cdr])
        BY <2>1, <3>2, <4>1, EqualCrashesEquation
      <4>3. x \in Pairs /\ y \in Pairs /\ {x.car, x.cdr, y.car, y.cdr} \subseteq Objects
        BY <4>2, BothPairsParts
      <4>4. \/ HasNull[x.car] \/ HasNull[y.car]
            \/ HasNull[x.cdr] \/ HasNull[y.cdr]
        BY <1>1, <4>2, <4>3
      <4> QED
        BY <4>3, <4>4, HasNullEquation
    <3> QED
      BY <3>1, <3>2
  <2> QED
    BY <2>1
<1> HIDE DEF Right
<1>2. \A x \in Objects : x \notin Pairs => Right(x)
  BY <1>1
<1>3. \A o \in Pairs : (\A x \in {o.car, o.cdr} : x \in Pairs => x \in T) => o \in T
  <2>1. ASSUME NEW o \in Pairs, \A x \in {o.car, o.cdr} : x \in Pairs => x \in T
        PROVE  o \in T
    <3>1. o \in Objects /\ o.car \in Objects /\ o.cdr \in Objects
      BY BuiltinsAssumption DEF Pairs
    <3>2. Right(o.car) /\ Right(o.cdr)
      BY <1>2, <2>1, <3>1
    <3> QED
      BY <1>1, <3>1, <3>2
  <2> QED
    BY <2>1
<1> HIDE DEF T
<1>4. Pairs \subseteq T
  BY <1>3, OverPairs
<1>5. Right(a)
  BY <1>2, <1>4 DEF T
<1> QED
  BY <1>5 DEF Right

\* f is Structure on D, which holds the parts of its pairs.
Outline(D, f) ==
  /\ D \in SUBSET Objects
  /\ \A o \in D : o \in Pairs => o.car \in D /\ o.cdr \in D
  /\ \A o \in D : f[o] = IF o \in Pairs THEN Pair(f[o.car], f[o.cdr], "any") ELSE o

LEMMA OutlinesAgree ==
  ASSUME NEW D, NEW f, NEW E, NEW g, Outline(D, f), Outline(E, g)
  PROVE  \A o \in D \cap E : f[o] = g[o]
<1> DEFINE T == {o \in Pairs : o \in D \cap E => f[o] = g[o]}
<1>1. \A o \in D \cap E : o \notin Pairs => f[o] = g[o]
  BY DEF Outline
<1>2. ASSUME NEW o \in Pairs, \A x \in {o.car, o.cdr} : x \in Pairs => x \in T
      PROVE  o \in T
  <2>1. ASSUME o \in D \cap E
        PROVE  f[o] = g[o]
    <3>1. o.car \in D \cap E /\ o.cdr \in D \cap E
      BY <2>1 DEF Outline
    <3>2. f[o.car] = g[o.car] /\ f[o.cdr] = g[o.cdr]
      BY <1>1, <1>2, <3>1
    <3>3. f[o] = Pair(f[o.car], f[o.cdr], "any") /\ g[o] = Pair(g[o.car], g[o.cdr], "any")
      BY <2>1 DEF Outline
    <3> QED
      BY <3>2, <3>3, Zenon
  <2> QED
    BY <2>1
<1>3. Pairs \subseteq T
  <2> HIDE DEF T
  <2> QED
    BY <1>2, OverPairs
<1> QED
  BY <1>1, <1>3

LEMMA EveryOutline ==
  ASSUME NEW o \in Objects
  PROVE  \E D, f : Outline(D, f) /\ o \in D
<1> DEFINE Has(x) == \E D, f : Outline(D, f) /\ x \in D
           T == {x \in Pairs : Has(x)}
<1>1. ASSUME NEW x \in Objects, x \notin Pairs
      PROVE  Has(x)
  <2>1. Outline({x}, [y \in {x} |-> x]) /\ x \in {x}
    BY <1>1 DEF Outline
  <2> QED
    BY <2>1
<1>2. ASSUME NEW x \in Pairs, \A y \in {x.car, x.cdr} : y \in Pairs => y \in T
      PROVE  x \in T
  <2>1. x \in Objects /\ x.car \in Objects /\ x.cdr \in Objects
    BY BuiltinsAssumption DEF Pairs
  <2>2. Has(x.car) /\ Has(x.cdr)
    BY <1>1, <1>2, <2>1
  <2>3. PICK D, f : Outline(D, f) /\ x.car \in D
    BY <2>2
  <2>4. PICK E, g : Outline(E, g) /\ x.cdr \in E
    BY <2>2
  <2>5. \A y \in D \cap E : f[y] = g[y]
    BY <2>3, <2>4, OutlinesAgree
  <2> DEFINE C == D \cup E \cup {x}
             h == [y \in C |-> IF y \in D THEN f[y] ELSE IF y \in E THEN g[y]
                               ELSE Pair(f[x.car], g[x.cdr], "any")]
  <2>6. \A y \in D : h[y] = f[y]
    OBVIOUS
  <2>7. \A y \in E : h[y] = g[y]
    BY <2>5
  <2>8. x \notin D /\ x \notin E => h[x] = Pair(f[x.car], g[x.cdr], "any")
    OBVIOUS
  <2>9. C \in SUBSET Objects
    BY <2>1, <2>3, <2>4 DEF Outline
  <2> HIDE DEF h
  <2>10. \A y \in C : y \in Pairs => y.car \in C /\ y.cdr \in C
    BY <2>3, <2>4 DEF Outline
  <2>11. ASSUME NEW y \in C
         PROVE  h[y] = IF y \in Pairs THEN Pair(h[y.car], h[y.cdr], "any") ELSE y
    <3>1. CASE y \in D
      <4>1. f[y] = (IF y \in Pairs THEN Pair(f[y.car], f[y.cdr], "any") ELSE y)
        BY <2>3, <3>1 DEF Outline
      <4>2. y \in Pairs => h[y.car] = f[y.car] /\ h[y.cdr] = f[y.cdr]
        BY <2>3, <2>6, <3>1 DEF Outline
      <4>3. h[y] = f[y]
        BY <2>6, <3>1
      <4> QED
        BY <4>1, <4>2, <4>3
    <3>2. CASE y \in E
      <4>1. g[y] = (IF y \in Pairs THEN Pair(g[y.car], g[y.cdr], "any") ELSE y)
        BY <2>4, <3>2 DEF Outline
      <4>2. y \in Pairs => h[y.car] = g[y.car] /\ h[y.cdr] = g[y.cdr]
        BY <2>4, <2>7, <3>2 DEF Outline
      <4>3. h[y] = g[y]
        BY <2>7, <3>2
      <4> QED
        BY <4>1, <4>2, <4>3
    <3>3. CASE y \notin D /\ y \notin E
      <4>1. y = x
        BY <3>3
      <4>2. h[x] = Pair(f[x.car], g[x.cdr], "any")
        BY <2>8, <3>3, <4>1
      <4>3. h[x.car] = f[x.car] /\ h[x.cdr] = g[x.cdr]
        BY <2>3, <2>4, <2>6, <2>7
      <4> QED
        BY <4>1, <4>2, <4>3
    <3> QED
      BY <3>1, <3>2, <3>3
  <2>12. Outline(C, h)
    BY <2>9, <2>10, <2>11, Zenon DEF Outline
  <2>13. x \in C
    OBVIOUS
  <2> HIDE DEF C
  <2>14. Has(x)
    BY <2>12, <2>13
  <2> QED
    BY <2>14
<1>3. Pairs \subseteq T
  <2> HIDE DEF T
  <2> QED
    BY <1>2, OverPairs
<1>4. Has(o)
  BY <1>1, <1>3
<1> QED
  BY <1>4

LEMMA StructureEquation ==
  ASSUME NEW o \in Objects
  PROVE  Structure[o] = IF o \in Pairs THEN Pair(Structure[o.car], Structure[o.cdr], "any") ELSE o
<1> DEFINE Is(h) == h = [x \in Objects |->
                          IF x \in Pairs THEN Pair(h[x.car], h[x.cdr], "any") ELSE x]
           Fits2(x, f) == \E D : Outline(D, f) /\ x \in D
           g == [x \in Objects |-> (CHOOSE f : Fits2(x, f))[x]]
<1>1. ASSUME NEW D, NEW f, Outline(D, f), NEW x \in D
      PROVE  g[x] = f[x]
  <2>1. x \in Objects
    BY <1>1 DEF Outline
  <2> DEFINE e == CHOOSE u : Fits2(x, u)
  <2>2. Fits2(x, f)
    BY <1>1
  <2> HIDE DEF Fits2
  <2>3. Fits2(x, e)
    BY <2>2
  <2>4. g[x] = e[x]
    BY <2>1
  <2> HIDE DEF e, g
  <2>5. PICK E : Outline(E, e) /\ x \in E
    BY <2>3 DEF Fits2
  <2>6. e[x] = f[x]
    BY <1>1, <2>5, OutlinesAgree
  <2> QED
    BY <2>4, <2>6
<1> HIDE DEF g
<1>2. ASSUME NEW x \in Objects
      PROVE  g[x] = IF x \in Pairs THEN Pair(g[x.car], g[x.cdr], "any") ELSE x
  <2>1. PICK D, f : Outline(D, f) /\ x \in D
    BY EveryOutline
  <2>2. f[x] = IF x \in Pairs THEN Pair(f[x.car], f[x.cdr], "any") ELSE x
    BY <2>1 DEF Outline
  <2>3. x \in Pairs => x.car \in D /\ x.cdr \in D
    BY <2>1 DEF Outline
  <2>4. g[x] = f[x] /\ (x \in Pairs => g[x.car] = f[x.car] /\ g[x.cdr] = f[x.cdr])
    BY <1>1, <2>1, <2>3
  <2> QED
    BY <2>2, <2>4
<1>3. Is(g)
  <2> DEFINE body(x) == IF x \in Pairs THEN Pair(g[x.car], g[x.cdr], "any") ELSE x
  <2>1. \A x \in Objects : g[x] = body(x)
    BY <1>2, Zenon
  <2> HIDE DEF body
  <2>2. g = [x \in Objects |-> body(x)]
    BY <2>1 DEF g
  <2> QED
    BY <2>2 DEF body
<1>4. Structure = CHOOSE h : Is(h)
  BY DEF Structure
<1> HIDE DEF Is
<1>5. Is(Structure)
  BY <1>3, <1>4
<1> QED
  BY <1>5 DEF Is

LEMMA EqWithoutFloats ==
  ASSUME NEW a \in Objects, NEW b \in Objects, a.typ # "float", b.typ # "float"
  PROVE  eq_obj(a, b) <=> a = b
<1>1. IsObject(a) /\ IsObject(b)
  BY ObjectFacts
<1>2. a.typ \in {"symbol", "string"} /\ b.typ = a.typ /\ a.str = b.str => a = b
  <2>1. a.typ \in {"symbol", "string"} => a = [typ |-> a.typ, str |-> a.str]
    BY <1>1 DEF IsObject
  <2>2. b.typ \in {"symbol", "string"} => b = [typ |-> b.typ, str |-> b.str]
    BY <1>1 DEF IsObject
  <2> QED
    BY <2>1, <2>2
<1>3. IsNumber(a) /\ IsNumber(b) => AreInts(a, b)
  BY DEF IsNumber, AreInts
<1> QED
  BY <1>2, <1>3 DEF eq_obj

LEMMA EqualIsSameStructure ==
  ASSUME NEW a \in Objects, NEW b \in Objects, ~HasFloat[a], ~HasFloat[b]
  PROVE  equal_obj[a][b] <=> Structure[a] = Structure[b]
<1> DEFINE Right(x) == \A y \in Objects : ~HasFloat[x] /\ ~HasFloat[y] =>
                                            (equal_obj[x][y] <=> Structure[x] = Structure[y])
           T == {x \in Objects : Right(x)}
<1>1. ASSUME NEW x \in Objects, NEW y \in Objects
      PROVE  BothPairs(x, y) <=> x \in Pairs /\ y \in Pairs
  BY DEF BothPairs, Pairs
<1>2. ASSUME NEW x \in Objects, x \in Pairs => Right(x.car) /\ Right(x.cdr)
      PROVE  Right(x)
  <2>1. ASSUME NEW y \in Objects, ~HasFloat[x], ~HasFloat[y]
        PROVE  equal_obj[x][y] <=> Structure[x] = Structure[y]
    <3>1. eq_obj(x, y) <=> x = y
      BY <2>1, EqWithoutFloats, HasFloatEquation
    <3>2. CASE x \in Pairs /\ y \in Pairs
      <4>1. BothPairs(x, y)
        BY <1>1, <3>2
      <4>2. {x.car, x.cdr, y.car, y.cdr} \subseteq Objects
        BY <4>1, BothPairsParts
      <4>3. ~HasFloat[x.car] /\ ~HasFloat[x.cdr] /\ ~HasFloat[y.car] /\ ~HasFloat[y.cdr]
        BY <2>1, <3>2, HasFloatEquation
      <4>4. /\ equal_obj[x.car][y.car] <=> Structure[x.car] = Structure[y.car]
            /\ equal_obj[x.cdr][y.cdr] <=> Structure[x.cdr] = Structure[y.cdr]
        BY <1>2, <3>2, <4>2, <4>3
      <4>5. Structure[x] = Pair(Structure[x.car], Structure[x.cdr], "any")
        BY <3>2, StructureEquation
      <4>6. Structure[y] = Pair(Structure[y.car], Structure[y.cdr], "any")
        BY <3>2, StructureEquation
      <4>7. Structure[x] = Structure[y] <=>
              Structure[x.car] = Structure[y.car] /\ Structure[x.cdr] = Structure[y.cdr]
        BY <4>5, <4>6 DEF Pair
      <4>8. equal_obj[x][y] <=>
              eq_obj(x, y) \/ (equal_obj[x.car][y.car] /\ equal_obj[x.cdr][y.cdr])
        BY <4>1, EqualEquation
      <4> QED
        BY <3>1, <4>4, <4>7, <4>8
    <3>3. CASE ~(x \in Pairs /\ y \in Pairs)
      <4>1. equal_obj[x][y] <=> x = y
        BY <1>1, <3>1, <3>3, EqualEquation
      <4>2. \A z \in Objects : z \notin Pairs => Structure[z] = z /\ (z.typ = "pair" => z = nillist)
        BY StructureEquation DEF Pairs
      <4>3. \A z \in Pairs : Structure[z].typ = "pair" /\ Structure[z].id = "any"
        <5>1. ASSUME NEW z \in Pairs
              PROVE  Structure[z].typ = "pair" /\ Structure[z].id = "any"
          <6>1. Structure[z] = Pair(Structure[z.car], Structure[z.cdr], "any")
            BY StructureEquation DEF Pairs
          <6> QED
            BY <6>1 DEF Pair
        <5> QED
          BY <5>1
      <4>4. nillist.id = "nil"
        BY DEF nillist, Pair
      <4>5. ASSUME NEW z \in Pairs, NEW w \in Objects, w \notin Pairs
            PROVE  Structure[z] # Structure[w] /\ z # w
        BY <4>2, <4>3, <4>4, <4>5
      <4>6. CASE x \in Pairs
        BY <3>3, <4>1, <4>5, <4>6
      <4>7. CASE y \in Pairs
        BY <3>3, <4>1, <4>5, <4>7
      <4>8. CASE x \notin Pairs /\ y \notin Pairs
        BY <4>1, <4>2, <4>8
      <4> QED
        BY <4>6, <4>7, <4>8
    <3> QED
      BY <3>2, <3>3
  <2> QED
    BY <2>1
<1> HIDE DEF Right
<1>3. \A x \in Objects : x \notin Pairs => Right(x)
  BY <1>2
<1>4. \A o \in Pairs : (\A x \in {o.car, o.cdr} : x \in Pairs => x \in T) => o \in T
  <2>1. ASSUME NEW o \in Pairs, \A x \in {o.car, o.cdr} : x \in Pairs => x \in T
        PROVE  o \in T
    <3>1. o \in Objects /\ o.car \in Objects /\ o.cdr \in Objects
      BY BuiltinsAssumption DEF Pairs
    <3>2. Right(o.car) /\ Right(o.cdr)
      BY <1>3, <2>1, <3>1
    <3> QED
      BY <1>2, <3>1, <3>2
  <2> QED
    BY <2>1
<1> HIDE DEF T
<1>5. Pairs \subseteq T
  BY <1>4, OverPairs
<1>6. Right(a)
  BY <1>3, <1>5 DEF T
<1> QED
  BY <1>6 DEF Right

LEMMA ListOfIsPair ==
  ASSUME NEW s \in Seq(Objects)
  PROVE  ListOf(s).typ = "pair"
<1> DEFINE N == Len(s)
           Is(m, u) == u = [n \in 0 .. m |->
                        IF n = 0 THEN nillist ELSE Pair(s[N - n + 1], u[n - 1], "new")]
           T == {m \in 0..N : \E u : Is(m, u)}
<1>1. N \in Nat
  OBVIOUS
<1> HIDE DEF N
<1>2. 0 \in T
  <2>1. Is(0, [n \in 0..0 |-> nillist])
    OBVIOUS
  <2> HIDE DEF Is
  <2> QED
    BY <1>1, <2>1
<1>3. ASSUME NEW m \in 0..(N - 1), m \in T
      PROVE  m + 1 \in T
  <2>1. PICK u : Is(m, u)
    BY <1>3
  <2>2. \A n \in 0..m : u[n] = IF n = 0 THEN nillist ELSE Pair(s[N - n + 1], u[n - 1], "new")
    BY <2>1
  <2> DEFINE w == [n \in 0..(m + 1) |->
                    IF n = m + 1 THEN Pair(s[N - n + 1], u[m], "new") ELSE u[n]]
  <2>3. m + 1 \in 0..(m + 1) /\ \A n \in 0..m : n \in 0..(m + 1) /\ n # m + 1
    BY <1>1
  <2>4. w[m + 1] = Pair(s[N - (m + 1) + 1], u[m], "new") /\ \A n \in 0..m : w[n] = u[n]
    BY <2>3
  <2> HIDE DEF w
  <2>5. ASSUME NEW n \in 0..(m + 1)
        PROVE  w[n] = IF n = 0 THEN nillist ELSE Pair(s[N - n + 1], w[n - 1], "new")
    <3>1. CASE n = m + 1
      <4>1. n - 1 = m /\ n # 0 /\ m \in 0..m
        BY <1>1, <3>1
      <4>2. w[n - 1] = u[m]
        BY <2>4, <4>1
      <4> QED
        BY <2>4, <3>1, <4>1, <4>2, Zenon
    <3>2. CASE n # m + 1
      <4>1. n \in 0..m /\ (n # 0 => n - 1 \in 0..m)
        BY <1>1, <3>2
      <4>2. w[n] = u[n] /\ (n # 0 => w[n - 1] = u[n - 1])
        BY <2>4, <4>1
      <4> QED
        BY <2>2, <4>1, <4>2
    <3> QED
      BY <3>1, <3>2
  <2>6. Is(m + 1, w)
    <3> DEFINE body(n) == IF n = 0 THEN nillist ELSE Pair(s[N - n + 1], w[n - 1], "new")
    <3>1. \A n \in 0..(m + 1) : w[n] = body(n)
      BY <2>5, Zenon
    <3> HIDE DEF body
    <3>2. w = [n \in 0..(m + 1) |-> body(n)]
      BY <3>1 DEF w
    <3> QED
      BY <3>2 DEF body
  <2>7. m + 1 \in 0..N
    BY <1>1
  <2> HIDE DEF Is
  <2> QED
    BY <2>6, <2>7
<1> HIDE DEF T
<1>4. N \in T
  BY <1>1, <1>2, <1>3, AllUpTo
<1> DEFINE last == CHOOSE u : Is(N, u)
<1>5. Is(N, last)
  <2> HIDE DEF Is
  <2> QED
    BY <1>4 DEF T
<1>6. ListOf(s) = last[N]
  BY DEF ListOf, N
<1> HIDE DEF last
<1>7. last[N] = IF N = 0 THEN nillist ELSE Pair(s[N - N + 1], last[N - 1], "new")
  BY <1>1, <1>5
<1> QED
  BY <1>6, <1>7 DEF Pair, nillist

-----------------------------------------------------------------------------
(* What the loops know of the operands so far *)

Booleans == {bool_obj(TRUE), bool_obj(FALSE)}
AllNumbers(s) == \A i \in 1..Len(s) : NumberShape(s[i])

\* InOrder, eq_obj or equal_obj, and Answer, for a given branch.
Chain(b, x, y) ==
  CASE b = "<" -> Obj_lt_operation(x, y)
    [] b = ">" -> Obj_lt_operation(y, x)
    [] b = "<=" -> Obj_le_operation(x, y)
    [] b = ">=" -> Obj_le_operation(y, x)
    [] b = "equal?" -> equal_obj[x][y]
    [] OTHER -> eq_obj(x, y)
AnswerOf(b, o) ==
  CASE b = "car" -> o.car
    [] b = "cdr" -> o.cdr
    [] b = "null?" -> bool_obj(o = nillist)
    [] b = "pair?" -> bool_obj(o.typ = "pair" /\ o # nillist)
    [] b = "list?" -> bool_obj(is_list[o])
    [] b = "number?" -> bool_obj(IsNumber(o))
    [] b = "symbol?" -> bool_obj(o.typ = "symbol")
    [] b = "sqrt" -> sqrt(o)
    [] b = "even?" -> bool_obj(o.num % 2 = 0)
    [] b = "odd?" -> bool_obj(o.num % 2 # 0)
Fits(b, o) ==
  /\ b = "sqrt" => IsNumber(o)
  /\ b \in {"car", "cdr"} => o.typ = "pair"
  /\ b \in {"even?", "odd?"} => o.typ = "integer"

Equalities == {"=", "eq?", "equal?"}
Calculations == {"+", "-", "*"}
Questions == Unary \ {"load"}
Cut(b) == IF b = "remainder" THEN "%" ELSE "/"

Calculating(b, s, r) ==
  AllNumbers(s) /\ (b # "-" \/ Len(s) > 0 => Calculated(b, 2, s, r))
Dividing(b, s, r) ==
  /\ AllNumbers(s)
  /\ Len(s) = 1 => r = s[1]
  /\ Len(s) = 2 => Divided(Cut(b), s[1], s[2], r)
Chaining(b, s, p, r) ==
  Len(s) > 0 => /\ p = s[Len(s)] /\ r \in Booleans
                /\ r.val <=> \A i \in 1..(Len(s) - 1) : Chain(b, s[i], s[i + 1])
Joining(b, s, r) ==
  /\ r = IF Len(s) = 0 THEN bool_obj(b = "and") ELSE s[Len(s)]
  /\ \A i \in 1..(Len(s) - 1) : s[i] = bool_obj(FALSE) <=> b = "or"
Asking(b, s, r) ==
  Len(s) > 0 => r = AnswerOf(b, s[1]) /\ Fits(b, s[1])

\* The branch b after the operands s: p and r are op1 and result.
Loop(b, s, p, r) ==
  /\ b \in Calculations => Calculating(b, s, r)
  /\ b \in Divisions => Dividing(b, s, r)
  /\ b \in Comparisons => AllNumbers(s)
  /\ b \in Comparisons \cup Equalities => Chaining(b, s, p, r)
  /\ b = "list" => r \in Seq(Objects)
  /\ b = "cons" /\ Len(s) = 2 => r.typ = "pair"
  /\ b \in {"and", "or"} => Joining(b, s, r)
  /\ b \in Questions => Asking(b, s, r)
  /\ b = "load" => Len(s) = 0

Shape ==
  /\ name \in Names /\ spelt_car \in BOOLEAN /\ argc \in 0 .. MaxOperands
  /\ ops \in Seq(Objects) /\ Len(ops) <= argc /\ failed \in 0 .. Len(ops)
  /\ status \in {"operands", "returned", "crashed"} /\ eval_error \in BOOLEAN

Looping ==
  /\ Len(ops) > 0 => ArgcOk /\ Branch # "unknown"
  /\ eval_error \/ failed # 0 => Branch = "cons"
  /\ Loop(Branch, ops, op1, result)

Answered == status = "returned" /\ ~eval_error /\ Branch \notin {"load", "unknown"}
Finished ==
  /\ Looping /\ ArgcOk
  /\ Len(ops) = argc \/ Decided
  /\ value = CASE Branch = "-" /\ argc = 1 -> Obj_operation("-", Integer(0), result)
               [] Branch = "list" -> ListOf(result)
               [] OTHER -> result

CrashExplained ==
  IF failed # 0 THEN name = "remainder" /\ failed = 2
  ELSE \/ \E i \in DOMAIN ops : HasNull[ops[i]]
       \/ /\ name \in Divisions /\ AllInts
          /\ ops[2].num = 0 \/ (ops[1].num = MinInt /\ ops[2].num = -1)

Inv ==
  /\ Shape
  /\ status = "operands" => Looping /\ value = Null
  /\ Answered => Finished
  /\ status = "returned" /\ ~Answered => value \in {Null, bool_obj(TRUE)}
  /\ status = "returned" /\ eval_error => value = Null
  /\ status = "crashed" => CrashExplained /\ value = Null

LEMMA BranchNames ==
  ASSUME Shape
  PROVE  Branch \in Names \cup {"unknown"} /\ (Branch \in Early => name = Branch)
<1>1. name \in Names
  BY DEF Shape
<1> QED
  BY <1>1 DEF Branch, Names, Early, Unary, Comparisons, Divisions

LEMMA BranchFacts ==
  ASSUME Shape
  PROVE  /\ \A x, y : Branch \in Comparisons => (InOrder(x, y) <=> Chain(Branch, x, y))
         /\ \A x : Branch \in Questions => Answer(x) = AnswerOf(Branch, x)
<1>1. PICK b : b = Branch
  OBVIOUS
<1>2. ASSUME b \in Comparisons, NEW x, NEW y
      PROVE  InOrder(x, y) <=> Chain(b, x, y)
  BY <1>1, <1>2 DEF InOrder, Chain, Comparisons
<1>3. ASSUME b \in Questions, NEW x
      PROVE  Answer(x) = AnswerOf(b, x)
  BY <1>1, <1>3 DEF Answer, AnswerOf, Questions, Unary
<1> QED
  BY <1>1, <1>2, <1>3

LEMMA ArgcFacts ==
  ASSUME ArgcOk
  PROVE  /\ Branch \in Divisions \cup {"cons", "eq?", "equal?"} => argc = 2
         /\ Branch \in Comparisons \cup {"="} => argc >= 2
         /\ Branch \in Unary => argc = 1
         /\ Branch = "-" => argc >= 1
<1>1. PICK b : b = Branch
  OBVIOUS
<1>2. PICK ok : /\ ok
                /\ ok = CASE b \in Comparisons \cup {"="} -> argc >= 2
                          [] b \in Divisions \cup {"cons", "eq?", "equal?"} -> argc = 2
                          [] b \in Unary -> argc = 1
                          [] b = "-" -> argc >= 1
                          [] OTHER -> TRUE
  BY <1>1, Zenon DEF ArgcOk
<1>3. CASE b \in Comparisons \cup {"="}
  <2>1. b \notin Divisions \cup {"cons", "eq?", "equal?"} /\ b \notin Unary /\ b # "-"
    BY <1>3 DEF Comparisons, Divisions, Unary
  <2>2. argc >= 2
    BY <1>2, <1>3, <2>1, Zenon
  <2> QED
    BY <1>1, <2>1, <2>2, Zenon
<1>4. CASE b \in Divisions \cup {"cons", "eq?", "equal?"}
  <2>1. b \notin Comparisons \cup {"="} /\ b \notin Unary /\ b # "-"
    BY <1>4 DEF Comparisons, Divisions, Unary
  <2>2. argc = 2
    BY <1>2, <1>4, <2>1, Zenon
  <2> QED
    BY <1>1, <2>1, <2>2, Zenon
<1>5. CASE b \in Unary
  <2>1. b \notin Comparisons \cup {"="} /\ b \notin Divisions \cup {"cons", "eq?", "equal?"}
        /\ b # "-"
    BY <1>5 DEF Comparisons, Divisions, Unary
  <2>2. argc = 1
    BY <1>2, <1>5, <2>1, Zenon
  <2> QED
    BY <1>1, <2>1, <2>2, Zenon
<1>6. CASE b = "-"
  <2>1. b \notin Comparisons \cup {"="} /\ b \notin Divisions \cup {"cons", "eq?", "equal?"}
        /\ b \notin Unary
    BY <1>6 DEF Comparisons, Divisions, Unary
  <2>2. argc >= 1
    BY <1>2, <1>6, <2>1, Zenon
  <2> QED
    BY <1>1, <2>1, <2>2, Zenon
<1> QED
  BY <1>1, <1>3, <1>4, <1>5, <1>6, Zenon

\* t is s and o.
Extends(t, s, o) ==
  Len(t) = Len(s) + 1 /\ (\A i \in 1..Len(s) : t[i] = s[i]) /\ t[Len(s) + 1] = o

LEMMA AppendExtends ==
  ASSUME NEW s \in Seq(Objects), NEW o \in Objects
  PROVE  /\ Append(s, o) \in Seq(Objects) /\ Extends(Append(s, o), s, o)
         /\ Len(s) \in Nat /\ (s = <<>> <=> Len(s) = 0)
BY DEF Extends

LEMMA NumbersNext ==
  ASSUME NEW s, NEW t, NEW o, Len(s) \in Nat, Extends(t, s, o), AllNumbers(s), NumberShape(o)
  PROVE  AllNumbers(t)
<1>1. \A i \in 1..(Len(s) + 1) : i \in 1..Len(s) \/ i = Len(s) + 1
  OBVIOUS
<1> QED
  BY <1>1 DEF Extends, AllNumbers

LEMMA LoopCalculate ==
  ASSUME NEW b \in Calculations, NEW s, NEW t, NEW o, NEW r, Len(s) \in Nat,
         Extends(t, s, o), Calculating(b, s, r), NumberShape(o)
  PROVE  Calculating(b, t, IF b = "-" /\ Len(s) = 0 THEN o ELSE Obj_operation(b, r, o))
<1>1. AllNumbers(s) /\ AllNumbers(t)
  BY NumbersNext DEF Calculating
<1>2. CASE b = "-" /\ Len(s) = 0
  <2>1. Len(t) = 1 /\ t[1] = o
    BY <1>2 DEF Extends
  <2>2. Calculated("-", 2, t, o)
    BY <2>1, CalculatedFirst
  <2> QED
    BY <1>1, <1>2, <2>2 DEF Calculating
<1>3. CASE ~(b = "-" /\ Len(s) = 0)
  <2>1. Calculated(b, 2, s, r)
    BY <1>3 DEF Calculating
  <2>2. \A i \in 1..Len(s) : NumberShape(s[i])
    BY <1>1 DEF AllNumbers
  <2>3. PICK n \in Nat : n = Len(s)
    OBVIOUS
  <2>4. /\ b \in {"+", "-", "*"} /\ (b = "-" => n > 0) /\ Len(t) = n + 1
        /\ (\A i \in 1..n : t[i] = s[i]) /\ t[n + 1] = o
    BY <1>3, <2>3 DEF Calculations, Extends
  <2>5. Calculated(b, 2, t, Obj_operation(b, r, o))
    BY <2>1, <2>2, <2>3, <2>4, CalculatedNext
  <2> QED
    BY <1>1, <1>3, <2>5 DEF Calculating
<1> QED
  BY <1>2, <1>3

LEMMA LoopDivide ==
  ASSUME NEW b, NEW s, NEW t, NEW o, NEW r, Len(s) \in {0, 1},
         Extends(t, s, o), Dividing(b, s, r), NumberShape(o),
         Len(s) = 1 => ~Traps(Cut(b), r, o)
  PROVE  Dividing(b, t, IF Len(s) = 0 THEN o ELSE Obj_operation(Cut(b), r, o))
<1>1. AllNumbers(s) /\ AllNumbers(t)
  BY NumbersNext DEF Dividing
<1>2. CASE Len(s) = 0
  <2>1. Len(t) = 1 /\ t[1] = o
    BY <1>2 DEF Extends
  <2> QED
    BY <1>1, <1>2, <2>1 DEF Dividing
<1>3. CASE Len(s) = 1
  <2>1. Len(t) = 2 /\ t[1] = s[1] /\ t[2] = o /\ r = s[1] /\ NumberShape(r)
    BY <1>1, <1>3 DEF Extends, Dividing, AllNumbers
  <2>2. Cut(b) \in {"/", "%"}
    BY DEF Cut
  <2>3. PICK c \in {"/", "%"} : c = Cut(b)
    BY <2>2
  <2>4. ~Traps(c, r, o)
    BY <1>3, <2>3
  <2>5. Divided(c, r, o, Obj_operation(c, r, o))
    <3>1. CASE AreInts(r, o)
      BY <2>1, <2>4, <3>1, DividedIntegers
    <3>2. CASE ~AreInts(r, o)
      BY <2>1, <3>2, DividedFloats
    <3> QED
      BY <3>1, <3>2
  <2> QED
    BY <1>1, <1>3, <2>1, <2>3, <2>5 DEF Dividing
<1> QED
  BY <1>2, <1>3

LEMMA LoopChain ==
  ASSUME NEW b, NEW s, NEW t, NEW o, NEW p, NEW r, NEW q, Len(s) \in Nat,
         Extends(t, s, o), Chaining(b, s, p, r), q \in Booleans,
         q.val <=> Len(s) = 0 \/ (r.val /\ Chain(b, p, o))
  PROVE  Chaining(b, t, o, q)
<1>1. Len(t) = Len(s) + 1 /\ t[Len(t)] = o
  BY DEF Extends
<1>2. CASE Len(s) = 0
  BY <1>1, <1>2 DEF Chaining
<1>3. CASE Len(s) > 0
  <2>1. PICK n \in Nat : n = Len(s) /\ n > 0
    BY <1>3
  <2>2. p = s[n] /\ (r.val <=> \A i \in 1..(n - 1) : Chain(b, s[i], s[i + 1]))
    BY <2>1 DEF Chaining
  <2>3. t[n] = p /\ t[n + 1] = o
    BY <2>1, <2>2 DEF Extends
  <2>4. \A i \in 1..(n - 1) : t[i] = s[i] /\ t[i + 1] = s[i + 1]
    BY <2>1 DEF Extends
  <2>5. (\A i \in 1..n : Chain(b, t[i], t[i + 1]))
          <=> (\A i \in 1..(n - 1) : Chain(b, t[i], t[i + 1])) /\ Chain(b, t[n], t[n + 1])
    <3>1. \A i \in 1..n : i \in 1..(n - 1) \/ i = n
      OBVIOUS
    <3>2. n \in 1..n /\ \A i \in 1..(n - 1) : i \in 1..n
      BY <2>1
    <3> QED
      BY <3>1, <3>2, Zenon
  <2>6. (\A i \in 1..(n - 1) : Chain(b, t[i], t[i + 1]))
          <=> (\A i \in 1..(n - 1) : Chain(b, s[i], s[i + 1]))
    BY <2>4, Zenon
  <2>7. q.val <=> \A i \in 1..n : Chain(b, t[i], t[i + 1])
    BY <2>1, <2>2, <2>3, <2>5, <2>6
  <2>8. Len(t) - 1 = n
    BY <1>1, <2>1
  <2> QED
    BY <1>1, <2>7, <2>8 DEF Chaining
<1> QED
  BY <1>2, <1>3

LEMMA LoopJoin ==
  ASSUME NEW b \in {"and", "or"}, NEW s, NEW t, NEW o, NEW r, Len(s) \in Nat,
         Extends(t, s, o), Joining(b, s, r),
         Len(s) > 0 => (s[Len(s)] = bool_obj(FALSE) <=> b = "or")
  PROVE  Joining(b, t, o)
<1>1. PICK n \in Nat : n = Len(s) /\ Len(t) = n + 1
  BY DEF Extends
<1>2. \A i \in 1..n : i \in 1..(n - 1) \/ (i = n /\ n > 0)
  OBVIOUS
<1>3. \A i \in 1..n : t[i] = s[i]
  BY <1>1 DEF Extends
<1>4. \A i \in 1..n : t[i] = bool_obj(FALSE) <=> b = "or"
  BY <1>1, <1>2, <1>3 DEF Joining
<1>5. t[Len(t)] = o /\ Len(t) # 0
  BY <1>1 DEF Extends
<1>6. o = IF Len(t) = 0 THEN bool_obj(b = "and") ELSE t[Len(t)]
  BY <1>5, Zenon
<1>7. \A i \in 1..(Len(t) - 1) : t[i] = bool_obj(FALSE) <=> b = "or"
  <2>1. Len(t) - 1 = n
    BY <1>1
  <2> QED
    BY <1>4, <2>1, Zenon
<1> QED
  BY <1>6, <1>7, Zenon DEF Joining

-----------------------------------------------------------------------------
(* The invariant *)

LEMMA StartOfLoop ==
  ASSUME NEW b, NEW s, s = <<>>, NEW p, NEW r,
         r = CASE b = "+" -> Integer(0) [] b = "*" -> Integer(1)
               [] b = "list" -> <<>> [] b = "or" -> bool_obj(FALSE)
               [] OTHER -> bool_obj(TRUE)
  PROVE  Loop(b, s, p, r)
<1>1. Len(s) = 0 /\ s \in Seq(Objects)
  OBVIOUS
<1>2. AllNumbers(s)
  BY <1>1 DEF AllNumbers
<1>3. b \in Calculations => Calculating(b, s, r)
  <2>1. CASE b = "+"
    <3>1. Calculated("+", 2, s, Integer(IF "+" = "*" THEN 1 ELSE 0))
      BY CalculatedNothing
    <3>2. r = Integer(IF "+" = "*" THEN 1 ELSE 0)
      BY <2>1
    <3> QED
      BY <1>2, <2>1, <3>1, <3>2, Zenon DEF Calculating
  <2>2. CASE b = "*"
    <3>1. Calculated("*", 2, s, Integer(IF "*" = "*" THEN 1 ELSE 0))
      BY CalculatedNothing
    <3>2. r = Integer(IF "*" = "*" THEN 1 ELSE 0)
      BY <2>2
    <3> QED
      BY <1>2, <2>2, <3>1, <3>2, Zenon DEF Calculating
  <2>3. CASE b = "-"
    BY <1>1, <1>2, <2>3 DEF Calculating
  <2> QED
    BY <2>1, <2>2, <2>3 DEF Calculations
<1>4. Dividing(b, s, r)
  BY <1>1, <1>2 DEF Dividing
<1>5. Chaining(b, s, p, r) /\ Asking(b, s, r)
  BY <1>1 DEF Chaining, Asking
<1>6. b = "list" => r \in Seq(Objects)
  <2>1. b = "list" => r = <<>>
    OBVIOUS
  <2> QED
    BY <2>1
<1>7. b \in {"and", "or"} => Joining(b, s, r)
  <2>1. CASE b = "and"
    <3>1. r = bool_obj(TRUE)
      BY <2>1
    <3>2. (b = "and") = TRUE
      BY <2>1
    <3>3. r = bool_obj(b = "and")
      BY <3>1, <3>2
    <3>4. r = IF Len(s) = 0 THEN bool_obj(b = "and") ELSE s[Len(s)]
      BY <1>1, <3>3, Zenon
    <3>5. \A i \in 1..(Len(s) - 1) : FALSE
      BY <1>1
    <3> QED
      BY <3>4, <3>5, Zenon DEF Joining
  <2>2. CASE b = "or"
    <3>1. r = bool_obj(FALSE)
      BY <2>2
    <3>2. (b = "and") = FALSE
      BY <2>2
    <3>3. r = bool_obj(b = "and")
      BY <3>1, <3>2
    <3>4. r = IF Len(s) = 0 THEN bool_obj(b = "and") ELSE s[Len(s)]
      BY <1>1, <3>3, Zenon
    <3>5. \A i \in 1..(Len(s) - 1) : FALSE
      BY <1>1
    <3> QED
      BY <3>4, <3>5, Zenon DEF Joining
  <2> QED
    BY <2>1, <2>2
<1>8. Len(s) # 2
  BY <1>1
<1> QED
  BY <1>1, <1>2, <1>3, <1>4, <1>5, <1>6, <1>7, <1>8, Zenon DEF Loop

LEMMA InvInit == Init => Inv
<1> SUFFICES ASSUME Init
             PROVE  Inv
  OBVIOUS
<1>0. ops = <<>> /\ Len(ops) = 0 /\ ops \in Seq(Objects)
  BY DEF Init
<1>1. Shape
  <2>1. argc \in Nat /\ Len(ops) <= argc /\ 0 \in 0 .. Len(ops)
    BY <1>0, Limits DEF Init
  <2> QED
    BY <1>0, <2>1 DEF Init, Shape
<1>2. Loop(Branch, ops, op1, result)
  <2>1. PICK b : b = Branch
    OBVIOUS
  <2>2. result = CASE b = "+" -> Integer(0) [] b = "*" -> Integer(1)
                   [] b = "list" -> <<>> [] b = "or" -> bool_obj(FALSE)
                   [] OTHER -> bool_obj(TRUE)
    BY <2>1 DEF Init
  <2>3. Loop(b, ops, op1, result)
    BY <1>0, <2>2, StartOfLoop
  <2> QED
    BY <2>1, <2>3
<1>3. Looping
  <2>1. ~(Len(ops) > 0)
    BY <1>0
  <2>2. ~(eval_error \/ failed # 0)
    BY DEF Init
  <2> QED
    BY <1>2, <2>1, <2>2 DEF Looping
<1> QED
  BY <1>1, <1>3 DEF Init, Inv, Answered

LEMMA CallUnchanged ==
  ASSUME UNCHANGED call
  PROVE  /\ name' = name /\ spelt_car' = spelt_car /\ argc' = argc
         /\ Branch' = Branch /\ (ArgcOk' <=> ArgcOk)
<1>1. name' = name /\ spelt_car' = spelt_car /\ argc' = argc
  BY DEF call
<1>2. Branch' = Branch
  BY <1>1 DEF Branch
<1>3. ArgcOk' <=> ArgcOk
  BY <1>1, <1>2 DEF ArgcOk
<1> QED
  BY <1>1, <1>2, <1>3

\* One operand more.
LEMMA TakesFacts ==
  ASSUME Shape, NEW o \in Objects, Evaluating, ops' = Append(ops, o), UNCHANGED call,
         failed' \in {failed, Len(ops')}, status' \in {"operands", "returned", "crashed"},
         eval_error' \in BOOLEAN
  PROVE  /\ Shape' /\ Extends(ops', ops, o) /\ Len(ops) \in Nat /\ (First <=> Len(ops) = 0)
         /\ Len(ops') = Len(ops) + 1 /\ Len(ops) < argc /\ ArgcOk' /\ Branch' = Branch
<1>1. /\ name' = name /\ spelt_car' = spelt_car /\ argc' = argc
      /\ Branch' = Branch /\ (ArgcOk' <=> ArgcOk)
  BY CallUnchanged
<1>2. ops' \in Seq(Objects) /\ Extends(ops', ops, o) /\ Len(ops) \in Nat /\ (First <=> Len(ops) = 0)
  BY AppendExtends DEF Shape, First
<1>3. Len(ops') = Len(ops) + 1
  BY <1>2 DEF Extends
<1>4. Len(ops) < argc /\ ArgcOk
  BY DEF Evaluating
<1>5. argc \in Nat /\ failed \in 0 .. Len(ops)
  BY Limits DEF Shape
<1>6. Len(ops') <= argc' /\ failed' \in 0 .. Len(ops')
  BY <1>1, <1>2, <1>3, <1>4, <1>5
<1>7. Shape'
  BY <1>1, <1>2, <1>6 DEF Shape
<1> QED
  BY <1>1, <1>2, <1>3, <1>4, <1>7

LEMMA GoesOn ==
  ASSUME Inv, NEW o \in Operands, Takes(o), GoOn, Loop(Branch, ops', op1', result')
  PROVE  Inv'
<1>1. status = "operands" /\ Evaluating /\ o \in Objects /\ Shape /\ Looping /\ value = Null
  BY DEF Takes, Evaluating, Inv, Objects
<1>2. ops' = Append(ops, o) /\ UNCHANGED call /\ failed' = failed
  BY DEF Takes
<1>3. status' = status /\ value' = value /\ eval_error' = eval_error
  BY DEF GoOn
<1>4. Shape' /\ Branch' = Branch /\ ArgcOk'
  BY <1>1, <1>2, <1>3, TakesFacts DEF Shape
<1>5. Branch # "unknown"
  BY <1>1 DEF Evaluating
<1>6. Looping'
  BY <1>1, <1>2, <1>3, <1>4, <1>5 DEF Looping
<1> QED
  BY <1>1, <1>3, <1>4, <1>6 DEF Inv, Answered

LEMMA Crashes ==
  ASSUME Inv, NEW o \in Operands, Takes(o), Crash, CrashExplained'
  PROVE  Inv'
<1>1. status = "operands" /\ Evaluating /\ o \in Objects /\ Shape /\ value = Null
  BY DEF Takes, Evaluating, Inv, Objects
<1>2. ops' = Append(ops, o) /\ UNCHANGED call /\ failed' = failed
  BY DEF Takes
<1>3. status' = "crashed" /\ value' = value /\ eval_error' = eval_error
  BY DEF Crash
<1>4. Shape'
  BY <1>1, <1>2, <1>3, TakesFacts DEF Shape
<1> QED
  BY <1>1, <1>3, <1>4 DEF Inv, Answered

LEMMA Groups ==
  ASSUME NEW b
  PROVE  /\ b \in Calculations => b \notin Divisions /\ b \notin Comparisons \cup Equalities
                                  /\ b \notin {"list", "cons", "and", "or"} /\ b \notin Questions
         /\ b \in Divisions => b \notin Comparisons \cup Equalities
                               /\ b \notin {"list", "cons", "and", "or"} /\ b \notin Questions
         /\ b \in Comparisons \cup Equalities =>
              b \notin {"list", "cons", "and", "or"} /\ b \notin Questions
         /\ b \in Comparisons => b \notin Equalities
         /\ b \in {"list", "cons", "and", "or"} => b \notin Questions
         /\ b \in {"load", "unknown"} =>
              b \notin Calculations \cup Divisions \cup Comparisons \cup Equalities
                       \cup {"list", "cons", "and", "or"} \cup Questions
BY DEF Calculations, Divisions, Comparisons, Equalities, Questions, Unary

LEMMA Taking ==
  ASSUME Inv, NEW o \in Operands, Takes(o)
  PROVE  /\ status = "operands" /\ Evaluating /\ Shape /\ Looping /\ value = Null
         /\ o \in Objects /\ TypeOk(o) /\ ops' = Append(ops, o) /\ UNCHANGED call
         /\ failed' = failed /\ Extends(ops', ops, o) /\ Len(ops) \in Nat
         /\ (First <=> Len(ops) = 0)
<1>1. /\ status = "operands" /\ Evaluating /\ Shape /\ Looping /\ value = Null
      /\ o \in Objects /\ TypeOk(o) /\ ops' = Append(ops, o) /\ UNCHANGED call
      /\ failed' = failed
  BY DEF Takes, Evaluating, Inv, Objects
<1>2. ops \in Seq(Objects)
  BY <1>1 DEF Shape
<1> QED
  BY <1>1, <1>2, AppendExtends DEF First

LEMMA TakenNumbers ==
  ASSUME NEW o \in Objects, TypeOk(o),
         Branch \in Calculations \cup Divisions \cup Comparisons
  PROVE  NumberShape(o)
<1>1. IsNumber(o)
  BY DEF TypeOk, Calculations, Divisions, Comparisons
<1> QED
  BY <1>1, ObjectFacts

LEMMA KeptByCalculate ==
  ASSUME Inv, NEW o \in Operands, Calculate(o)
  PROVE  Inv'
<1>1. Takes(o) /\ GoOn /\ Branch \in Calculations
  BY DEF Calculate, Calculations
<1>2. PICK b \in Calculations : b = Branch
  BY <1>1
<1>3. /\ Extends(ops', ops, o) /\ Len(ops) \in Nat /\ (First <=> Len(ops) = 0)
      /\ NumberShape(o) /\ Loop(b, ops, op1, result)
  BY <1>1, <1>2, Taking, TakenNumbers DEF Looping
<1>4. Calculating(b, ops, result)
  BY <1>3 DEF Loop
<1>5. result' = IF b = "-" /\ Len(ops) = 0 THEN o ELSE Obj_operation(b, result, o)
  BY <1>2, <1>3 DEF Calculate
<1>6. Calculating(b, ops', result')
  BY <1>3, <1>4, <1>5, LoopCalculate
<1>7. Loop(b, ops', op1', result')
  BY <1>6, Groups DEF Loop
<1> QED
  BY <1>1, <1>2, <1>7, GoesOn

LEMMA KeptByDivide ==
  ASSUME Inv, NEW o \in Operands, Divide(o)
  PROVE  Inv'
<1>1. Takes(o) /\ Branch \in Divisions
  BY DEF Divide
<1>2. PICK b \in Divisions : b = Branch
  BY <1>1
<1>3. /\ Extends(ops', ops, o) /\ Len(ops) \in Nat /\ (First <=> Len(ops) = 0)
      /\ NumberShape(o) /\ Loop(b, ops, op1, result) /\ Evaluating /\ Shape /\ Looping
      /\ failed' = failed /\ UNCHANGED call /\ o \in Objects
  BY <1>1, <1>2, Taking, TakenNumbers DEF Looping
<1>4. Len(ops) \in {0, 1}
  <2>1. Len(ops) < argc /\ ArgcOk
    BY <1>3 DEF Evaluating
  <2>2. argc = 2
    BY <1>2, <2>1, ArgcFacts
  <2>3. PICK n \in Nat : n = Len(ops) /\ n < 2
    BY <1>3, <2>1, <2>2
  <2>4. n \in {0, 1}
    BY <2>3
  <2> QED
    BY <2>3, <2>4, Zenon
<1>5. Dividing(b, ops, result)
  BY <1>3 DEF Loop
<1>6. Cut(b) = IF Branch = "remainder" THEN "%" ELSE "/"
  BY <1>2 DEF Cut
<1>7. CASE ~First /\ Traps(Cut(b), result, o)
  <2>1. Crash
    BY <1>6, <1>7 DEF Divide
  <2>2. Len(ops') = 2 /\ ops'[1] = result /\ ops'[2] = o
    <3>1. Len(ops) = 1 /\ result = ops[1]
      BY <1>3, <1>4, <1>5, <1>7 DEF Dividing
    <3> QED
      BY <1>3, <3>1 DEF Extends
  <2>3. AreInts(result, o) /\ (o.num = 0 \/ (result.num = MinInt /\ o.num = -1))
    BY <1>7 DEF Traps
  <2>4. AllInts'
    <3>1. ops' \in Seq(Objects)
      BY <1>1, Taking, AppendExtends DEF Shape
    <3>2. DOMAIN ops' = 1 .. 2
      BY <2>2, <3>1
    <3>3. \A i \in 1 .. 2 : i = 1 \/ i = 2
      OBVIOUS
    <3>4. \A i \in DOMAIN ops' : ops'[i].typ = "integer"
      BY <2>2, <2>3, <3>2, <3>3 DEF AreInts
    <3> QED
      BY <3>4 DEF AllInts
  <2>5. name' \in Divisions /\ failed' = 0
    <3>1. name = Branch
      BY <1>2, <1>3, BranchNames DEF Early
    <3>2. failed = 0
      BY <1>2, <1>3, Groups DEF Looping
    <3> QED
      BY <1>2, <1>3, <3>1, <3>2, CallUnchanged
  <2>6. CrashExplained'
    BY <2>2, <2>3, <2>4, <2>5 DEF CrashExplained
  <2> QED
    BY <1>1, <2>1, <2>6, Crashes
<1>8. CASE ~(~First /\ Traps(Cut(b), result, o))
  <2>1. GoOn /\ result' = IF Len(ops) = 0 THEN o ELSE Obj_operation(Cut(b), result, o)
    BY <1>3, <1>6, <1>8 DEF Divide
  <2>2. Len(ops) = 1 => ~Traps(Cut(b), result, o)
    BY <1>3, <1>8
  <2>3. Dividing(b, ops', result')
    BY <1>3, <1>4, <1>5, <2>1, <2>2, LoopDivide
  <2>4. Loop(b, ops', op1', result')
    BY <2>3, Groups DEF Loop
  <2> QED
    BY <1>1, <1>2, <2>1, <2>4, GoesOn
<1> QED
  BY <1>7, <1>8

LEMMA KeptByCompare ==
  ASSUME Inv, NEW o \in Operands, Compare(o)
  PROVE  Inv'
<1>1. Takes(o) /\ GoOn /\ Branch \in Comparisons
  BY DEF Compare
<1>2. PICK b \in Comparisons : b = Branch
  BY <1>1
<1>3. /\ Extends(ops', ops, o) /\ Len(ops) \in Nat /\ (First <=> Len(ops) = 0)
      /\ NumberShape(o) /\ Loop(b, ops, op1, result) /\ Shape
  BY <1>1, <1>2, Taking, TakenNumbers DEF Looping
<1>4. Chaining(b, ops, op1, result) /\ AllNumbers(ops)
  BY <1>3 DEF Loop
<1>5. InOrder(op1, o) <=> Chain(b, op1, o)
  BY <1>2, <1>3, BranchFacts
<1>6. result' = bool_obj(First \/ (result.val /\ InOrder(op1, o))) /\ op1' = o
  BY DEF Compare
<1>7. result' \in Booleans /\ (result'.val <=> First \/ (result.val /\ InOrder(op1, o)))
  BY <1>6 DEF Booleans, bool_obj
<1>8. result'.val <=> Len(ops) = 0 \/ (result.val /\ Chain(b, op1, o))
  BY <1>3, <1>5, <1>7
<1>9. Chaining(b, ops', op1', result')
  BY <1>3, <1>4, <1>6, <1>7, <1>8, LoopChain
<1>10. AllNumbers(ops')
  BY <1>3, <1>4, NumbersNext
<1>11. Loop(b, ops', op1', result')
  BY <1>9, <1>10, Groups DEF Loop
<1> QED
  BY <1>1, <1>2, <1>11, GoesOn

LEMMA EqCrashesNeedNull ==
  ASSUME NEW a, NEW b, EqCrashes(a, b)
  PROVE  a = Null \/ b = Null
BY DEF EqCrashes

LEMMA KeptByEquate ==
  ASSUME Inv, NEW o \in Operands, Equate(o)
  PROVE  Inv'
<1>1. Takes(o) /\ Branch \in Equalities /\ op1' = o
  BY DEF Equate, Equalities
<1>2. PICK b \in Equalities : b = Branch
  BY <1>1
<1>3. /\ Extends(ops', ops, o) /\ Len(ops) \in Nat /\ (First <=> Len(ops) = 0)
      /\ Loop(b, ops, op1, result) /\ Looping /\ Shape /\ failed' = failed
      /\ ops' = Append(ops, o) /\ o \in Objects
  BY <1>1, <1>2, Taking DEF Looping
<1>4. Chaining(b, ops, op1, result)
  BY <1>3 DEF Loop
<1>5. DEFINE Crashing == ~First /\ (IF Branch = "equal?" THEN EqualCrashes[op1][o]
                                                        ELSE EqCrashes(op1, o))
<1>6. CASE Crashing
  <2>1. Crash
    BY <1>6 DEF Equate
  <2>2. Len(ops) > 0 /\ op1 = ops[Len(ops)]
    BY <1>3, <1>4, <1>6 DEF Chaining
  <2>3. ops \in Seq(Objects) /\ Len(ops) \in 1..Len(ops)
    BY <1>3, <2>2 DEF Shape
  <2>4. op1 \in Objects
    BY <2>2, <2>3
  <2>5. HasNull[op1] \/ HasNull[o]
    <3>1. CASE Branch = "equal?"
      BY <1>3, <1>6, <2>4, <3>1, CrashesNeedNull
    <3>2. CASE Branch # "equal?"
      <4>1. op1 = Null \/ o = Null
        BY <1>6, <3>2, EqCrashesNeedNull
      <4> QED
        BY <1>3, <2>4, <4>1, HasNullEquation
    <3> QED
      BY <3>1, <3>2
  <2>6. PICK n \in Nat : n = Len(ops) /\ n > 0
    BY <1>3, <2>2
  <2>7. ops'[n] = op1 /\ ops'[n + 1] = o /\ Len(ops') = n + 1
    BY <1>3, <2>2, <2>6 DEF Extends
  <2>8. ops' \in Seq(Objects)
    BY <1>3, <2>3, AppendExtends
  <2>9. n \in DOMAIN ops' /\ n + 1 \in DOMAIN ops'
    BY <2>6, <2>7, <2>8
  <2>10. \E i \in DOMAIN ops' : HasNull[ops'[i]]
    BY <2>5, <2>7, <2>9
  <2>11. failed' = 0
    BY <1>2, <1>3, Groups DEF Looping
  <2>12. CrashExplained'
    BY <2>10, <2>11 DEF CrashExplained
  <2> QED
    BY <1>1, <2>1, <2>12, Crashes
<1>7. CASE ~Crashing
  <2>1. GoOn /\ result' = bool_obj(First \/ (/\ result.val
                                            /\ IF Branch = "equal?" THEN equal_obj[op1][o]
                                                                    ELSE eq_obj(op1, o)))
    BY <1>7 DEF Equate
  <2>2. Chain(b, op1, o) <=> IF Branch = "equal?" THEN equal_obj[op1][o] ELSE eq_obj(op1, o)
    BY <1>2 DEF Chain, Equalities
  <2>3. /\ result' \in Booleans
        /\ result'.val <=> First \/ (/\ result.val
                                     /\ IF Branch = "equal?" THEN equal_obj[op1][o]
                                                             ELSE eq_obj(op1, o))
    BY <2>1 DEF Booleans, bool_obj
  <2>4. result'.val <=> Len(ops) = 0 \/ (result.val /\ Chain(b, op1, o))
    BY <1>3, <2>2, <2>3
  <2>5. Chaining(b, ops', op1', result')
    BY <1>1, <1>3, <1>4, <2>3, <2>4, LoopChain
  <2>6. Loop(b, ops', op1', result')
    BY <1>2, <2>5, Groups DEF Loop
  <2> QED
    BY <1>1, <1>2, <2>1, <2>6, GoesOn
<1> QED
  BY <1>6, <1>7

LEMMA KeptByCollect ==
  ASSUME Inv, NEW o \in Operands, Collect(o)
  PROVE  Inv'
<1>1. Takes(o) /\ GoOn /\ Branch = "list" /\ result' = Append(result, o)
  BY DEF Collect
<1>2. PICK b : b = Branch /\ b = "list"
  BY <1>1
<1>3. Loop(b, ops, op1, result) /\ o \in Objects
  BY <1>1, <1>2, Taking DEF Looping
<1>4. result \in Seq(Objects)
  BY <1>2, <1>3 DEF Loop
<1>5. result' \in Seq(Objects)
  BY <1>1, <1>3, <1>4
<1>6. Loop(b, ops', op1', result')
  BY <1>2, <1>5, Groups DEF Loop
<1> QED
  BY <1>1, <1>2, <1>6, GoesOn

LEMMA KeptByCombine ==
  ASSUME Inv, NEW o \in Operands, Combine(o)
  PROVE  Inv'
<1>1. Takes(o) /\ GoOn /\ Branch = "cons"
  BY DEF Combine
<1>2. PICK b : b = Branch /\ b = "cons"
  BY <1>1
<1>3. Extends(ops', ops, o) /\ Len(ops) \in Nat /\ (First <=> Len(ops) = 0)
  BY <1>1, Taking
<1>4. Len(ops') = 2 => ~First
  BY <1>3 DEF Extends
<1>5. ~First => result' = Pair(op1, o, "new")
  BY DEF Combine
<1>6. Len(ops') = 2 => result'.typ = "pair"
  BY <1>4, <1>5 DEF Pair
<1>7. Loop(b, ops', op1', result')
  BY <1>2, <1>6, Groups DEF Loop
<1> QED
  BY <1>1, <1>2, <1>7, GoesOn

LEMMA KeptByJoin ==
  ASSUME Inv, NEW o \in Operands, Join(o)
  PROVE  Inv'
<1>1. Takes(o) /\ GoOn /\ Branch \in {"and", "or"} /\ result' = o
  BY DEF Join
<1>2. PICK b \in {"and", "or"} : b = Branch
  BY <1>1
<1>3. /\ Extends(ops', ops, o) /\ Len(ops) \in Nat /\ (First <=> Len(ops) = 0)
      /\ Loop(b, ops, op1, result) /\ Evaluating
  BY <1>1, <1>2, Taking DEF Looping
<1>4. Joining(b, ops, result)
  BY <1>3 DEF Loop
<1>5. Len(ops) > 0 => (ops[Len(ops)] = bool_obj(FALSE) <=> b = "or")
  <2>1. ~Decided
    BY <1>3 DEF Evaluating
  <2>2. Len(ops) > 0 => ops # <<>>
    BY <1>3 DEF First
  <2> QED
    BY <1>2, <2>1, <2>2 DEF Decided, Last
<1>6. Joining(b, ops', o)
  BY <1>3, <1>4, <1>5, LoopJoin
<1>7. Loop(b, ops', op1', result')
  BY <1>1, <1>2, <1>6, Groups DEF Loop
<1> QED
  BY <1>1, <1>2, <1>7, GoesOn

LEMMA TakenFits ==
  ASSUME NEW o, TypeOk(o), Branch \in Questions
  PROVE  Fits(Branch, o)
<1>1. PICK b : b = Branch
  OBVIOUS
<1>2. /\ b = "sqrt" => IsNumber(o)
      /\ b \in {"car", "cdr"} => o.typ = "pair"
      /\ b \in {"even?", "odd?"} => o.typ = "integer"
  BY <1>1 DEF TypeOk, Comparisons, Divisions
<1> QED
  BY <1>1, <1>2 DEF Fits

LEMMA KeptByAsk ==
  ASSUME Inv, NEW o \in Operands, Ask(o)
  PROVE  Inv'
<1>1. Takes(o) /\ GoOn /\ Branch \in Questions /\ result' = Answer(o)
  BY DEF Ask, Questions
<1>2. PICK b \in Questions : b = Branch
  BY <1>1
<1>3. /\ Extends(ops', ops, o) /\ Len(ops) \in Nat /\ Evaluating /\ Shape /\ TypeOk(o)
  BY <1>1, Taking
<1>4. Len(ops) = 0
  <2>1. Len(ops) < argc /\ ArgcOk
    BY <1>3 DEF Evaluating
  <2>2. argc = 1
    BY <1>2, <2>1, ArgcFacts DEF Questions
  <2>3. PICK n \in Nat : n = Len(ops) /\ n < 1
    BY <1>3, <2>1, <2>2
  <2>4. n = 0
    BY <2>3
  <2> QED
    BY <2>3, <2>4, Zenon
<1>5. ops'[1] = o
  BY <1>3, <1>4 DEF Extends
<1>6. result' = AnswerOf(b, o)
  BY <1>1, <1>2, <1>3, BranchFacts
<1>7. Fits(b, o)
  BY <1>2, <1>3, TakenFits
<1>8. Asking(b, ops', result')
  BY <1>5, <1>6, <1>7 DEF Asking
<1>9. Loop(b, ops', op1', result')
  BY <1>2, <1>8, Groups DEF Loop
<1> QED
  BY <1>1, <1>2, <1>9, GoesOn

LEMMA KeptByError ==
  ASSUME Shape', status' = "returned", value' = Null, eval_error' = TRUE
  PROVE  Inv'
BY DEF Inv, Answered

LEMMA ShapeUnchanged ==
  ASSUME Shape, UNCHANGED call, ops' = ops, failed' = failed,
         status' \in {"operands", "returned", "crashed"}, eval_error' \in BOOLEAN
  PROVE  Shape'
<1>1. name' = name /\ spelt_car' = spelt_car /\ argc' = argc
  BY CallUnchanged
<1> QED
  BY <1>1 DEF Shape

LEMMA KeptByLoad ==
  ASSUME Inv, NEW o \in Operands, Load(o)
  PROVE  Inv'
<1>1. Takes(o) /\ Branch = "load"
  BY DEF Load
<1>2. /\ Shape /\ Evaluating /\ Looping /\ o \in Objects /\ ops' = Append(ops, o)
      /\ UNCHANGED call /\ failed' = failed
  BY <1>1, Taking
<1>3. eval_error = FALSE
  BY <1>1, <1>2 DEF Looping, Shape
<1>4. /\ status' = "returned" /\ eval_error' \in BOOLEAN
      /\ value' \in {Null, bool_obj(TRUE)} /\ (eval_error' => value' = Null)
  BY <1>3 DEF Load, Return
<1>5. Shape' /\ Branch' = Branch
  BY <1>2, <1>4, TakesFacts
<1>6. ~Answered'
  BY <1>1, <1>5 DEF Answered
<1> QED
  BY <1>4, <1>5, <1>6 DEF Inv

LEMMA KeptByWrongType ==
  ASSUME Inv, NEW o \in Operands, WrongType(o)
  PROVE  Inv'
<1>1. /\ Shape /\ Evaluating /\ Looping /\ o \in Objects /\ ops' = Append(ops, o)
      /\ UNCHANGED call /\ failed' = failed /\ status = "operands" /\ value = Null
  BY DEF WrongType, Evaluating, Inv, Objects, call
<1>2. CASE o = Null
  <2>1. Crash
    BY <1>2 DEF WrongType
  <2>2. status' = "crashed" /\ value' = Null /\ eval_error' \in BOOLEAN
    BY <1>1, <2>1 DEF Crash, Shape
  <2>3. Shape' /\ Extends(ops', ops, o) /\ Len(ops) \in Nat
    BY <1>1, <2>2, TakesFacts
  <2>4. Len(ops) + 1 \in DOMAIN ops' /\ ops'[Len(ops) + 1] = o
    BY <2>3 DEF Shape, Extends
  <2>5. HasNull[o]
    BY <1>1, <1>2, HasNullEquation
  <2>6. \E i \in DOMAIN ops' : HasNull[ops'[i]]
    BY <2>4, <2>5
  <2>7. Branch # "cons"
    BY DEF WrongType, TypeOk, Comparisons, Divisions
  <2>8. failed' = 0
    BY <1>1, <2>7 DEF Looping
  <2>9. CrashExplained'
    BY <2>6, <2>8 DEF CrashExplained
  <2> QED
    BY <2>2, <2>3, <2>9 DEF Inv, Answered
<1>3. CASE o # Null
  <2>1. status' = "returned" /\ value' = Null /\ eval_error' = TRUE
    BY <1>3 DEF WrongType, ReturnError, Return
  <2>2. Shape'
    BY <1>1, <2>1, TakesFacts
  <2> QED
    BY <2>1, <2>2, KeptByError
<1> QED
  BY <1>2, <1>3

LEMMA KeptByOperandFails ==
  ASSUME Inv, OperandFails
  PROVE  Inv'
<1>1. /\ Shape /\ Evaluating /\ Looping /\ Null \in Objects /\ ops' = Append(ops, Null)
      /\ UNCHANGED call /\ failed' = Len(ops') /\ status = "operands" /\ value = Null
      /\ op1' = op1 /\ result' = result
  BY DEF OperandFails, Evaluating, Inv, Objects, call
<1>2. /\ status' \in {"operands", "returned", "crashed"} /\ eval_error' \in BOOLEAN
  <2>1. eval_error \in BOOLEAN /\ status = "operands"
    BY <1>1 DEF Shape
  <2> QED
    BY <2>1 DEF OperandFails, Crash, ReturnError, Return
<1>3. /\ Shape' /\ Extends(ops', ops, Null) /\ Len(ops) \in Nat /\ (First <=> Len(ops) = 0)
      /\ Len(ops') = Len(ops) + 1 /\ ArgcOk' /\ Branch' = Branch
  BY <1>1, <1>2, TakesFacts
<1>4. CASE Branch = "cons" /\ ops = <<>>
  <2>1. status' = status /\ value' = value /\ eval_error' = TRUE
    BY <1>4 DEF OperandFails
  <2>2. Len(ops') = 1
    BY <1>3, <1>4 DEF First
  <2>3. PICK b : b = Branch /\ b = "cons"
    BY <1>4
  <2>4. Loop(b, ops', op1', result')
    BY <2>2, <2>3, Groups DEF Loop
  <2>5. Looping'
    BY <1>3, <2>3, <2>4 DEF Looping
  <2> QED
    BY <1>1, <1>3, <2>1, <2>5 DEF Inv, Answered
<1>5. CASE Branch = "remainder" /\ Len(ops) = 1
  <2>1. Crash
    BY <1>5 DEF OperandFails
  <2>2. status' = "crashed" /\ value' = Null
    BY <1>1, <2>1 DEF Crash
  <2>3. name' = "remainder"
    <3>1. Branch \in Early
      BY <1>5 DEF Early, Divisions
    <3>2. name = Branch
      BY <1>1, <3>1, BranchNames
    <3> QED
      BY <1>1, <1>5, <3>2, CallUnchanged
  <2>4. failed' = 2
    BY <1>1, <1>3, <1>5
  <2>5. CrashExplained'
    BY <2>3, <2>4 DEF CrashExplained
  <2> QED
    BY <1>3, <2>2, <2>5 DEF Inv, Answered
<1>6. CASE ~(Branch = "cons" /\ ops = <<>>) /\ ~(Branch = "remainder" /\ Len(ops) = 1)
  <2>1. status' = "returned" /\ value' = Null /\ eval_error' = TRUE
    BY <1>6 DEF OperandFails, ReturnError, Return
  <2> QED
    BY <1>3, <2>1, KeptByError
<1> QED
  BY <1>4, <1>5, <1>6

LEMMA KeptByWrongArgc ==
  ASSUME Inv, WrongArgc
  PROVE  Inv'
<1>1. /\ Shape /\ UNCHANGED call /\ ops' = ops /\ failed' = failed
      /\ status' = "returned" /\ value' = Null /\ eval_error' = TRUE
  BY DEF Inv, WrongArgc, ReturnError, Return, call
<1>2. Shape'
  BY <1>1, ShapeUnchanged
<1> QED
  BY <1>1, <1>2, KeptByError

LEMMA KeptByUnknown ==
  ASSUME Inv, Unknown
  PROVE  Inv'
<1>1. /\ Shape /\ UNCHANGED call /\ ops' = ops /\ failed' = failed
      /\ status' = "returned" /\ value' = Null /\ eval_error' = eval_error
      /\ Branch = "unknown"
  BY DEF Inv, Unknown, Return, call
<1>2. eval_error \in BOOLEAN
  BY <1>1 DEF Shape
<1>3. Shape' /\ Branch' = Branch
  BY <1>1, <1>2, ShapeUnchanged, CallUnchanged
<1> QED
  BY <1>1, <1>3 DEF Inv, Answered

LEMMA KeptByFinish ==
  ASSUME Inv, Finish
  PROVE  Inv'
<1>1. /\ Shape /\ Looping /\ UNCHANGED call /\ ops' = ops /\ failed' = failed
      /\ status' = "returned" /\ eval_error' = eval_error /\ op1' = op1 /\ result' = result
      /\ ArgcOk /\ Branch # "unknown" /\ (Len(ops) = argc \/ Decided)
  BY DEF Inv, Finish, Return, call
<1>2. value' = CASE eval_error -> Null
                 [] Branch = "-" /\ argc = 1 -> Obj_operation("-", Integer(0), result)
                 [] Branch = "list" -> ListOf(result)
                 [] OTHER -> result
  BY DEF Finish, Return
<1>3. eval_error \in BOOLEAN
  BY <1>1 DEF Shape
<1>4. /\ Shape' /\ Branch' = Branch /\ argc' = argc /\ (ArgcOk' <=> ArgcOk)
  BY <1>1, <1>3, ShapeUnchanged, CallUnchanged
<1>5. CASE eval_error
  <2>1. eval_error = TRUE /\ eval_error' = TRUE
    BY <1>1, <1>3, <1>5
  <2>2. Branch = "cons"
    BY <1>1, <1>5 DEF Looping
  <2>3. value' = Null
    BY <1>2, <2>1, <2>2
  <2> QED
    BY <1>1, <1>4, <2>1, <2>3, KeptByError
<1>6. CASE ~eval_error
  <2>1. Branch # "load"
    <3>1. SUFFICES ASSUME Branch = "load"
                   PROVE  FALSE
      OBVIOUS
    <3>2. PICK b : b = Branch /\ b = "load"
      BY <3>1
    <3>3. Len(ops) = 0
      BY <1>1, <3>2 DEF Looping, Loop
    <3>4. argc = 1
      BY <1>1, <3>1, ArgcFacts DEF Unary
    <3>5. ~Decided
      BY <3>1 DEF Decided
    <3> QED
      BY <1>1, <3>3, <3>4, <3>5
  <2>2. Answered'
    BY <1>1, <1>4, <1>6, <2>1 DEF Answered
  <2>3. value' = CASE Branch = "-" /\ argc = 1 -> Obj_operation("-", Integer(0), result)
                   [] Branch = "list" -> ListOf(result)
                   [] OTHER -> result
    BY <1>2, <1>6
  <2>4. Looping' /\ (Decided' <=> Decided)
    BY <1>1, <1>4 DEF Looping, Decided
  <2>5. Finished'
    BY <1>1, <1>4, <2>3, <2>4 DEF Finished
  <2> QED
    BY <1>1, <1>4, <1>6, <2>2, <2>5 DEF Inv
<1> QED
  BY <1>5, <1>6

LEMMA KeptByStutter ==
  ASSUME Inv, UNCHANGED vars
  PROVE  Inv'
<1>1. /\ UNCHANGED call /\ ops' = ops /\ failed' = failed /\ op1' = op1 /\ result' = result
      /\ status' = status /\ value' = value /\ eval_error' = eval_error
      /\ name' = name /\ argc' = argc /\ spelt_car' = spelt_car
  BY DEF vars, call
<1>2. Branch' = Branch /\ argc' = argc /\ (ArgcOk' <=> ArgcOk) /\ Shape /\ Shape'
  <2>1. Branch' = Branch /\ argc' = argc /\ (ArgcOk' <=> ArgcOk)
    BY <1>1, CallUnchanged
  <2>2. Shape
    BY DEF Inv
  <2>3. Shape'
    BY <1>1, <2>2, ShapeUnchanged DEF Shape
  <2> QED
    BY <2>1, <2>2, <2>3
<1>3. (Looping' <=> Looping) /\ (Decided' <=> Decided) /\ (Answered' <=> Answered)
  BY <1>1, <1>2 DEF Looping, Decided, Answered
<1>4. (Finished' <=> Finished) /\ (CrashExplained' <=> CrashExplained)
  BY <1>1, <1>2, <1>3 DEF Finished, CrashExplained, AllInts
<1> QED
  BY <1>1, <1>2, <1>3, <1>4 DEF Inv

LEMMA InvNext == Inv /\ [Next]_vars => Inv'
<1> SUFFICES ASSUME Inv, [Next]_vars
             PROVE  Inv'
  OBVIOUS
<1>1. CASE WrongArgc
  BY <1>1, KeptByWrongArgc
<1>2. CASE Unknown
  BY <1>2, KeptByUnknown
<1>3. CASE OperandFails
  BY <1>3, KeptByOperandFails
<1>4. ASSUME NEW o \in Operands, Operand(o)
      PROVE  Inv'
  BY <1>4, KeptByWrongType, KeptByCalculate, KeptByDivide, KeptByCompare, KeptByEquate,
     KeptByCollect, KeptByCombine, KeptByJoin, KeptByAsk, KeptByLoad DEF Operand
<1>5. CASE Finish
  BY <1>5, KeptByFinish
<1>6. CASE UNCHANGED vars
  BY <1>6, KeptByStutter
<1> QED
  BY <1>1, <1>2, <1>3, <1>4, <1>5, <1>6 DEF Next

\* What the loops know of the operands, in every state of a call.
THEOREM Invariant == Spec => []Inv
BY InvInit, InvNext, PTL DEF Spec

-----------------------------------------------------------------------------
(* What is answered *)

LEMMA AnsweredFacts ==
  ASSUME Inv, Answered
  PROVE  /\ Shape /\ Looping /\ Loop(Branch, ops, op1, result) /\ ArgcOk
         /\ Len(ops) = argc \/ Decided
         /\ Branch \in Names \ {"load"}
         /\ value = CASE Branch = "-" /\ argc = 1 -> Obj_operation("-", Integer(0), result)
                      [] Branch = "list" -> ListOf(result)
                      [] OTHER -> result
<1>1. Shape /\ Finished
  BY DEF Inv
<1>2. Branch \in Names \ {"load"}
  BY <1>1, BranchNames DEF Answered
<1> QED
  BY <1>1, <1>2 DEF Finished, Looping

LEMMA AnsweredArgc ==
  ASSUME Inv, Answered
  PROVE  /\ Branch \notin {"and", "or"} => Len(ops) = argc
         /\ Branch \in Divisions \cup {"cons", "eq?", "equal?"} => argc = 2
         /\ Branch \in Comparisons \cup {"="} => argc >= 2
         /\ Branch \in Questions => argc = 1
         /\ Branch = "-" => argc >= 1
         /\ argc \in Nat /\ Len(ops) \in Nat /\ ops \in Seq(Objects) /\ DOMAIN ops = 1..Len(ops)
<1>1. ArgcOk /\ (Len(ops) = argc \/ Decided) /\ Shape
  BY AnsweredFacts
<1>2. Branch \notin {"and", "or"} => Len(ops) = argc
  BY <1>1 DEF Decided
<1>3. argc \in Nat /\ Len(ops) \in Nat /\ ops \in Seq(Objects) /\ DOMAIN ops = 1..Len(ops)
  BY <1>1, Limits DEF Shape
<1>4. Branch \in Questions => Branch \in Unary
  BY DEF Questions
<1> QED
  BY <1>1, <1>2, <1>3, <1>4, ArgcFacts, Zenon

LEMMA OneFirst ==
  ASSUME NEW b, b # "-", NEW s, NEW r, Calculated(b, 2, s, r)
  PROVE  Calculated(b, 1, s, r)
<1>1. ASSUME NEW n
      PROVE  NumOf(b, 1, s, n) = NumOf(b, 2, s, n)
  <2>1. \A i \in 1..n : Signed(b, 1, i) = Signed(b, 2, i)
    BY DEF Signed
  <2>2. [i \in 1 .. n |-> Signed(b, 1, i) * s[i].num * Others(s, i, n)]
          = [i \in 1 .. n |-> Signed(b, 2, i) * s[i].num * Others(s, i, n)]
    BY <2>1
  <2> QED
    BY <2>2, Zenon DEF NumOf
<1>2. InRange(b, 1, s) <=> InRange(b, 2, s)
  BY <1>1 DEF InRange
<1> QED
  BY <1>1, <1>2 DEF Calculated

LEMMA AnsweredCalculation ==
  ASSUME Inv, Answered, Branch \in Calculations
  PROVE  /\ AllNumbers(ops) /\ Len(ops) = argc
         /\ Calculated(Branch, IF argc = 1 THEN 1 ELSE 2, ops, value)
<1>1. PICK b \in Calculations : b = Branch
  OBVIOUS
<1>2. Calculating(b, ops, result)
  BY <1>1, AnsweredFacts DEF Loop
<1>3. Len(ops) = argc /\ argc \in Nat /\ (b = "-" => argc >= 1)
  BY <1>1, AnsweredArgc DEF Calculations
<1>4. AllNumbers(ops) /\ Calculated(b, 2, ops, result)
  BY <1>2, <1>3 DEF Calculating
<1>5. value = IF b = "-" /\ argc = 1 THEN Obj_operation("-", Integer(0), result) ELSE result
  BY <1>1, AnsweredFacts DEF Calculations
<1>6. CASE b = "-" /\ argc = 1
  <2>1. NumberShape(ops[1])
    BY <1>3, <1>4, <1>6 DEF AllNumbers
  <2>2. Calculated("-", 2, ops, result)
    BY <1>4, <1>6
  <2>3. Calculated("-", 1, ops, value)
    BY <1>3, <1>5, <1>6, <2>1, <2>2, CalculatedNegative
  <2> QED
    BY <1>1, <1>3, <1>4, <1>6, <2>3
<1>7. CASE b # "-" /\ argc = 1
  <2>1. Calculated(b, 1, ops, result)
    BY <1>4, <1>7, OneFirst
  <2> QED
    BY <1>1, <1>3, <1>4, <1>5, <1>7, <2>1
<1>8. CASE argc # 1
  BY <1>1, <1>3, <1>4, <1>5, <1>8
<1> QED
  BY <1>6, <1>7, <1>8

LEMMA AnsweredResult ==
  ASSUME Inv, Answered, Branch \notin {"-", "list"}
  PROVE  value = result
BY AnsweredFacts

LEMMA AnsweredDivision ==
  ASSUME Inv, Answered, Branch \in Divisions
  PROVE  /\ Len(ops) = 2 /\ argc = 2 /\ NumberShape(ops[1]) /\ NumberShape(ops[2])
         /\ Divided(Cut(Branch), ops[1], ops[2], value)
<1>1. PICK b \in Divisions : b = Branch
  OBVIOUS
<1>2. Dividing(b, ops, result)
  BY <1>1, AnsweredFacts DEF Loop
<1>3. Len(ops) = argc /\ argc = 2 /\ value = result
  BY <1>1, AnsweredArgc, AnsweredResult DEF Divisions
<1> QED
  BY <1>1, <1>2, <1>3 DEF Dividing, AllNumbers

LEMMA AnsweredChain ==
  ASSUME Inv, Answered, Branch \in Comparisons \cup Equalities
  PROVE  /\ Len(ops) = argc /\ argc >= 2 /\ value \in Booleans
         /\ value.val <=> \A i \in 1..(Len(ops) - 1) : Chain(Branch, ops[i], ops[i + 1])
         /\ Branch \in Comparisons => AllNumbers(ops)
<1>1. PICK b \in Comparisons \cup Equalities : b = Branch
  OBVIOUS
<1>2. Chaining(b, ops, op1, result) /\ (b \in Comparisons => AllNumbers(ops))
  BY <1>1, AnsweredFacts DEF Loop
<1>3. Len(ops) = argc /\ argc >= 2 /\ value = result
  BY <1>1, AnsweredArgc, AnsweredResult DEF Comparisons, Equalities
<1> QED
  BY <1>1, <1>2, <1>3 DEF Chaining

LEMMA AnsweredJunction ==
  ASSUME Inv, Answered, Branch \in {"and", "or"}
  PROVE  Joining(Branch, ops, value) /\ (Len(ops) = argc \/ Decided)
<1>1. PICK b \in {"and", "or"} : b = Branch
  OBVIOUS
<1>2. Joining(b, ops, result)
  BY <1>1, AnsweredFacts DEF Loop
<1>3. value = result
  BY <1>1, AnsweredResult
<1> QED
  BY <1>1, <1>2, <1>3, AnsweredFacts

LEMMA AnsweredQuestion ==
  ASSUME Inv, Answered, Branch \in Questions
  PROVE  /\ Len(ops) = 1 /\ ops[1] \in Objects
         /\ value = AnswerOf(Branch, ops[1]) /\ Fits(Branch, ops[1])
<1>1. PICK b \in Questions : b = Branch
  OBVIOUS
<1>2. Asking(b, ops, result)
  BY <1>1, AnsweredFacts DEF Loop
<1>3. Len(ops) = argc /\ argc = 1 /\ value = result
  BY <1>1, AnsweredArgc, AnsweredResult, Groups DEF Questions, Unary
<1>4. ops[1] \in Objects
  BY <1>3, AnsweredArgc
<1> QED
  BY <1>1, <1>2, <1>3, <1>4 DEF Asking

LEMMA AnsweredPair ==
  ASSUME Inv, Answered, Branch \in {"cons", "list"}
  PROVE  value.typ = "pair"
<1>1. PICK b \in {"cons", "list"} : b = Branch
  OBVIOUS
<1>2. Loop(b, ops, op1, result)
  BY <1>1, AnsweredFacts
<1>3. CASE b = "cons"
  <2>1. Len(ops) = 2 /\ value = result
    BY <1>1, <1>3, AnsweredArgc, AnsweredResult
  <2> QED
    BY <1>2, <1>3, <2>1 DEF Loop
<1>4. CASE b = "list"
  <2>1. result \in Seq(Objects) /\ value = ListOf(result)
    BY <1>1, <1>2, <1>4, AnsweredFacts DEF Loop
  <2> QED
    BY <2>1, ListOfIsPair
<1> QED
  BY <1>3, <1>4

LEMMA AllBranches ==
  ASSUME Inv, Answered
  PROVE  Branch \in Calculations \cup Divisions \cup Comparisons \cup Equalities
                    \cup {"cons", "list", "and", "or"} \cup Questions
<1>1. Branch \in Names \ {"load"}
  BY AnsweredFacts
<1> QED
  BY <1>1 DEF Names, Early, Unary, Comparisons, Divisions, Calculations, Equalities, Questions

-----------------------------------------------------------------------------
(* TypeOK and FailuresExplained *)

SmallInteger(o) == o.typ = "integer" => o.num \in MinInt .. MaxInt

LEMMA SmallConstants ==
  /\ SmallInteger(Null) /\ \A o \in Booleans : SmallInteger(o) /\ o # Null
BY DEF SmallInteger, Null, Booleans, bool_obj

LEMMA SmallObjects ==
  ASSUME NEW o \in Objects
  PROVE  SmallInteger(o)
BY ObjectFacts DEF SmallInteger

LEMMA NumbersAreSmall ==
  ASSUME NEW o, NumberShape(o)
  PROVE  SmallInteger(o) /\ IsNumber(o) /\ o # Null
BY DEF SmallInteger, NumberShape, IsNumber, Null

LEMMA RootFacts ==
  ASSUME NEW o
  PROVE  /\ SmallInteger(sqrt(o)) /\ sqrt(o) # Null
         /\ sqrt(o).typ = "integer" => sqrt(o).num \in Nat /\ sqrt(o).num * sqrt(o).num = o.num
<1> DEFINE roots == {r \in 0 .. MaxCast : r * r = o.num}
<1>1. CASE IsNaN(o) \/ o.num < 0
  <2>1. sqrt(o) = Float(0, 0)
    BY <1>1 DEF sqrt
  <2>2. sqrt(o).typ = "float"
    BY <2>1 DEF Float
  <2> QED
    BY <2>2 DEF SmallInteger, Null
<1>2. CASE ~(IsNaN(o) \/ o.num < 0) /\ o.typ = "integer" /\ roots # {}
  <2>1. PICK r : r = CHOOSE x \in roots : TRUE
    OBVIOUS
  <2>2. sqrt(o) = Integer(r)
    BY <1>2, <2>1 DEF sqrt
  <2>3. r \in roots
    BY <1>2, <2>1
  <2>4. r \in Nat /\ r * r = o.num /\ r \in MinInt .. MaxInt
    BY <2>3, Limits
  <2>5. sqrt(o).typ = "integer" /\ sqrt(o).num = r
    BY <2>2 DEF Integer
  <2> QED
    BY <2>4, <2>5 DEF SmallInteger, Null
<1>3. CASE ~(IsNaN(o) \/ o.num < 0) /\ ~(o.typ = "integer" /\ roots # {})
  <2>1. sqrt(o) = [typ |-> "float", root_of |-> o]
    BY <1>3, Zenon DEF sqrt
  <2>2. sqrt(o).typ = "float"
    BY <2>1
  <2> QED
    BY <2>2 DEF SmallInteger, Null
<1> QED
  BY <1>1, <1>2, <1>3

LEMMA PartsFacts ==
  ASSUME NEW o \in Objects, o.typ = "pair", NEW p \in {o.car, o.cdr}
  PROVE  p \in Objects /\ (p = Null => o = nillist \/ HasNull[o])
<1>1. CASE o = nillist
  <2>1. p = Null
    BY <1>1 DEF nillist, Pair
  <2> QED
    BY <1>1, <2>1, ObjectFacts
<1>2. CASE o # nillist
  <2>1. o \in Pairs
    BY <1>2 DEF Pairs
  <2>2. o.car \in Objects /\ o.cdr \in Objects
    BY <2>1, ObjectFacts
  <2>3. p = Null => HasNull[p]
    BY <2>2, HasNullEquation
  <2>4. p = Null => HasNull[o]
    BY <2>1, <2>2, <2>3, HasNullEquation
  <2> QED
    BY <2>2, <2>4
<1> QED
  BY <1>1, <1>2

LEMMA AnswerFacts ==
  ASSUME NEW b \in Questions, NEW o \in Objects, Fits(b, o), NEW v, v = AnswerOf(b, o)
  PROVE  SmallInteger(v) /\ (v = Null => b \in {"car", "cdr"} /\ (o = nillist \/ HasNull[o]))
<1>1. CASE b \in {"car", "cdr"}
  <2>1. o.typ = "pair" /\ v \in {o.car, o.cdr}
    BY <1>1 DEF Fits, AnswerOf
  <2> QED
    BY <1>1, <2>1, PartsFacts, SmallObjects
<1>2. CASE b = "sqrt"
  <2>1. v = sqrt(o)
    BY <1>2 DEF AnswerOf
  <2> QED
    BY <2>1, RootFacts
<1>3. CASE b \notin {"car", "cdr", "sqrt"}
  <2>1. \E c : v = bool_obj(c)
    BY <1>3 DEF AnswerOf, Questions, Unary
  <2>2. v.typ = "boolean"
    BY <2>1 DEF bool_obj
  <2> QED
    BY <2>2 DEF SmallInteger, Null
<1> QED
  BY <1>1, <1>2, <1>3

LEMMA AnsweredValue ==
  ASSUME Inv, Answered
  PROVE  /\ SmallInteger(value)
         /\ Branch \in Calculations \cup Divisions => IsNumber(value)
         /\ value = Null =>
              \/ Branch \in {"car", "cdr"} /\ (ops[1] = nillist \/ HasNull[ops[1]])
              \/ Branch \in {"and", "or"} /\ Last(ops) = Null
<1>1. CASE Branch \in Calculations
  <2>1. NumberShape(value)
    BY <1>1, AnsweredCalculation DEF Calculated
  <2> QED
    BY <2>1, NumbersAreSmall
<1>2. CASE Branch \in Divisions
  <2>1. NumberShape(value)
    BY <1>2, AnsweredDivision DEF Divided
  <2> QED
    BY <2>1, NumbersAreSmall
<1>3. CASE Branch \in Comparisons \cup Equalities
  <2>1. value \in Booleans
    BY <1>3, AnsweredChain
  <2>2. Branch \notin Calculations \cup Divisions
    BY <1>3, Groups
  <2> QED
    BY <2>1, <2>2, SmallConstants
<1>4. CASE Branch \in {"cons", "list"}
  <2>1. value.typ = "pair"
    BY <1>4, AnsweredPair
  <2>2. Branch \notin Calculations \cup Divisions
    BY <1>4, Groups
  <2> QED
    BY <2>1, <2>2 DEF SmallInteger, Null
<1>5. CASE Branch \in {"and", "or"}
  <2>1. Branch \notin Calculations \cup Divisions
    BY <1>5, Groups
  <2>2. value = IF Len(ops) = 0 THEN bool_obj(Branch = "and") ELSE ops[Len(ops)]
    BY <1>5, AnsweredJunction DEF Joining
  <2>3. Len(ops) \in Nat /\ ops \in Seq(Objects)
    BY AnsweredArgc
  <2>4. CASE Len(ops) = 0
    <3>1. value = bool_obj(Branch = "and")
      BY <2>2, <2>4, Zenon
    <3>2. value.typ = "boolean"
      BY <3>1, Zenon DEF bool_obj
    <3> QED
      BY <2>1, <3>2 DEF SmallInteger, Null
  <2>5. CASE Len(ops) # 0
    <3>1. value = ops[Len(ops)]
      BY <2>2, <2>5, Zenon
    <3>2. value \in Objects
      BY <2>3, <2>5, <3>1
    <3> QED
      BY <1>5, <2>1, <3>1, <3>2, SmallObjects DEF Last
  <2> QED
    BY <2>4, <2>5
<1>6. CASE Branch \in Questions
  <2>1. Branch \notin Calculations \cup Divisions
    BY <1>6, Groups
  <2> QED
    BY <1>6, <2>1, AnsweredQuestion, AnswerFacts
<1> QED
  BY <1>1, <1>2, <1>3, <1>4, <1>5, <1>6, AllBranches

LEMMA TypeFromInv ==
  ASSUME Inv
  PROVE  TypeOK
<1>1. Shape
  BY DEF Inv
<1>2. Range(ops) \subseteq Objects
  BY <1>1 DEF Shape, Range
<1>3. CASE Answered
  <2>1. SmallInteger(value) /\ (Branch \in Calculations \cup Divisions => IsNumber(value))
    BY <1>3, AnsweredValue
  <2> QED
    BY <1>1, <1>2, <2>1 DEF TypeOK, Shape, SmallInteger, Calculations
<1>4. CASE ~Answered
  <2>1. ~(status = "returned" /\ ~eval_error /\ Branch \in Calculations \cup Divisions)
    BY <1>4, Groups DEF Answered
  <2>2. value \in {Null, bool_obj(TRUE)}
    BY <1>1, <1>4 DEF Inv, Shape
  <2>3. SmallInteger(value)
    BY <2>2, SmallConstants DEF Booleans
  <2> QED
    BY <1>1, <1>2, <2>1, <2>3 DEF TypeOK, Shape, SmallInteger, Calculations
<1> QED
  BY <1>3, <1>4

LEMMA FailuresFromInv ==
  ASSUME Inv
  PROVE  FailuresExplained
<1>1. status = "crashed" => CrashExplained
  BY DEF Inv
<1>2. status = "returned" /\ eval_error => value = Null
  BY DEF Inv
<1>3. ASSUME status = "returned", value = Null, ~eval_error, Branch \notin {"load", "unknown"}
      PROVE  \/ Branch \in {"car", "cdr"} /\ (ops[1] = nillist \/ HasNull[ops[1]])
             \/ Branch \in {"and", "or"} /\ Last(ops) = Null
  BY <1>3, AnsweredValue DEF Answered
<1> QED
  BY <1>1, <1>2, <1>3 DEF FailuresExplained, CrashExplained

\* The operands are objects, and the result of arithmetic is a number that, when
\* it is an integer, fits in 64 bits.
THEOREM TypeCorrect == Spec => []TypeOK
<1>1. Inv => TypeOK
  BY TypeFromInv
<1> QED
  BY <1>1, Invariant, PTL

\* A crash comes from NULL or from a division of integers that has no result,
\* and NULL without an error only from the calls that pass it on.
THEOREM FailuresAreExplained == Spec => []FailuresExplained
<1>1. Inv => FailuresExplained
  BY FailuresFromInv
<1> QED
  BY <1>1, Invariant, PTL

-----------------------------------------------------------------------------
(* ArithmeticRight *)

LEMMA AnswersAreAnswered ==
  ASSUME NEW names, Answers(names), names \cap {"load", "unknown"} = {}
  PROVE  Answered /\ Branch \in names
BY DEF Answers, Answered

LEMMA CalculationFromInv ==
  ASSUME Inv
  PROVE  CalculationRight
<1> SUFFICES ASSUME Answers({"+", "-", "*"})
             PROVE  IF AllInts THEN value = Integer(Wrap(Num(argc)))
                    ELSE /\ value.typ = "float"
                         /\ AnyNaN => IsNaN(value)
                         /\ ~AllFinite => value.den = 0
                         /\ AllFinite /\ NoOverflow =>
                              value.den > 0 /\ value.num * Den(argc) = Num(argc) * value.den
  BY DEF CalculationRight
<1>1. Answered /\ Branch \in Calculations
  BY AnswersAreAnswered DEF Calculations
<1>2. PICK first : first = IF argc = 1 THEN 1 ELSE 2
  OBVIOUS
<1>3. /\ AllNumbers(ops) /\ Len(ops) = argc /\ Calculated(Branch, first, ops, value)
      /\ argc \in Nat /\ DOMAIN ops = 1..argc
  <2>1. AllNumbers(ops) /\ Len(ops) = argc /\ Calculated(Branch, first, ops, value)
    BY <1>1, <1>2, AnsweredCalculation
  <2> QED
    BY <1>1, <2>1, AnsweredArgc
<1>4. \A n \in Nat : Num(n) = NumOf(Branch, first, ops, n) /\ Den(n) = DenOf(ops, n)
  BY <1>2, NumIsNumOf
<1>5. /\ AllInts <=> AreIntegers(ops, Len(ops))
      /\ AnyNaN <=> \E i \in 1..Len(ops) : IsNaN(ops[i])
      /\ AllFinite <=> \A i \in 1..Len(ops) : ops[i].den > 0
  BY <1>3 DEF AllInts, AreIntegers, AnyNaN, AllFinite
<1>6. ~AllFinite => \E i \in 1..Len(ops) : ops[i].den = 0
  <2>1. \A i \in 1..Len(ops) : ops[i].den \in Nat
    BY <1>3 DEF AllNumbers, NumberShape, Quotient
  <2> QED
    BY <1>5, <2>1
<1>7. NoOverflow => InRange(Branch, first, ops)
  <2>1. \A n \in 1..Len(ops) : n \in DOMAIN ops /\ n \in Nat
    BY <1>3
  <2> QED
    BY <1>4, <2>1 DEF NoOverflow, InRange, AreIntegers
<1>8. Num(argc) = NumOf(Branch, first, ops, Len(ops)) /\ Den(argc) = DenOf(ops, Len(ops))
  BY <1>3, <1>4
<1>9. CASE AllInts
  <2>1. value = Integer(Wrap(NumOf(Branch, first, ops, Len(ops))))
    BY <1>3, <1>5, <1>9, Zenon DEF Calculated
  <2> QED
    BY <1>8, <1>9, <2>1
<1>10. CASE ~AllInts
  <2>1. /\ value.typ = "float"
        /\ AnyNaN => IsNaN(value)
        /\ ~AllFinite => value.den = 0
    BY <1>3, <1>5, <1>6, <1>10 DEF Calculated
  <2>2. AllFinite /\ NoOverflow =>
          value.den > 0 /\ value.num * Den(argc) = Num(argc) * value.den
    BY <1>3, <1>5, <1>7, <1>8 DEF Calculated
  <2> QED
    BY <1>10, <2>1, <2>2
<1> QED
  BY <1>9, <1>10

LEMMA DivisionFromInv ==
  ASSUME Inv
  PROVE  DivisionRight
<1> DEFINE a == ops[1]
           b == ops[2]
           n == a.num * b.den
           m == b.num * a.den
           remainder == Branch = "remainder"
<1> SUFFICES ASSUME Answers(Divisions)
             PROVE  IF AllInts THEN value.typ = "integer"
                      /\ IsRemainder(IF remainder THEN value.num ELSE n - value.num * m, n, m)
                    ELSE value.typ = "float" /\
                      CASE a.den = 0 \/ IsNaN(b) -> value.den = 0
                        [] a.den > 0 /\ b.den = 0 /\ b.num # 0 ->
                             value.den > 0 /\ value.num * a.den
                                                = (IF remainder THEN a.num ELSE 0) * value.den
                        [] a.den > 0 /\ b.den > 0 /\ b.num = 0 ->
                             value.den = 0 /\ value.num = (IF remainder THEN 0 ELSE Sign(a.num))
                        [] a.den > 0 /\ b.den > 0 /\ b.num # 0 ->
                             /\ value.den > 0
                             /\ IF remainder
                                THEN IsRemainder(value.num * a.den * b.den, n * value.den,
                                                 m * value.den)
                                ELSE value.num * m = n * value.den
  BY DEF DivisionRight
<1>1. Answered /\ Branch \in Divisions
  BY AnswersAreAnswered DEF Divisions
<1>2. /\ Len(ops) = 2 /\ NumberShape(a) /\ NumberShape(b)
      /\ Divided(Cut(Branch), a, b, value) /\ DOMAIN ops = 1..Len(ops)
  BY <1>1, AnsweredDivision, AnsweredArgc
<1>3. AllInts <=> AreInts(a, b)
  <2>1. DOMAIN ops = 1..2 /\ \A i \in 1..2 : i = 1 \/ i = 2
    BY <1>2
  <2> QED
    BY <2>1 DEF AllInts, AreInts
<1>4. (Cut(Branch) = "%") <=> remainder
  BY DEF Cut
<1>5. a.den \in Nat /\ b.den \in Nat
  BY <1>2 DEF NumberShape, Quotient
<1>6. CASE AllInts
  BY <1>2, <1>3, <1>4, <1>6 DEF Divided
<1>7. CASE ~AllInts
  <2>1. /\ value.typ = "float"
        /\ a.den = 0 \/ IsNaN(b) => value.den = 0
        /\ a.den > 0 /\ b.den = 0 /\ b.num # 0 =>
             value.den > 0 /\ value.num * a.den = (IF remainder THEN a.num ELSE 0) * value.den
        /\ a.den > 0 /\ b.den > 0 /\ b.num = 0 =>
             value.den = 0 /\ value.num = (IF remainder THEN 0 ELSE Sign(a.num))
        /\ a.den > 0 /\ b.den > 0 /\ b.num # 0 =>
             /\ value.den > 0
             /\ IF remainder
                THEN IsRemainder(value.num * a.den * b.den, n * value.den, m * value.den)
                ELSE value.num * m = n * value.den
    BY <1>2, <1>3, <1>4, <1>7 DEF Divided
  <2>2. IsNaN(b) => b.den = 0 /\ b.num = 0
    BY DEF IsNaN
  <2>3. /\ (a.den = 0 \/ IsNaN(b)) \/ (a.den > 0 /\ b.den = 0 /\ b.num # 0)
           \/ (a.den > 0 /\ b.den > 0 /\ b.num = 0) \/ (a.den > 0 /\ b.den > 0 /\ b.num # 0)
    BY <1>5 DEF IsNaN
  <2> HIDE DEF n, m, remainder, a, b
  <2> QED
    BY <1>7, <2>1, <2>2, <2>3
<1> QED
  BY <1>6, <1>7

LEMMA Halves ==
  ASSUME NEW x \in MinInt .. MaxInt
  PROVE  (x % 2 = 0) <=> \E k \in MinInt .. MaxInt : x = 2 * k
<1>1. x \in Int /\ MinInt \in Int /\ MaxInt \in Nat /\ MinInt = -MaxInt - 1
  BY Limits
<1>2. (x % 2) \in 0..1 /\ (x \div 2) \in Int /\ x = 2 * (x \div 2) + (x % 2)
  BY <1>1
<1>3. ASSUME x % 2 = 0
      PROVE  \E k \in MinInt .. MaxInt : x = 2 * k
  <2>1. x = 2 * (x \div 2)
    BY <1>2, <1>3
  <2>2. (x \div 2) \in MinInt .. MaxInt
    BY <1>1, <1>2, <2>1
  <2> QED
    BY <2>1, <2>2
<1>4. ASSUME NEW k \in MinInt .. MaxInt, x = 2 * k
      PROVE  x % 2 = 0
  BY <1>1, <1>4
<1> QED
  BY <1>3, <1>4

LEMMA OtherNumbersFromInv ==
  ASSUME Inv
  PROVE  OtherNumbersRight
<1>1. ASSUME Answers({"even?"})
      PROVE  value.val <=> \E k \in MinInt .. MaxInt : ops[1].num = 2 * k
  <2>1. Answered /\ Branch = "even?"
    BY <1>1, AnswersAreAnswered
  <2>2. /\ value = AnswerOf("even?", ops[1]) /\ Fits("even?", ops[1]) /\ ops[1] \in Objects
    BY <2>1, AnsweredQuestion DEF Questions, Unary
  <2>3. value = bool_obj(ops[1].num % 2 = 0)
    BY <2>2 DEF AnswerOf
  <2>4. value.val = (ops[1].num % 2 = 0)
    BY <2>3, Zenon DEF bool_obj
  <2>5. ops[1].num \in MinInt .. MaxInt
    BY <2>2, ObjectFacts DEF Fits
  <2> QED
    BY <2>4, <2>5, Halves
<1>2. ASSUME Answers({"odd?"})
      PROVE  value.val <=> ops[1].num \notin {2 * k : k \in MinInt .. MaxInt}
  <2>1. Answered /\ Branch = "odd?"
    BY <1>2, AnswersAreAnswered
  <2>2. /\ value = AnswerOf("odd?", ops[1]) /\ Fits("odd?", ops[1]) /\ ops[1] \in Objects
    BY <2>1, AnsweredQuestion DEF Questions, Unary
  <2>3. value = bool_obj(ops[1].num % 2 # 0)
    BY <2>2 DEF AnswerOf
  <2>4. value.val = (ops[1].num % 2 # 0)
    BY <2>3, Zenon DEF bool_obj
  <2>5. ops[1].num \in MinInt .. MaxInt
    BY <2>2, ObjectFacts DEF Fits
  <2> QED
    BY <2>4, <2>5, Halves
<1>3. ASSUME Answers({"sqrt"}), value.typ = "integer"
      PROVE  value.num \in Nat /\ value.num * value.num = ops[1].num
  <2>1. Answered /\ Branch = "sqrt"
    BY <1>3, AnswersAreAnswered
  <2>2. value = AnswerOf("sqrt", ops[1])
    BY <2>1, AnsweredQuestion DEF Questions, Unary
  <2>3. value = sqrt(ops[1])
    BY <2>2 DEF AnswerOf
  <2> QED
    BY <1>3, <2>3, RootFacts
<1> QED
  BY <1>1, <1>2, <1>3 DEF OtherNumbersRight

\* Numbers are calculated right, for every number of operands.
THEOREM ArithmeticIsRight == Spec => []ArithmeticRight
<1>1. Inv => ArithmeticRight
  BY CalculationFromInv, DivisionFromInv, OtherNumbersFromInv DEF ArithmeticRight
<1> QED
  BY <1>1, Invariant, PTL

-----------------------------------------------------------------------------
(* TruthRight *)

\* What the comparison b says of numbers that are not NaN.
Ordered(b, x, y) ==
  CASE b = "<" -> Less(x, y)
    [] b = ">" -> Less(y, x)
    [] b = "<=" -> ~Less(y, x)
    [] b = ">=" -> ~Less(x, y)

LEMMA ChainIsOrdered ==
  ASSUME NEW b \in Comparisons, NEW x, NEW y
  PROVE  Chain(b, x, y) <=> ~IsNaN(x) /\ ~IsNaN(y) /\ Ordered(b, x, y)
BY DEF Chain, Ordered, Comparisons, Obj_lt_operation, Obj_le_operation

Proper(x) == x.num \in Int /\ x.den \in Nat /\ (x.den = 0 => x.num \in {-1, 1})

LEMMA Product3 ==
  ASSUME NEW x \in Int, NEW y \in Int, NEW k \in Nat, x <= y
  PROVE  x * k <= y * k
<1>1. PICK d \in Nat : y = x + d
  <2>1. y - x \in Nat /\ y = x + (y - x)
    OBVIOUS
  <2> QED
    BY <2>1
<1>2. y * k = x * k + d * k
  BY <1>1, SMTT(30)
<1>3. d * k \in Nat /\ x * k \in Int
  BY <1>1, PositiveTimes
<1> QED
  BY <1>2, <1>3

LEMMA CancelPositive ==
  ASSUME NEW x \in Int, NEW y \in Int, NEW k \in Nat, k > 0, x * k <= y * k
  PROVE  x <= y
<1> SUFFICES ASSUME y < x
             PROVE  FALSE
  OBVIOUS
<1>1. y + 1 <= x /\ y + 1 \in Int
  OBVIOUS
<1>2. (y + 1) * k <= x * k
  BY <1>1, Product3
<1>3. (y + 1) * k = y * k + k
  BY SMTT(30)
<1>4. x * k \in Int /\ y * k \in Int
  OBVIOUS
<1> QED
  BY <1>2, <1>3, <1>4

\* "Not less" is transitive.
LEMMA NotLessTransitive ==
  ASSUME NEW x, NEW y, NEW z, Proper(x), Proper(y), Proper(z), ~Less(y, x), ~Less(z, y)
  PROVE  ~Less(z, x)
<1>1. PICK a \in Int, b \in Int, c \in Int, p \in Nat, q \in Nat, r \in Nat :
        a = x.num /\ b = y.num /\ c = z.num /\ p = x.den /\ q = y.den /\ r = z.den
  BY DEF Proper
<1>2. (p = 0 => a \in {-1, 1}) /\ (q = 0 => b \in {-1, 1}) /\ (r = 0 => c \in {-1, 1})
  BY <1>1 DEF Proper
<1>3. IF q = 0 /\ p = 0 THEN a <= b ELSE a * q <= b * p
  BY <1>1 DEF Less
<1>4. IF r = 0 /\ q = 0 THEN b <= c ELSE b * r <= c * q
  BY <1>1 DEF Less
<1>5. IF r = 0 /\ p = 0 THEN a <= c ELSE a * r <= c * p
  <2>1. CASE p = 0
    BY <1>2, <1>3, <1>4, <2>1, SMTT(30)
  <2>2. CASE r = 0
    BY <1>2, <1>3, <1>4, <2>2, SMTT(30)
  <2>3. CASE q = 0 /\ p # 0 /\ r # 0
    BY <1>2, <1>3, <1>4, <2>3, SMTT(30)
  <2>4. CASE p > 0 /\ q > 0 /\ r > 0
    <3>1. a * q <= b * p /\ b * r <= c * q
      BY <1>3, <1>4, <2>4
    <3>2. a * q \in Int /\ b * p \in Int /\ b * r \in Int /\ c * q \in Int /\ a * r \in Int
          /\ c * p \in Int
      OBVIOUS
    <3>3. (a * q) * r <= (b * p) * r /\ (b * r) * p <= (c * q) * p
      BY <3>1, <3>2, Product3
    <3>4. (a * q) * r = (a * r) * q /\ (b * p) * r = (b * r) * p /\ (c * q) * p = (c * p) * q
      BY SMTT(30)
    <3>5. (b * r) * p \in Int
      BY <3>2
    <3>6. (a * r) * q \in Int /\ (c * p) * q \in Int
      BY <3>2
    <3>7. (a * r) * q <= (c * p) * q
      BY <3>3, <3>4, <3>5, <3>6
    <3>8. a * r <= c * p
      BY <2>4, <3>2, <3>7, CancelPositive
    <3> QED
      BY <2>4, <3>8
  <2> QED
    BY <2>1, <2>2, <2>3, <2>4
<1>6. a * r \in Int /\ c * p \in Int
  OBVIOUS
<1> QED
  BY <1>1, <1>5, <1>6 DEF Less

LEMMA LessAsymmetric ==
  ASSUME NEW x, NEW y, Proper(x), Proper(y), Less(x, y)
  PROVE  ~Less(y, x)
<1>1. PICK a \in Int, b \in Int, p \in Int, q \in Int :
        a = x.num * y.den /\ b = y.num * x.den /\ p = x.num /\ q = y.num
  BY DEF Proper
<1> QED
  BY <1>1 DEF Less

LEMMA OrderedTransitive ==
  ASSUME NEW b \in Comparisons, NEW x, NEW y, NEW z, Proper(x), Proper(y), Proper(z),
         Ordered(b, x, y), Ordered(b, y, z)
  PROVE  Ordered(b, x, z)
<1>1. CASE b = "<"
  <2>1. Less(x, y) /\ Less(y, z)
    BY <1>1 DEF Ordered
  <2>2. ~Less(y, x)
    BY <2>1, LessAsymmetric
  <2>3. Less(x, z)
    <3>1. SUFFICES ASSUME ~Less(x, z)
                   PROVE  FALSE
      OBVIOUS
    <3>2. ~Less(y, z)
      BY <2>2, <3>1, NotLessTransitive
    <3> QED
      BY <2>1, <3>2
  <2> QED
    BY <1>1, <2>3 DEF Ordered
<1>2. CASE b = ">"
  <2>1. Less(y, x) /\ Less(z, y)
    BY <1>2 DEF Ordered
  <2>2. ~Less(x, y)
    BY <2>1, LessAsymmetric
  <2>3. Less(z, x)
    <3>1. SUFFICES ASSUME ~Less(z, x)
                   PROVE  FALSE
      OBVIOUS
    <3>2. ~Less(z, y)
      BY <2>2, <3>1, NotLessTransitive
    <3> QED
      BY <2>1, <3>2
  <2> QED
    BY <1>2, <2>3 DEF Ordered
<1>3. CASE b = "<="
  <2>1. ~Less(y, x) /\ ~Less(z, y)
    BY <1>3 DEF Ordered
  <2>2. ~Less(z, x)
    BY <2>1, NotLessTransitive
  <2> QED
    BY <1>3, <2>2 DEF Ordered
<1>4. CASE b = ">="
  <2>1. ~Less(x, y) /\ ~Less(y, z)
    BY <1>4 DEF Ordered
  <2>2. ~Less(x, z)
    BY <2>1, NotLessTransitive
  <2> QED
    BY <1>4, <2>2 DEF Ordered
<1> QED
  BY <1>1, <1>2, <1>3, <1>4 DEF Comparisons

\* What holds of neighbours holds of any two in their order.
LEMMA NeighboursSuffice ==
  ASSUME NEW b \in Comparisons, NEW s, NEW n \in Nat,
         \A i \in 1..n : Proper(s[i]),
         \A i \in 1..(n - 1) : Ordered(b, s[i], s[i + 1])
  PROVE  \A j \in 1..n : \A i \in 1..(j - 1) : Ordered(b, s[i], s[j])
<1> DEFINE T == {k \in 0..n : \A i \in 1..(k - 1) : Ordered(b, s[i], s[k])}
<1>1. 0 \in T
  OBVIOUS
<1>2. ASSUME NEW k \in 0..(n - 1), k \in T
      PROVE  k + 1 \in T
  <2>1. k + 1 \in 0..n /\ k + 1 \in 1..n
    OBVIOUS
  <2>2. ASSUME NEW i \in 1..k
        PROVE  Ordered(b, s[i], s[k + 1])
    <3>1. k \in 1..(n - 1) /\ i \in 1..n /\ k \in 1..n
      OBVIOUS
    <3>2. Ordered(b, s[k], s[k + 1])
      BY <3>1
    <3>3. CASE i = k
      BY <3>2, <3>3
    <3>4. CASE i # k
      <4>1. i \in 1..(k - 1)
        BY <3>4
      <4>2. Ordered(b, s[i], s[k])
        BY <1>2, <4>1
      <4>3. Proper(s[i]) /\ Proper(s[k]) /\ Proper(s[k + 1])
        BY <2>1, <3>1
      <4> QED
        BY <3>2, <4>2, <4>3, OrderedTransitive
    <3> QED
      BY <3>3, <3>4
  <2>3. (k + 1) - 1 = k
    OBVIOUS
  <2> QED
    BY <2>1, <2>2, <2>3
<1>3. \A k \in 0..n : k \in T
  <2> HIDE DEF T
  <2> QED
    BY <1>1, <1>2, AllUpTo
<1> QED
  BY <1>3

LEMMA ChainsOrder ==
  ASSUME NEW b \in Comparisons, NEW s, NEW n \in Nat, n >= 2,
         \A i \in 1..n : Quotient(s[i])
  PROVE  (\A i \in 1..(n - 1) : Chain(b, s[i], s[i + 1]))
           <=> /\ \A i \in 1..n : ~IsNaN(s[i])
               /\ \A j \in 1..n : \A i \in 1..(j - 1) : Ordered(b, s[i], s[j])
<1>1. ASSUME \A i \in 1..(n - 1) : Chain(b, s[i], s[i + 1])
      PROVE  /\ \A i \in 1..n : ~IsNaN(s[i])
             /\ \A j \in 1..n : \A i \in 1..(j - 1) : Ordered(b, s[i], s[j])
  <2>1. \A i \in 1..(n - 1) : ~IsNaN(s[i]) /\ ~IsNaN(s[i + 1]) /\ Ordered(b, s[i], s[i + 1])
    BY <1>1, ChainIsOrdered
  <2>2. ASSUME NEW i \in 1..n
        PROVE  ~IsNaN(s[i])
    <3>1. CASE i = n
      <4>1. n - 1 \in 1..(n - 1) /\ (n - 1) + 1 = n
        OBVIOUS
      <4>2. ~IsNaN(s[(n - 1) + 1])
        BY <2>1, <4>1
      <4> QED
        BY <3>1, <4>1, <4>2
    <3>2. CASE i # n
      <4>1. i \in 1..(n - 1)
        BY <3>2
      <4> QED
        BY <2>1, <4>1
    <3> QED
      BY <3>1, <3>2
  <2>3. \A i \in 1..n : Proper(s[i])
    BY <2>2 DEF Proper, Quotient, IsNaN
  <2>4. \A i \in 1..(n - 1) : Ordered(b, s[i], s[i + 1])
    BY <2>1
  <2>5. \A j \in 1..n : \A i \in 1..(j - 1) : Ordered(b, s[i], s[j])
    BY <2>3, <2>4, NeighboursSuffice
  <2> QED
    BY <2>2, <2>5
<1>2. ASSUME \A i \in 1..n : ~IsNaN(s[i]),
             \A j \in 1..n : \A i \in 1..(j - 1) : Ordered(b, s[i], s[j])
      PROVE  \A i \in 1..(n - 1) : Chain(b, s[i], s[i + 1])
  <2>1. ASSUME NEW i \in 1..(n - 1)
        PROVE  Chain(b, s[i], s[i + 1])
    <3>1. i \in 1..n /\ i + 1 \in 1..n /\ i \in 1..((i + 1) - 1)
      OBVIOUS
    <3>2. Ordered(b, s[i], s[i + 1]) /\ ~IsNaN(s[i]) /\ ~IsNaN(s[i + 1])
      BY <1>2, <3>1
    <3> QED
      BY <3>2, ChainIsOrdered
  <2> QED
    BY <2>1
<1> QED
  BY <1>1, <1>2

LEMMA ChainsFromInv ==
  ASSUME Inv
  PROVE  ChainsRight
<1> SUFFICES ASSUME Answers(Comparisons)
             PROVE  value.val <=>
                      /\ ~AnyNaN
                      /\ CASE Branch = "<" -> Pairwise(Less)
                           [] Branch = ">" -> Pairwise(LAMBDA a, b : Less(b, a))
                           [] Branch = "<=" -> Pairwise(LAMBDA a, b : ~Less(b, a))
                           [] Branch = ">=" -> Pairwise(LAMBDA a, b : ~Less(a, b))
  BY DEF ChainsRight
<1>1. Answered /\ Branch \in Comparisons
  BY AnswersAreAnswered DEF Comparisons
<1>2. PICK b \in Comparisons : b = Branch
  BY <1>1
<1>3. PICK n \in Nat : n = Len(ops) /\ n >= 2
  BY <1>1, AnsweredChain, AnsweredArgc
<1>4. /\ value.val <=> \A i \in 1..(n - 1) : Chain(b, ops[i], ops[i + 1])
      /\ AllNumbers(ops)
  BY <1>1, <1>2, <1>3, AnsweredChain
<1>5. DOMAIN ops = 1..n
  BY <1>1, <1>3, AnsweredArgc
<1>6. \A i \in 1..n : Quotient(ops[i])
  BY <1>3, <1>4 DEF AllNumbers, NumberShape
<1>7. (\A i \in 1..(n - 1) : Chain(b, ops[i], ops[i + 1]))
        <=> /\ \A i \in 1..n : ~IsNaN(ops[i])
            /\ \A j \in 1..n : \A i \in 1..(j - 1) : Ordered(b, ops[i], ops[j])
  BY <1>3, <1>6, ChainsOrder
<1>8. AnyNaN <=> \E i \in 1..n : IsNaN(ops[i])
  BY <1>5 DEF AnyNaN
<1>9. value.val <=> ~AnyNaN /\ \A j \in DOMAIN ops : \A i \in 1..(j - 1) : Ordered(b, ops[i], ops[j])
  BY <1>4, <1>5, <1>7, <1>8
<1>10. CASE b = "<"
  BY <1>2, <1>9, <1>10 DEF Ordered, Pairwise
<1>11. CASE b = ">"
  BY <1>2, <1>9, <1>11 DEF Ordered, Pairwise
<1>12. CASE b = "<="
  BY <1>2, <1>9, <1>12 DEF Ordered, Pairwise
<1>13. CASE b = ">="
  BY <1>2, <1>9, <1>13 DEF Ordered, Pairwise
<1> QED
  BY <1>2, <1>10, <1>11, <1>12, <1>13 DEF Comparisons

LEMMA JunctionsFromInv ==
  ASSUME Inv
  PROVE  JunctionsRight
<1> SUFFICES ASSUME Answers({"and", "or"})
             PROVE  /\ value = IF ops = <<>> THEN bool_obj(Branch = "and") ELSE Last(ops)
                    /\ \A i \in DOMAIN ops : i < Len(ops) =>
                         (ops[i] = bool_obj(FALSE) <=> Branch = "or")
                    /\ Len(ops) < argc => (Last(ops) = bool_obj(FALSE) <=> Branch = "and")
  BY DEF JunctionsRight
<1>1. Answered /\ Branch \in {"and", "or"}
  BY AnswersAreAnswered
<1>2. Joining(Branch, ops, value) /\ (Len(ops) = argc \/ Decided)
  BY <1>1, AnsweredJunction
<1>3. argc \in Nat /\ Len(ops) \in Nat /\ ops \in Seq(Objects) /\ DOMAIN ops = 1..Len(ops)
  BY <1>1, AnsweredArgc
<1>4. value = IF ops = <<>> THEN bool_obj(Branch = "and") ELSE Last(ops)
  <2>1. ops = <<>> <=> Len(ops) = 0
    BY <1>3
  <2> QED
    BY <1>2, <2>1, Zenon DEF Joining, Last
<1>5. \A i \in DOMAIN ops : i < Len(ops) => (ops[i] = bool_obj(FALSE) <=> Branch = "or")
  <2>1. \A i \in DOMAIN ops : i < Len(ops) => i \in 1..(Len(ops) - 1)
    BY <1>3
  <2> QED
    BY <1>2, <2>1, Zenon DEF Joining
<1>6. Len(ops) < argc => (Last(ops) = bool_obj(FALSE) <=> Branch = "and")
  <2>1. PICK n \in Nat, m \in Nat : n = Len(ops) /\ m = argc
    BY <1>3, Zenon
  <2>2. n < m => n # m
    OBVIOUS
  <2> QED
    BY <1>1, <1>2, <2>1, <2>2, Zenon DEF Decided
<1> QED
  BY <1>4, <1>5, <1>6, Zenon

LEMMA EqualNeighbours ==
  ASSUME NEW s, NEW n \in Nat
  PROVE  (\A i \in 1..(n - 1) : s[i] = s[i + 1])
           <=> \A j \in 1..n : \A i \in 1..(j - 1) : s[i] = s[j]
<1>1. ASSUME \A i \in 1..(n - 1) : s[i] = s[i + 1]
      PROVE  \A j \in 1..n : \A i \in 1..(j - 1) : s[i] = s[j]
  <2> DEFINE T == {k \in 0..n : k > 0 => s[k] = s[1]}
  <2>1. 0 \in T
    OBVIOUS
  <2>2. ASSUME NEW k \in 0..(n - 1), k \in T
        PROVE  k + 1 \in T
    <3>1. CASE k = 0
      BY <3>1
    <3>2. CASE k > 0
      BY <1>1, <2>2, <3>2
    <3> QED
      BY <3>1, <3>2
  <2>3. \A k \in 0..n : k \in T
    <3> HIDE DEF T
    <3> QED
      BY <2>1, <2>2, AllUpTo
  <2>4. \A k \in 1..n : s[k] = s[1]
    BY <2>3
  <2> QED
    BY <2>4
<1>2. ASSUME \A j \in 1..n : \A i \in 1..(j - 1) : s[i] = s[j]
      PROVE  \A i \in 1..(n - 1) : s[i] = s[i + 1]
  <2>1. ASSUME NEW i \in 1..(n - 1)
        PROVE  s[i] = s[i + 1]
    <3>1. i + 1 \in 1..n /\ i \in 1..((i + 1) - 1)
      OBVIOUS
    <3> QED
      BY <1>2, <3>1
  <2> QED
    BY <2>1
<1> QED
  BY <1>1, <1>2

LEMMA EqualNumbers ==
  ASSUME NEW a \in Objects, NEW b \in Objects, NEW c \in Equalities, IsNumber(a), IsNumber(b),
         c = "equal?" => a.typ = "float"
  PROVE  /\ ~IsNaN(a) /\ SameNumber(a, b) => Chain(c, a, b)
         /\ IsNaN(a) /\ a # b /\ c = "=" => ~Chain(c, a, b)
<1>1. IsObject(a) /\ IsObject(b)
  BY ObjectFacts
<1>2. ASSUME ~IsNaN(a), SameNumber(a, b)
      PROVE  eq_obj(a, b)
  <2>1. CASE AreInts(a, b)
    <3>1. a = Integer(a.num) /\ b = Integer(b.num) /\ a.num \in Int /\ b.num \in Int
      BY <1>1, <2>1, Limits DEF IsObject, AreInts
    <3>2. a.den = 1 /\ b.den = 1
      BY <3>1 DEF Integer
    <3>3. ~(a.num < b.num) /\ ~(b.num < a.num)
      BY <1>2, <3>1, <3>2 DEF SameNumber, Less
    <3>4. a.num = b.num
      BY <3>1, <3>3
    <3> QED
      BY <3>1, <3>4 DEF eq_obj
  <2>2. CASE ~AreInts(a, b)
    BY <1>2, <2>2 DEF eq_obj
  <2> QED
    BY <2>1, <2>2
<1>3. ASSUME IsNaN(a), a # b
      PROVE  ~eq_obj(a, b)
  <2>1. a.typ = "float"
    <3>1. CASE a.typ = "integer"
      <4>1. a = Integer(a.num) /\ a.den = 0
        BY <1>1, <1>3, <3>1 DEF IsObject, IsNaN
      <4> QED
        BY <4>1 DEF Integer
    <3> QED
      BY <3>1 DEF IsNumber
  <2> QED
    BY <1>3, <2>1 DEF eq_obj, AreInts
<1>4. c = "equal?" => (eq_obj(a, b) => equal_obj[a][b])
  BY EqualEquation
<1> QED
  BY <1>2, <1>3, <1>4 DEF Chain, Equalities

LEMMA TwoElements ==
  ASSUME NEW s \in Seq(Objects), Len(s) = 2
  PROVE  s[1] \in Objects /\ s[2] \in Objects
OBVIOUS

LEMMA EqualityFromInv ==
  ASSUME Inv
  PROVE  EqualityRight
<1>1. ASSUME Answers({"=", "eq?"}), EveryOperand(LAMBDA o : o.typ # "float")
      PROVE  value.val <=> Pairwise(LAMBDA a, b : a = b)
  <2>1. Answered /\ Branch \in {"=", "eq?"}
    BY <1>1, AnswersAreAnswered
  <2>2. /\ value.val <=> \A i \in 1..(Len(ops) - 1) : Chain(Branch, ops[i], ops[i + 1])
        /\ Len(ops) \in Nat /\ ops \in Seq(Objects) /\ DOMAIN ops = 1..Len(ops)
    BY <2>1, AnsweredChain, AnsweredArgc DEF Equalities
  <2>3. \A i \in 1..Len(ops) : ops[i] \in Objects /\ ops[i].typ # "float"
    BY <1>1, <2>2 DEF EveryOperand
  <2>4. ASSUME NEW i \in 1..(Len(ops) - 1)
        PROVE  Chain(Branch, ops[i], ops[i + 1]) <=> ops[i] = ops[i + 1]
    <3>1. i \in 1..Len(ops) /\ i + 1 \in 1..Len(ops)
      BY <2>2
    <3>2. eq_obj(ops[i], ops[i + 1]) <=> ops[i] = ops[i + 1]
      BY <2>3, <3>1, EqWithoutFloats
    <3> QED
      BY <2>1, <3>2 DEF Chain
  <2>5. (\A i \in 1..(Len(ops) - 1) : ops[i] = ops[i + 1])
          <=> \A j \in 1..Len(ops) : \A i \in 1..(j - 1) : ops[i] = ops[j]
    <3>1. PICK n \in Nat : n = Len(ops)
      BY <2>2
    <3>2. (\A i \in 1..(n - 1) : ops[i] = ops[i + 1])
            <=> \A j \in 1..n : \A i \in 1..(j - 1) : ops[i] = ops[j]
      BY EqualNeighbours, Zenon
    <3> QED
      BY <3>1, <3>2, ZenonT(60)
  <2> QED
    BY <2>2, <2>4, <2>5 DEF Pairwise
<1>2. ASSUME Answers({"equal?"}), EveryOperand(LAMBDA o : ~HasFloat[o])
      PROVE  value.val <=> Structure[ops[1]] = Structure[ops[2]]
  <2>1. Answered /\ Branch = "equal?"
    BY <1>2, AnswersAreAnswered
  <2>2. /\ value.val <=> \A i \in 1..(Len(ops) - 1) : Chain("equal?", ops[i], ops[i + 1])
        /\ Len(ops) = 2 /\ ops \in Seq(Objects) /\ DOMAIN ops = 1..Len(ops)
    BY <2>1, AnsweredChain, AnsweredArgc DEF Equalities
  <2>3. /\ ops[1] \in Objects /\ ~HasFloat[ops[1]]
        /\ ops[2] \in Objects /\ ~HasFloat[ops[2]]
    <3>1. \A i \in DOMAIN ops : ~HasFloat[ops[i]]
      BY <1>2, Zenon DEF EveryOperand
    <3>2. 1 \in DOMAIN ops /\ 2 \in DOMAIN ops
      BY <2>2
    <3>3. ops[1] \in Objects /\ ops[2] \in Objects
      BY <2>2, TwoElements
    <3> QED
      BY <3>1, <3>2, <3>3, Zenon
  <2>4. value.val <=> Chain("equal?", ops[1], ops[2])
    <3>1. 1..(Len(ops) - 1) = {1} /\ 1 + 1 = 2
      BY <2>2
    <3> QED
      BY <2>2, <3>1
  <2>5. Chain("equal?", ops[1], ops[2]) <=> equal_obj[ops[1]][ops[2]]
    BY DEF Chain
  <2> QED
    BY <2>3, <2>4, <2>5, EqualIsSameStructure
<1>3. ASSUME Answers({"=", "eq?", "equal?"}),
             EveryOperand(LAMBDA o : o.typ = "float" \/ (Branch = "=" /\ IsNumber(o)))
      PROVE  /\ ~AnyNaN /\ Pairwise(SameNumber) => value.val
             /\ Branch = "=" =>
                  ((\E i \in 1 .. Len(ops) - 1 : IsNaN(ops[i]) /\ ops[i] # ops[i + 1]) => ~value.val)
  <2>1. Answered /\ Branch \in Equalities
    BY <1>3, AnswersAreAnswered DEF Equalities
  <2>2. /\ value.val <=> \A i \in 1..(Len(ops) - 1) : Chain(Branch, ops[i], ops[i + 1])
        /\ Len(ops) \in Nat /\ ops \in Seq(Objects) /\ DOMAIN ops = 1..Len(ops)
    BY <2>1, AnsweredChain, AnsweredArgc
  <2>3. \A i \in 1..Len(ops) : /\ ops[i] \in Objects /\ IsNumber(ops[i])
                               /\ Branch = "equal?" => ops[i].typ = "float"
    BY <1>3, <2>2 DEF EveryOperand, IsNumber
  <2>4. ASSUME NEW i \in 1..(Len(ops) - 1)
        PROVE  /\ i \in 1..Len(ops) /\ i + 1 \in 1..Len(ops) /\ i \in 1..((i + 1) - 1)
               /\ ~IsNaN(ops[i]) /\ SameNumber(ops[i], ops[i + 1])
                    => Chain(Branch, ops[i], ops[i + 1])
               /\ IsNaN(ops[i]) /\ ops[i] # ops[i + 1] /\ Branch = "="
                    => ~Chain(Branch, ops[i], ops[i + 1])
    <3>1. i \in 1..Len(ops) /\ i + 1 \in 1..Len(ops) /\ i \in 1..((i + 1) - 1)
      BY <2>2
    <3>2. PICK a, b, c : a = ops[i] /\ b = ops[i + 1] /\ c = Branch
      OBVIOUS
    <3>3. /\ a \in Objects /\ b \in Objects /\ c \in Equalities
          /\ IsNumber(a) /\ IsNumber(b) /\ (c = "equal?" => a.typ = "float")
      BY <2>1, <2>3, <3>1, <3>2
    <3>4. /\ ~IsNaN(a) /\ SameNumber(a, b) => Chain(c, a, b)
          /\ IsNaN(a) /\ a # b /\ c = "=" => ~Chain(c, a, b)
      BY <3>3, EqualNumbers
    <3> QED
      BY <3>1, <3>2, <3>4
  <2>5. ASSUME ~AnyNaN, Pairwise(SameNumber)
        PROVE  value.val
    <3>1. \A i \in 1..(Len(ops) - 1) : ~IsNaN(ops[i]) /\ SameNumber(ops[i], ops[i + 1])
      BY <2>2, <2>4, <2>5 DEF AnyNaN, Pairwise
    <3> QED
      BY <2>2, <2>4, <3>1
  <2> QED
    BY <2>2, <2>4, <2>5
<1>4. /\ Answers({"="}) => Answers({"=", "eq?", "equal?"}) /\ Branch = "="
      /\ EveryOperand(IsNumber) /\ Branch = "="
           => EveryOperand(LAMBDA o : o.typ = "float" \/ (Branch = "=" /\ IsNumber(o)))
  BY DEF Answers, EveryOperand
<1> QED
  BY <1>1, <1>2, <1>3, <1>4 DEF EqualityRight

\* Comparisons, junctions and equalities answer what the operands say, for every
\* number of operands.
THEOREM TruthIsRight == Spec => []TruthRight
<1>1. Inv => TruthRight
  BY ChainsFromInv, JunctionsFromInv, EqualityFromInv DEF TruthRight
<1> QED
  BY <1>1, Invariant, PTL
=============================================================================
