----------------------------- MODULE AccountProofs -----------------------------
(***************************************************************************)
(* What holds of the money for all fills, prices, fees, settlements and    *)
(* limits, and of the stop-loss for all books, quotes and shifts.          *)
(***************************************************************************)
EXTENDS Accounts, ExitTriggers, FiniteSetTheorems, WellFoundedInduction, TLAPS

-------------------------------------------------------------------------------
\* Every nonempty set of naturals has a least element.
LEMMA Least ==
    ASSUME NEW S \in SUBSET Nat, S # {}
    PROVE  \E n \in S : \A m \in S : n <= m
<1> DEFINE R == OpToRel(<, Nat)
<1>1. IsWellFoundedOn(R, Nat)
  BY NatLessThanWellFounded, Zenon
<1> HIDE DEF R
<1>2. PICK n \in S : \A m \in S : ~ (<<m, n>> \in R)
  BY <1>1, WFMin
<1>3. ASSUME NEW m \in S PROVE n <= m
  <2>1. <<m, n>> \in Nat \X Nat /\ <<m, n>>[1] = m /\ <<m, n>>[2] = n
    OBVIOUS
  <2>2. m < n => <<m, n>> \in R
    BY <2>1 DEF R, OpToRel
  <2> QED
    BY <1>2, <2>2
<1> QED
  BY <1>3

LEMMA MinOf ==
    ASSUME NEW S, \E n \in S : \A m \in S : n <= m
    PROVE  Min(S) \in S /\ \A m \in S : Min(S) <= m
  BY DEF Min

-------------------------------------------------------------------------------
\* Fractions in lowest terms.
Positive == Nat \ {0}

LEMMA Products ==
    ASSUME NEW x \in Int, NEW y \in Int
    PROVE  x * y \in Int /\ (x \in Positive /\ y \in Positive => x * y \in Positive)
  BY DEF Positive

LEMMA Cancel ==
    ASSUME NEW a \in Positive, NEW x \in Int, NEW y \in Int, a * x = a * y
    PROVE  x = y
  BY DEF Positive

LEMMA Divided ==
    ASSUME NEW x \in Int, NEW d \in Positive
    PROVE  /\ x \div d \in Int
           /\ x % d = 0 => d * (x \div d) = x
           /\ \A q \in Int : d * q = x => x % d = 0
<1> USE DEF Positive
<1>1. x = d * (x \div d) + (x % d) /\ x \div d \in Int /\ x % d \in 0 .. d - 1
  OBVIOUS
<1>2. ASSUME NEW q \in Int, d * q = x PROVE x % d = 0
  <2> DEFINE k == x \div d
             r == x % d
  <2>1. k \in Int /\ r \in 0 .. d - 1 /\ d * q = d * k + r
    BY <1>1, <1>2
  <2> HIDE DEF k, r
  <2>2. d * (q - k) = r
    BY <2>1
  <2>3. q - k <= 0
    <3>1. SUFFICES ASSUME q - k >= 1 PROVE FALSE
      BY <2>1
    <3>2. d * (q - k) >= d * 1
      BY <2>1, <3>1
    <3> QED
      BY <2>1, <2>2, <3>2
  <2>4. q - k >= 0
    <3>1. SUFFICES ASSUME q - k <= -1 PROVE FALSE
      BY <2>1
    <3>2. d * (q - k) <= d * (-1)
      BY <2>1, <3>1
    <3> QED
      BY <2>1, <2>2, <3>2
  <2>5. q - k = 0
    BY <2>1, <2>3, <2>4
  <2>6. r = 0
    BY <2>2, <2>5
  <2> QED
    BY <2>6 DEF r
<1> QED
  BY <1>1, <1>2

LEMMA RatioIs ==
    ASSUME NEW n \in Int, NEW d \in Positive
    PROVE  /\ Ratio(n, d) = [num |-> Ratio(n, d).num, den |-> Ratio(n, d).den]
           /\ Ratio(n, d).num \in Int /\ Ratio(n, d).den \in Positive
           /\ d * Ratio(n, d).num = n * Ratio(n, d).den
           /\ \A k \in Positive : (n * k) % d = 0 => Ratio(n, d).den <= k
<1> DEFINE S == {k \in 1 .. d : (n * k) % d = 0}
           den == Min(S)
           num == (n * den) \div d
<1>1. Ratio(n, d) = [num |-> num, den |-> den]
  BY DEF Ratio
<1>2. d \in S
  <2>1. n * d \in Int /\ d * n = n * d
    BY DEF Positive
  <2>2. (n * d) % d = 0
    <3> DEFINE x == n * d
    <3>1. x \in Int /\ d * n = x
      BY <2>1
    <3> HIDE DEF x
    <3>2. x % d = 0
      BY <3>1, Divided
    <3> QED
      BY <3>2 DEF x
  <2> QED
    BY <2>2 DEF Positive
<1>3. S \subseteq 1 .. d /\ \A k \in S : (n * k) % d = 0
  OBVIOUS
<1>4. ASSUME NEW k \in 1 .. d, (n * k) % d = 0 PROVE k \in S
  BY <1>4
<1> HIDE DEF S
<1>5. S \in SUBSET Nat /\ S # {}
  BY <1>2, <1>3 DEF Positive
<1>6. den \in S /\ \A k \in S : den <= k
  BY <1>5, Least, MinOf
<1> HIDE DEF den
<1>7. den \in Positive /\ den <= d /\ (n * den) % d = 0
  <2>1. den \in 1 .. d /\ (n * den) % d = 0
    BY <1>3, <1>6
  <2> QED
    BY <2>1 DEF Positive
<1>8. num \in Int /\ d * num = n * den
  <2> DEFINE x == n * den
  <2>1. x \in Int /\ x % d = 0
    BY <1>7, Products DEF Positive
  <2> HIDE DEF x
  <2>2. x \div d \in Int /\ d * (x \div d) = x
    BY <2>1, Divided
  <2> QED
    BY <2>2 DEF x
<1>9. ASSUME NEW k \in Positive, (n * k) % d = 0 PROVE den <= k
  <2>1. CASE k <= d
    <3>1. k \in 1 .. d
      BY <2>1 DEF Positive
    <3> QED
      BY <1>4, <1>6, <1>9, <3>1
  <2>2. CASE ~(k <= d)
    BY <1>7, <2>2 DEF Positive
  <2> QED
    BY <2>1, <2>2
<1> HIDE DEF num
<1> QED
  BY <1>1, <1>7, <1>8, <1>9

\* n / d and m / e are the same.
LEMMA MultiplesOfSame ==
    ASSUME NEW n \in Int, NEW d \in Positive, NEW m \in Int, NEW e \in Positive,
           n * e = m * d, NEW k \in Positive, (n * k) % d = 0
    PROVE  (m * k) % e = 0
<1> DEFINE x == n * k
           q == x \div d
           y == m * k
<1>1. x \in Int /\ y \in Int
  BY DEF Positive
<1>2. x % d = 0
  OBVIOUS
<1>3. q \in Int /\ d * q = x
  <2> HIDE DEF x
  <2> QED
    BY <1>1, <1>2, Divided
<1> HIDE DEF q
<1>4. d * (e * q) = d * y
  <2>1. d * (e * q) = e * (d * q)
    BY <1>3 DEF Positive
  <2>2. e * (n * k) = (n * e) * k
    BY DEF Positive
  <2>3. (m * d) * k = d * (m * k)
    BY DEF Positive
  <2> QED
    BY <1>3, <2>1, <2>2, <2>3
<1>5. e * q \in Int
  BY <1>3 DEF Positive
<1> HIDE DEF y
<1>6. e * q = y
  BY <1>1, <1>4, <1>5, Cancel
<1>7. y % e = 0
  BY <1>1, <1>3, <1>6, Divided
<1> QED
  BY <1>7 DEF y

\* Lowest terms are unique.
LEMMA SameRatio ==
    ASSUME NEW n \in Int, NEW d \in Positive, NEW m \in Int, NEW e \in Positive,
           n * e = m * d
    PROVE  Ratio(n, d) = Ratio(m, e)
<1> DEFINE a == Ratio(n, d)
           b == Ratio(m, e)
<1>1. /\ a = [num |-> a.num, den |-> a.den]
      /\ a.num \in Int /\ a.den \in Positive /\ d * a.num = n * a.den
      /\ \A k \in Positive : (n * k) % d = 0 => a.den <= k
  BY RatioIs
<1>2. /\ b = [num |-> b.num, den |-> b.den]
      /\ b.num \in Int /\ b.den \in Positive /\ e * b.num = m * b.den
      /\ \A k \in Positive : (m * k) % e = 0 => b.den <= k
  BY RatioIs
<1> DEFINE p == a.num
           k == a.den
           q == b.num
           j == b.den
<1>3. p \in Int /\ k \in Positive /\ q \in Int /\ j \in Positive
      /\ d * p = n * k /\ e * q = m * j
  BY <1>1, <1>2
<1> HIDE DEF a, b
<1>4. (n * k) % d = 0 /\ (m * j) % e = 0
  <2> HIDE DEF p, k, q, j
  <2>1. n * k \in Int /\ m * j \in Int
    BY <1>3 DEF Positive
  <2> QED
    BY <1>3, <2>1, Divided
<1>5. (m * k) % e = 0
  <2> HIDE DEF p, k, q, j
  <2> QED
    BY <1>3, <1>4, MultiplesOfSame
<1>6. (n * j) % d = 0
  <2> HIDE DEF p, k, q, j
  <2>1. m * d = n * e
    OBVIOUS
  <2> QED
    BY <1>3, <1>4, <2>1, MultiplesOfSame
<1>7. k <= j /\ j <= k
  BY <1>1, <1>2, <1>3, <1>5, <1>6
<1>8. k = j
  BY <1>3, <1>7 DEF Positive
<1>9. p = q
  <2> HIDE DEF p, k, q, j
  <2>1. e * (d * p) = (n * e) * k
    BY <1>3 DEF Positive
  <2>2. d * (e * q) = (m * d) * k
    BY <1>3, <1>8 DEF Positive
  <2>3. (d * e) * p = (d * e) * q
    <3>1. (d * e) * p = e * (d * p) /\ (d * e) * q = d * (e * q)
      BY <1>3 DEF Positive
    <3> QED
      BY <2>1, <2>2, <3>1
  <2>4. d * e \in Positive
    BY Products DEF Positive
  <2> QED
    BY <1>3, <2>3, <2>4, Cancel
<1>10. a = b
  BY <1>1, <1>2, <1>8, <1>9
<1> QED
  BY <1>10 DEF a, b

LEMMA RatioType ==
    ASSUME NEW n \in Int, NEW d \in Positive
    PROVE  Ratio(n, d) \in Fractions
<1> DEFINE r == Ratio(n, d)
           p == r.num
           k == r.den
<1>1. r = [num |-> p, den |-> k] /\ p \in Int /\ k \in Positive /\ d * p = n * k
  BY RatioIs
<1> HIDE DEF r, p, k
<1>2. n * k = p * d
  BY <1>1 DEF Positive
<1>3. Ratio(n, d) = Ratio(p, k)
  BY <1>1, <1>2, SameRatio
<1>4. r = Ratio(p, k)
  BY <1>3 DEF r
<1>5. r \in [num : Int, den : Nat \ {0}] /\ r.num = p /\ r.den = k
  BY <1>1 DEF Positive
<1> QED
  BY <1>4, <1>5 DEF Fractions, r

LEMMA FractionParts ==
    ASSUME NEW a \in Fractions
    PROVE  a.num \in Int /\ a.den \in Positive /\ a = Ratio(a.num, a.den)
  BY DEF Fractions, Positive

LEMMA UnknownIsNone == Unknown \notin Fractions
<1> SUFFICES ASSUME Unknown \in Fractions PROVE FALSE
  OBVIOUS
<1>1. Unknown.den \in Positive
  BY FractionParts
<1> QED
  BY <1>1 DEF Unknown, Positive

\* The amount a is n / d.  At a common denominator amounts add up as integers do.
Is(a, n, d) == a \in Fractions /\ a.num * d = n * a.den

LEMMA IsRatio ==
    ASSUME NEW n \in Int, NEW d \in Positive
    PROVE  Is(Ratio(n, d), n, d)
<1> DEFINE p == Ratio(n, d).num
           k == Ratio(n, d).den
<1>1. p \in Int /\ k \in Positive /\ d * p = n * k
  BY RatioIs
<1>2. p * d = n * k
  <2> HIDE DEF p, k
  <2> QED
    BY <1>1 DEF Positive
<1> QED
  BY <1>2, RatioType DEF Is

\* An amount is known by any one of its fractions.
LEMMA IsOne ==
    ASSUME NEW n \in Int, NEW d \in Positive, NEW a, Is(a, n, d)
    PROVE  a = Ratio(n, d)
<1> DEFINE p == a.num
           k == a.den
<1>1. p \in Int /\ k \in Positive /\ a = Ratio(p, k) /\ p * d = n * k
  BY FractionParts DEF Is
<1> HIDE DEF p, k
<1> QED
  BY <1>1, SameRatio

LEMMA IsSame ==
    ASSUME NEW n \in Int, NEW d \in Positive, NEW a, NEW b, Is(a, n, d), Is(b, n, d)
    PROVE  a = b
  BY IsOne

LEMMA IsScaled ==
    ASSUME NEW n \in Int, NEW d \in Positive, NEW e \in Positive, NEW a, Is(a, n, d)
    PROVE  Is(a, n * e, d * e)
<1> DEFINE p == a.num
           k == a.den
<1>1. p \in Int /\ k \in Positive /\ p * d = n * k
  BY FractionParts DEF Is
<1>2. p * (d * e) = (n * e) * k
  <2> HIDE DEF p, k
  <2>1. p * (d * e) = (p * d) * e /\ (n * e) * k = (n * k) * e
    BY <1>1 DEF Positive
  <2> QED
    BY <1>1, <2>1
<1> QED
  BY <1>2 DEF Is

LEMMA IsPlus ==
    ASSUME NEW d \in Positive, NEW m \in Int, NEW n \in Int,
           NEW a, NEW b, Is(a, m, d), Is(b, n, d)
    PROVE  Is(Plus(a, b), m + n, d)
<1> DEFINE p == a.num
           k == a.den
           q == b.num
           j == b.den
           num == p * j + q * k
           den == k * j
<1>1. /\ p \in Int /\ k \in Positive /\ p * d = m * k
      /\ q \in Int /\ j \in Positive /\ q * d = n * j
  BY FractionParts DEF Is
<1>2. Plus(a, b) = Ratio(num, den)
  BY DEF Plus
<1> HIDE DEF p, k, q, j
<1>3. num \in Int /\ den \in Positive /\ m + n \in Int
  <2>1. p * j \in Int /\ q * k \in Int /\ k * j \in Positive
    BY <1>1, Products DEF Positive
  <2> QED
    BY <2>1
<1>4. num * d = (m + n) * den
  <2>1. num * d = j * (p * d) + k * (q * d)
    BY <1>1 DEF Positive
  <2>2. j * (m * k) + k * (n * j) = (m + n) * den
    BY <1>1 DEF Positive
  <2> QED
    BY <1>1, <2>1, <2>2
<1> HIDE DEF num, den
<1>5. Ratio(num, den) = Ratio(m + n, d)
  BY <1>3, <1>4, SameRatio
<1> QED
  BY <1>2, <1>3, <1>5, IsRatio

LEMMA IsTimes ==
    ASSUME NEW d \in Positive, NEW m \in Int, NEW f \in Int, NEW a, Is(a, m, d)
    PROVE  Is(Times(f, a), f * m, d)
<1> DEFINE p == a.num
           k == a.den
           num == f * p
<1>1. p \in Int /\ k \in Positive /\ p * d = m * k
  BY FractionParts DEF Is
<1>2. Times(f, a) = Ratio(num, k)
  BY DEF Times
<1> HIDE DEF p, k
<1>3. num \in Int /\ f * m \in Int
  BY <1>1
<1>4. num * d = (f * m) * k
  <2>1. num * d = f * (p * d) /\ (f * m) * k = f * (m * k)
    BY <1>1 DEF Positive
  <2> QED
    BY <1>1, <2>1
<1> HIDE DEF num
<1>5. Ratio(num, k) = Ratio(f * m, d)
  BY <1>1, <1>3, <1>4, SameRatio
<1> QED
  BY <1>2, <1>3, <1>5, IsRatio

LEMMA IsMinus ==
    ASSUME NEW d \in Positive, NEW m \in Int, NEW n \in Int,
           NEW a, NEW b, Is(a, m, d), Is(b, n, d)
    PROVE  Is(Minus(a, b), m - n, d)
<1>1. Is(Times(-1, b), -1 * n, d)
  BY IsTimes
<1>2. Is(Plus(a, Times(-1, b)), m + (-1 * n), d)
  BY <1>1, IsPlus
<1>3. m + (-1 * n) = m - n
  OBVIOUS
<1> QED
  BY <1>2, <1>3 DEF Minus

LEMMA IsWhole ==
    ASSUME NEW d \in Positive, NEW n \in Int
    PROVE  Is(Whole(n), n * d, d)
<1> DEFINE r == Ratio(n, 1)
           p == r.num
           k == r.den
<1>1. 1 \in Positive
  BY DEF Positive
<1>2. r = [num |-> p, den |-> k] /\ p \in Int /\ k \in Positive /\ 1 * p = n * k
      /\ ((n * 1) % 1 = 0 => k <= 1)
  BY <1>1, RatioIs
<1>3. n % 1 = 0 /\ n * 1 = n
  <2>1. 1 * n = n /\ n * 1 = n
    OBVIOUS
  <2> QED
    BY <1>1, <2>1, Divided
<1> HIDE DEF r, p, k
<1>4. k = 1 /\ p = n
  BY <1>2, <1>3 DEF Positive
<1>5. Whole(n) = r
  BY <1>2, <1>4 DEF Whole
<1>6. Whole(n) \in Fractions
  BY <1>1, <1>5, RatioType DEF r
<1>7. Whole(n).num = n /\ Whole(n).den = 1
  BY DEF Whole
<1>8. n * d = (n * d) * 1
  BY DEF Positive
<1> QED
  BY <1>6, <1>7, <1>8 DEF Is

\* Amounts compare as their numerators do.
LEMMA OrderScaled ==
    ASSUME NEW d \in Positive, NEW c \in Positive, NEW x \in Int, NEW y \in Int,
           NEW m \in Int, NEW n \in Int, d * x = c * m, d * y = c * n
    PROVE  x <= y <=> m <= n
<1>1. ASSUME x <= y PROVE m <= n
  <2>1. SUFFICES ASSUME m >= n + 1 PROVE FALSE
    OBVIOUS
  <2>2. c * m >= c * (n + 1) /\ c * (n + 1) > c * n
    BY <2>1 DEF Positive
  <2>3. d * x <= d * y
    BY <1>1 DEF Positive
  <2>4. c * m \in Int /\ c * n \in Int /\ c * (n + 1) \in Int
    BY DEF Positive
  <2> QED
    BY <2>2, <2>3, <2>4
<1>2. ASSUME m <= n PROVE x <= y
  <2>1. SUFFICES ASSUME x >= y + 1 PROVE FALSE
    OBVIOUS
  <2>2. d * x >= d * (y + 1) /\ d * (y + 1) > d * y
    BY <2>1 DEF Positive
  <2>3. c * m <= c * n
    BY <1>2 DEF Positive
  <2>4. d * x \in Int /\ d * y \in Int /\ d * (y + 1) \in Int
    BY DEF Positive
  <2> QED
    BY <2>2, <2>3, <2>4
<1> QED
  BY <1>1, <1>2

LEMMA IsAtMost ==
    ASSUME NEW d \in Positive, NEW m \in Int, NEW n \in Int,
           NEW a, NEW b, Is(a, m, d), Is(b, n, d)
    PROVE  AtMost(a, b) <=> m <= n
<1> DEFINE p == a.num
           k == a.den
           q == b.num
           j == b.den
           x == p * j
           y == q * k
           c == k * j
<1>1. /\ p \in Int /\ k \in Positive /\ p * d = m * k
      /\ q \in Int /\ j \in Positive /\ q * d = n * j
  BY FractionParts DEF Is
<1>2. AtMost(a, b) <=> x <= y
  BY DEF AtMost
<1> HIDE DEF p, k, q, j
<1>3. x \in Int /\ y \in Int /\ c \in Positive
  BY <1>1, Products DEF Positive
<1>4. d * x = c * m /\ d * y = c * n
  <2>1. d * x = j * (p * d) /\ d * y = k * (q * d)
    BY <1>1 DEF Positive
  <2>2. j * (m * k) = c * m /\ k * (n * j) = c * n
    BY <1>1 DEF Positive
  <2> QED
    BY <1>1, <2>1, <2>2
<1> HIDE DEF x, y, c
<1>5. x <= y <=> m <= n
  BY <1>3, <1>4, OrderScaled
<1> QED
  BY <1>2, <1>5

\* A denominator for one more amount.
LEMMA IsExtended ==
    ASSUME NEW d \in Positive, NEW a \in Fractions
    PROVE  \E e \in Positive, n \in Int : Is(a, n, d * e)
<1> DEFINE p == a.num
           k == a.den
<1>1. p \in Int /\ k \in Positive
  BY FractionParts
<1>2. p * (d * k) = (p * d) * k /\ p * d \in Int
  <2> HIDE DEF p, k
  <2> QED
    BY <1>1 DEF Positive
<1>3. Is(a, p * d, d * k)
  BY <1>2 DEF Is
<1> QED
  BY <1>1, <1>2, <1>3

LEMMA Common2 ==
    ASSUME NEW a \in Fractions, NEW b \in Fractions
    PROVE  \E d \in Positive, m \in Int, n \in Int : Is(a, m, d) /\ Is(b, n, d)
<1>1. PICK d \in Positive, m \in Int : Is(a, m, 1 * d)
  <2>1. 1 \in Positive
    BY DEF Positive
  <2> QED
    BY <2>1, IsExtended
<1>2. 1 * d = d
  BY DEF Positive
<1>3. PICK e \in Positive, n \in Int : Is(b, n, d * e)
  BY IsExtended
<1>4. Is(a, m, d)
  BY <1>1, <1>2
<1>5. Is(a, m * e, d * e)
  BY <1>4, IsScaled
<1>6. m * e \in Int /\ d * e \in Positive
  BY Products DEF Positive
<1> QED
  BY <1>3, <1>5, <1>6

LEMMA Common3 ==
    ASSUME NEW a \in Fractions, NEW b \in Fractions, NEW c \in Fractions
    PROVE  \E d \in Positive, m \in Int, n \in Int, o \in Int :
             Is(a, m, d) /\ Is(b, n, d) /\ Is(c, o, d)
<1>1. PICK d \in Positive, m \in Int, n \in Int : Is(a, m, d) /\ Is(b, n, d)
  BY Common2
<1>2. PICK e \in Positive, o \in Int : Is(c, o, d * e)
  BY IsExtended
<1>3. Is(a, m * e, d * e) /\ Is(b, n * e, d * e) /\ d * e \in Positive
      /\ m * e \in Int /\ n * e \in Int
  BY <1>1, IsScaled, Products DEF Positive
<1> QED
  BY <1>2, <1>3

LEMMA Common4 ==
    ASSUME NEW a \in Fractions, NEW b \in Fractions, NEW c \in Fractions,
           NEW f \in Fractions
    PROVE  \E d \in Positive, m \in Int, n \in Int, o \in Int, p \in Int :
             Is(a, m, d) /\ Is(b, n, d) /\ Is(c, o, d) /\ Is(f, p, d)
<1>1. PICK d \in Positive, m \in Int, n \in Int, o \in Int :
        Is(a, m, d) /\ Is(b, n, d) /\ Is(c, o, d)
  BY Common3
<1>2. PICK e \in Positive, p \in Int : Is(f, p, d * e)
  BY IsExtended
<1>3. Is(a, m * e, d * e) /\ Is(b, n * e, d * e) /\ Is(c, o * e, d * e)
      /\ d * e \in Positive /\ m * e \in Int /\ n * e \in Int /\ o * e \in Int
  BY <1>1, IsScaled, Products DEF Positive
<1> QED
  BY <1>2, <1>3

LEMMA AmountTypes ==
    ASSUME NEW a \in Fractions, NEW b \in Fractions, NEW k \in Int
    PROVE  Plus(a, b) \in Fractions /\ Minus(a, b) \in Fractions
           /\ Times(k, a) \in Fractions /\ Whole(k) \in Fractions
<1>1. PICK d \in Positive, m \in Int, n \in Int : Is(a, m, d) /\ Is(b, n, d)
  BY Common2
<1> QED
  BY <1>1, IsPlus, IsMinus, IsTimes, IsWhole DEF Is
-------------------------------------------------------------------------------
\* Recursion over 0 .. n, and sums over the tickers.

LEMMA Climb ==
    ASSUME NEW n \in Nat, NEW S, 0 \in S, \A k \in 1 .. n : k - 1 \in S => k \in S
    PROVE  0 .. n \subseteq S
<1> DEFINE Bad == {k \in 0 .. n : k \notin S}
<1>1. SUFFICES ASSUME Bad # {} PROVE FALSE
  OBVIOUS
<1>2. PICK k \in Bad : \A m \in Bad : k <= m
  <2>1. Bad \in SUBSET Nat
    OBVIOUS
  <2> HIDE DEF Bad
  <2> QED
    BY <1>1, <2>1, Least
<1>3. k \in 1 .. n /\ k \notin S
  BY <1>2
<1>4. k - 1 \in 0 .. n /\ k - 1 \notin Bad
  BY <1>2, <1>3
<1> QED
  BY <1>3, <1>4

\* A function that steps through T from z, by f[k] at k.
Chain(n, T, z, f, g) ==
    /\ g \in [0 .. n -> T]
    /\ g[0] = z
    /\ \A k \in 1 .. n : g[k] = f[k][g[k - 1]]

\* Recursion along 0 .. n defines a function.
LEMMA ChainsExist ==
    ASSUME NEW n \in Nat, NEW T, NEW z \in T, NEW f \in [1 .. n -> [T -> T]]
    PROVE  \E g : Chain(n, T, z, f, g)
<1> DEFINE S == {k \in 0 .. n : \E g : Chain(k, T, z, f, g)}
<1>1. 0 \in S
  <2>1. Chain(0, T, z, f, [m \in 0 .. 0 |-> z])
    BY DEF Chain
  <2>2. \E g : Chain(0, T, z, f, g)
    BY <2>1
  <2> QED
    BY <2>2
<1>2. ASSUME NEW k \in 1 .. n, k - 1 \in S PROVE k \in S
  <2>1. PICK g : Chain(k - 1, T, z, f, g)
    BY <1>2
  <2> DEFINE last == f[k][g[k - 1]]
             h == [m \in 0 .. k |-> IF m = k THEN last ELSE g[m]]
  <2>2. last \in T
    <3>1. g[k - 1] \in T
      BY <2>1 DEF Chain
    <3> QED
      BY <3>1
  <2>3. h \in [0 .. k -> T]
    <3> HIDE DEF last
    <3>1. g \in [0 .. k - 1 -> T]
      BY <2>1 DEF Chain
    <3> QED
      BY <2>2, <3>1
  <2>4. h[0] = z
    BY <2>1 DEF Chain
  <2>5. ASSUME NEW m \in 1 .. k PROVE h[m] = f[m][h[m - 1]]
    <3>1. h[m - 1] = g[m - 1]
      OBVIOUS
    <3>2. CASE m = k
      BY <3>1, <3>2
    <3>3. CASE m # k
      <4>1. m \in 1 .. k - 1 /\ h[m] = g[m]
        BY <3>3
      <4> QED
        BY <2>1, <3>1, <4>1 DEF Chain
    <3> QED
      BY <3>2, <3>3
  <2>6. Chain(k, T, z, f, h)
    <3> HIDE DEF h
    <3> QED
      BY <2>3, <2>4, <2>5 DEF Chain
  <2>7. \E x : Chain(k, T, z, f, x)
    BY <2>6
  <2> QED
    BY <2>7
<1>3. 0 .. n \subseteq S
  <2> HIDE DEF S
  <2> QED
    BY <1>1, <1>2, Climb
<1> QED
  BY <1>3

LEMMA ListedIs ==
    /\ Cardinality(Tickers) \in Nat
    /\ Listed \in [1 .. Cardinality(Tickers) -> Tickers]
    /\ \A i, j \in 1 .. Cardinality(Tickers) : Listed[i] = Listed[j] => i = j
    /\ \A t \in Tickers : \E i \in 1 .. Cardinality(Tickers) : Listed[i] = t
<1> DEFINE n == Cardinality(Tickers)
           Lists(q) == \A i, j \in DOMAIN q : q[i] = q[j] => i = j
<1>1. n \in Nat /\ ExistsBijection(1 .. n, Tickers)
  BY TickerAssumption, FS_CardinalityType
<1>2. \E q \in [1 .. n -> Tickers] : Lists(q)
  BY <1>1 DEF ExistsBijection, Bijection, Injection, IsInjective
<1>3. Listed \in [1 .. n -> Tickers] /\ Lists(Listed)
  BY <1>2 DEF Listed
<1>4. Listed \in Injection(1 .. n, Tickers)
  BY <1>3 DEF Injection, IsInjective
<1>5. Cardinality(1 .. n) = n
  BY <1>1, FS_Interval
<1>6. Listed \in Surjection(1 .. n, Tickers)
  BY <1>4, <1>5, TickerAssumption, FS_Injection
<1> QED
  BY <1>1, <1>3, <1>6 DEF Surjection

\* The totals over the first k tickers.
Totals(value, g) ==
    /\ g \in [0 .. Cardinality(Tickers) -> Fractions]
    /\ g[0] = Whole(0)
    /\ \A k \in 1 .. Cardinality(Tickers) : g[k] = Plus(g[k - 1], value[Listed[k]])

LEMMA SumOverIs ==
    ASSUME NEW value \in [Tickers -> Fractions]
    PROVE  \E g : Totals(value, g) /\ SumOver(value) = g[Cardinality(Tickers)]
<1> DEFINE n == Cardinality(Tickers)
           f == [k \in 1 .. n |-> [a \in Fractions |-> Plus(a, value[Listed[k]])]]
           Step(g) == [k \in 0 .. n |-> IF k = 0 THEN Whole(0)
                                        ELSE Plus(g[k - 1], value[Listed[k]])]
           sum == CHOOSE g : g = Step(g)
<1>1. n \in Nat /\ \A k \in 1 .. n : value[Listed[k]] \in Fractions
  BY ListedIs
<1>2. Whole(0) \in Fractions /\ f \in [1 .. n -> [Fractions -> Fractions]]
  <2>1. 0 \in Int
    OBVIOUS
  <2>2. ASSUME NEW k \in 1 .. n, NEW a \in Fractions
        PROVE  Plus(a, value[Listed[k]]) \in Fractions
    BY <1>1, <2>1, AmountTypes
  <2>3. \E a : a \in Fractions
    BY <2>1, IsWhole DEF Is, Positive
  <2> QED
    BY <2>1, <2>2, <2>3, AmountTypes
<1>3. PICK g : Chain(n, Fractions, Whole(0), f, g)
  <2> HIDE DEF f, n
  <2> QED
    BY <1>1, <1>2, ChainsExist
<1>4. Totals(value, g)
  <2>1. ASSUME NEW k \in 1 .. n PROVE g[k] = Plus(g[k - 1], value[Listed[k]])
    <3>1. g[k - 1] \in Fractions /\ g[k] = f[k][g[k - 1]]
      BY <1>1, <1>3 DEF Chain
    <3> QED
      BY <3>1
  <2> QED
    BY <1>3, <2>1 DEF Totals, Chain
<1>5. g = Step(g)
  <2>1. ASSUME NEW k \in 0 .. n
        PROVE  g[k] = IF k = 0 THEN Whole(0) ELSE Plus(g[k - 1], value[Listed[k]])
    <3>1. k = 0 \/ k \in 1 .. n
      BY <1>1
    <3> QED
      BY <1>4, <3>1 DEF Totals
  <2> QED
    BY <1>4, <2>1 DEF Totals
<1>6. sum = Step(sum)
  <2> HIDE DEF Step
  <2> QED
    BY <1>5
<1>7. SumOver(value) = sum[n]
  BY DEF SumOver
<1> DEFINE S == {k \in 0 .. n : sum[k] = g[k]}
<1>8. 0 .. n \subseteq S
  <2> HIDE DEF sum
  <2>1. 0 \in S
    BY <1>1, <1>4, <1>6 DEF Totals
  <2>2. ASSUME NEW k \in 1 .. n, k - 1 \in S PROVE k \in S
    <3>1. k \in 0 .. n /\ k # 0 /\ sum[k - 1] = g[k - 1]
      BY <1>1, <2>2
    <3>2. sum[k] = Plus(sum[k - 1], value[Listed[k]])
      BY <1>6, <3>1
    <3>3. g[k] = Plus(g[k - 1], value[Listed[k]])
      BY <1>4 DEF Totals
    <3> QED
      BY <3>1, <3>2, <3>3
  <2> HIDE DEF S
  <2> QED
    BY <1>1, <2>1, <2>2, Climb
<1>9. sum[n] = g[n]
  BY <1>1, <1>8
<1> QED
  BY <1>4, <1>7, <1>9
LEMMA PlusSwaps ==
    ASSUME NEW a \in Fractions, NEW b \in Fractions, NEW x \in Fractions
    PROVE  Plus(Plus(a, x), b) = Plus(Plus(a, b), x)
<1>1. PICK d \in Positive, m \in Int, n \in Int, o \in Int :
        Is(a, m, d) /\ Is(b, n, d) /\ Is(x, o, d)
  BY Common3
<1>2. Is(Plus(a, x), m + o, d) /\ Is(Plus(a, b), m + n, d) /\ m + o \in Int /\ m + n \in Int
  BY <1>1, IsPlus
<1>3. Is(Plus(Plus(a, x), b), (m + o) + n, d) /\ Is(Plus(Plus(a, b), x), (m + n) + o, d)
  BY <1>1, <1>2, IsPlus
<1>4. (m + o) + n = (m + n) + o /\ (m + n) + o \in Int
  OBVIOUS
<1> QED
  BY <1>3, <1>4, IsSame

LEMMA PlusZero ==
    ASSUME NEW a \in Fractions
    PROVE  Plus(a, Whole(0)) = a /\ Minus(a, Whole(0)) = a /\ AtMost(a, a)
<1>1. PICK d \in Positive, m \in Int, n \in Int : Is(a, m, d) /\ Is(a, n, d)
  BY Common2
<1>2. Is(Whole(0), 0, d)
  <2>1. 0 * d = 0
    BY DEF Positive
  <2> QED
    BY <2>1, IsWhole
<1>3. Is(Plus(a, Whole(0)), m + 0, d) /\ Is(Minus(a, Whole(0)), m - 0, d)
  BY <1>1, <1>2, IsPlus, IsMinus
<1>4. m + 0 = m /\ m - 0 = m
  OBVIOUS
<1> QED
  BY <1>1, <1>3, <1>4, IsSame, IsAtMost

LEMMA PlusMonotone ==
    ASSUME NEW a \in Fractions, NEW b \in Fractions, NEW x \in Fractions,
           NEW y \in Fractions, AtMost(a, b), AtMost(x, y)
    PROVE  AtMost(Plus(a, x), Plus(b, y))
<1>1. PICK d \in Positive, m \in Int, n \in Int, o \in Int, p \in Int :
        Is(a, m, d) /\ Is(b, n, d) /\ Is(x, o, d) /\ Is(y, p, d)
  BY Common4
<1>2. m <= n /\ o <= p
  BY <1>1, IsAtMost
<1>3. Is(Plus(a, x), m + o, d) /\ Is(Plus(b, y), n + p, d)
  BY <1>1, IsPlus
<1>4. m + o <= n + p /\ m + o \in Int /\ n + p \in Int
  BY <1>2
<1> QED
  BY <1>3, <1>4, IsAtMost

LEMMA SumType ==
    ASSUME NEW value \in [Tickers -> Fractions]
    PROVE  SumOver(value) \in Fractions
  BY SumOverIs, ListedIs DEF Totals

LEMMA SumOfNothing ==
    ASSUME NEW value \in [Tickers -> Fractions], \A t \in Tickers : value[t] = Whole(0)
    PROVE  SumOver(value) = Whole(0)
<1> DEFINE n == Cardinality(Tickers)
<1>1. PICK g : Totals(value, g) /\ SumOver(value) = g[n]
  BY SumOverIs
<1> DEFINE S == {k \in 0 .. n : g[k] = Whole(0)}
<1>2. n \in Nat /\ 0 \in S
  BY <1>1, ListedIs DEF Totals
<1>3. ASSUME NEW k \in 1 .. n, k - 1 \in S PROVE k \in S
  <2>1. g[k - 1] = Whole(0) /\ value[Listed[k]] = Whole(0) /\ k \in 0 .. n
    BY <1>2, <1>3, ListedIs
  <2>2. g[k] = Plus(Whole(0), Whole(0)) /\ g[k - 1] \in Fractions
    BY <1>1, <1>2, <2>1 DEF Totals
  <2> QED
    BY <2>1, <2>2, PlusZero
<1>4. 0 .. n \subseteq S
  <2> HIDE DEF S
  <2> QED
    BY <1>2, <1>3, Climb
<1> QED
  BY <1>1, <1>2, <1>4

\* What one ticker gains the total gains.
LEMMA SumGrows ==
    ASSUME NEW value \in [Tickers -> Fractions], NEW t \in Tickers, NEW x \in Fractions
    PROVE  LET new == [value EXCEPT ![t] = Plus(value[t], x)] IN
           /\ new \in [Tickers -> Fractions]
           /\ SumOver(new) = Plus(SumOver(value), x)
<1> DEFINE n == Cardinality(Tickers)
           new == [value EXCEPT ![t] = Plus(value[t], x)]
<1>1. new \in [Tickers -> Fractions] /\ new[t] = Plus(value[t], x)
      /\ \A u \in Tickers : u # t => new[u] = value[u]
  <2>1. value[t] \in Fractions /\ 0 \in Int
    OBVIOUS
  <2>2. Plus(value[t], x) \in Fractions
    BY <2>1, AmountTypes
  <2> QED
    BY <2>2
<1> HIDE DEF new
<1>2. PICK g : Totals(value, g) /\ SumOver(value) = g[n]
  BY SumOverIs
<1>3. PICK h : Totals(new, h) /\ SumOver(new) = h[n]
  BY <1>1, SumOverIs
<1>4. PICK i \in 1 .. n : Listed[i] = t
  BY ListedIs
<1>5. n \in Nat /\ \A k \in 1 .. n : Listed[k] \in Tickers /\ (Listed[k] = t => k = i)
  BY <1>4, ListedIs
<1> DEFINE S == {k \in 0 .. n : h[k] = IF i <= k THEN Plus(g[k], x) ELSE g[k]}
<1>6. 0 \in S
  BY <1>2, <1>3, <1>4, <1>5 DEF Totals
<1>7. ASSUME NEW k \in 1 .. n, k - 1 \in S PROVE k \in S
  <2> DEFINE a == g[k - 1]
             b == value[Listed[k]]
  <2>1. a \in Fractions /\ b \in Fractions /\ g[k] = Plus(a, b)
        /\ h[k] = Plus(h[k - 1], new[Listed[k]]) /\ k \in 0 .. n
        /\ h[k - 1] = IF i <= k - 1 THEN Plus(a, x) ELSE a
    <3>1. k \in 0 .. n /\ k - 1 \in 0 .. n /\ k - 1 \in S
      BY <1>5, <1>7
    <3>2. a \in Fractions /\ g[k] = Plus(a, b) /\ h[k] = Plus(h[k - 1], new[Listed[k]])
      BY <1>2, <1>3, <3>1 DEF Totals
    <3>3. b \in Fractions
      BY <1>5
    <3> QED
      BY <3>1, <3>2, <3>3
  <2>2. CASE k < i
    <3>1. new[Listed[k]] = b /\ ~ (i <= k) /\ ~ (i <= k - 1)
      BY <1>1, <1>4, <1>5, <2>2
    <3> QED
      BY <2>1, <3>1
  <2>3. CASE k = i
    <3>1. new[Listed[k]] = Plus(b, x) /\ ~ (i <= k - 1) /\ i <= k
      BY <1>1, <1>4, <1>5, <2>3
    <3>2. h[k] = Plus(a, Plus(b, x)) /\ Plus(a, Plus(b, x)) = Plus(Plus(a, b), x)
      <4> HIDE DEF a, b
      <4>1. PICK d \in Positive, m \in Int, p \in Int, o \in Int :
              Is(a, m, d) /\ Is(b, p, d) /\ Is(x, o, d)
        BY <2>1, Common3
      <4>2. Is(Plus(b, x), p + o, d) /\ Is(Plus(a, b), m + p, d)
            /\ m + p \in Int /\ p + o \in Int
        BY <4>1, IsPlus
      <4>3. Is(Plus(a, Plus(b, x)), m + (p + o), d) /\ Is(Plus(Plus(a, b), x), (m + p) + o, d)
        BY <4>1, <4>2, IsPlus
      <4>4. m + (p + o) = (m + p) + o /\ (m + p) + o \in Int
        OBVIOUS
      <4> QED
        BY <2>1, <3>1, <4>3, <4>4, IsSame
    <3> QED
      BY <2>1, <3>1, <3>2
  <2>4. CASE k > i
    <3>1. new[Listed[k]] = b /\ i <= k - 1 /\ i <= k
      BY <1>1, <1>4, <1>5, <2>4
    <3>2. h[k] = Plus(Plus(a, x), b) /\ Plus(Plus(a, x), b) = Plus(Plus(a, b), x)
      <4> HIDE DEF a, b
      <4> QED
        BY <2>1, <3>1, PlusSwaps
    <3> QED
      BY <2>1, <3>1, <3>2
  <2> QED
    BY <1>4, <1>5, <2>2, <2>3, <2>4
<1>8. 0 .. n \subseteq S
  <2> HIDE DEF S
  <2> QED
    BY <1>5, <1>6, <1>7, Climb
<1>9. h[n] = Plus(g[n], x)
  <2>1. n \in S /\ i <= n
    BY <1>4, <1>5, <1>8
  <2> QED
    BY <2>1
<1> QED
  BY <1>1, <1>2, <1>3, <1>9 DEF new

\* Sums compare as their parts do.
LEMMA SumMonotone ==
    ASSUME NEW u \in [Tickers -> Fractions], NEW v \in [Tickers -> Fractions],
           \A t \in Tickers : AtMost(u[t], v[t])
    PROVE  AtMost(SumOver(u), SumOver(v))
<1> DEFINE n == Cardinality(Tickers)
<1>1. PICK g : Totals(u, g) /\ SumOver(u) = g[n]
  BY SumOverIs
<1>2. PICK h : Totals(v, h) /\ SumOver(v) = h[n]
  BY SumOverIs
<1> DEFINE S == {k \in 0 .. n : AtMost(g[k], h[k])}
<1>3. n \in Nat /\ 0 \in S
  <2>1. 0 \in 0 .. n /\ g[0] = Whole(0) /\ h[0] = Whole(0) /\ g[0] \in Fractions
    BY <1>1, <1>2, ListedIs DEF Totals
  <2>2. AtMost(g[0], g[0])
    BY <2>1, PlusZero
  <2> QED
    BY <2>1, <2>2, ListedIs
<1>4. ASSUME NEW k \in 1 .. n, k - 1 \in S PROVE k \in S
  <2> DEFINE a == g[k - 1]
             b == h[k - 1]
             x == u[Listed[k]]
             y == v[Listed[k]]
  <2>1. /\ a \in Fractions /\ b \in Fractions /\ x \in Fractions /\ y \in Fractions
        /\ g[k] = Plus(a, x) /\ h[k] = Plus(b, y) /\ AtMost(a, b) /\ AtMost(x, y)
        /\ k \in 0 .. n
    <3>1. k \in 0 .. n /\ k - 1 \in 0 .. n /\ AtMost(a, b)
      BY <1>3, <1>4
    <3>2. a \in Fractions /\ b \in Fractions /\ g[k] = Plus(a, x) /\ h[k] = Plus(b, y)
      BY <1>1, <1>2, <3>1 DEF Totals
    <3>3. Listed[k] \in Tickers
      BY ListedIs
    <3> QED
      BY <3>1, <3>2, <3>3
  <2>2. AtMost(Plus(a, x), Plus(b, y))
    <3> HIDE DEF a, b, x, y
    <3> QED
      BY <2>1, PlusMonotone
  <2> QED
    BY <2>1, <2>2
<1>5. 0 .. n \subseteq S
  <2> HIDE DEF S
  <2> QED
    BY <1>3, <1>4, Climb
<1>6. AtMost(g[n], h[n])
  BY <1>3, <1>5
<1> QED
  BY <1>1, <1>2, <1>6
-------------------------------------------------------------------------------
\* Fills in an order.

\* R is a strict order of the elements of S.
Orders(R, S) ==
    /\ \A i \in S : <<i, i>> \notin R
    /\ \A i, j \in S : i # j => <<i, j>> \in R \/ <<j, i>> \in R
    /\ \A i, j, k \in S : <<i, j>> \in R /\ <<j, k>> \in R => <<i, k>> \in R
Before(R, S, i) == {other \in S : <<other, i>> \in R}

\* In a strict order of n elements exactly one has k - 1 others before it.
LEMMA Ranks ==
    ASSUME NEW S, IsFiniteSet(S), NEW R, Orders(R, S)
    PROVE  /\ \A i \in S : Cardinality(Before(R, S, i)) \in 0 .. Cardinality(S) - 1
           /\ \A i, j \in S : <<i, j>> \in R =>
                Cardinality(Before(R, S, i)) < Cardinality(Before(R, S, j))
           /\ \A k \in 1 .. Cardinality(S) :
                \E i \in S : Cardinality(Before(R, S, i)) = k - 1
<1> DEFINE n == Cardinality(S)
           rank == [i \in S |-> Cardinality(Before(R, S, i))]
<1>1. n \in Nat
  BY FS_CardinalityType
<1>2. ASSUME NEW i \in S
      PROVE  /\ IsFiniteSet(Before(R, S, i))
             /\ Cardinality(Before(R, S, i)) \in 0 .. n - 1
  <2> DEFINE B == Before(R, S, i)
  <2>1. B \subseteq S \ {i}
    BY DEF Before, Orders
  <2>2. IsFiniteSet(S \ {i}) /\ Cardinality(S \ {i}) = n - 1
    BY FS_RemoveElement
  <2> HIDE DEF B
  <2>3. IsFiniteSet(B) /\ Cardinality(B) <= n - 1
    BY <2>1, <2>2, FS_Subset
  <2>4. Cardinality(B) \in Nat
    BY <2>3, FS_CardinalityType
  <2>5. Cardinality(B) \in 0 .. n - 1
    BY <1>1, <2>3, <2>4
  <2> QED
    BY <2>3, <2>5 DEF B
<1>3. ASSUME NEW i \in S, NEW j \in S, <<i, j>> \in R PROVE rank[i] < rank[j]
  <2> DEFINE A == Before(R, S, i)
             B == Before(R, S, j)
  <2>1. A \subseteq B /\ i \in B /\ i \notin A
    BY <1>3 DEF Before, Orders
  <2>2. IsFiniteSet(B) /\ Cardinality(A) \in Nat /\ Cardinality(B) \in Nat
    BY <1>1, <1>2
  <2> HIDE DEF A, B
  <2>3. Cardinality(A) <= Cardinality(B) /\ Cardinality(A) # Cardinality(B)
    BY <2>1, <2>2, FS_Subset
  <2>4. Cardinality(A) < Cardinality(B)
    BY <2>2, <2>3
  <2> QED
    BY <2>4 DEF A, B
<1>4. rank \in [S -> 0 .. n - 1]
  BY <1>2
<1>5. rank \in Injection(S, 0 .. n - 1)
  <2>1. ASSUME NEW i \in S, NEW j \in S, rank[i] = rank[j] PROVE i = j
    <3> HIDE DEF rank
    <3>1. ~ (<<i, j>> \in R) /\ ~ (<<j, i>> \in R)
      BY <1>1, <1>3, <1>4, <2>1
    <3> QED
      BY <3>1 DEF Orders
  <2> HIDE DEF rank
  <2> QED
    BY <1>4, <2>1 DEF Injection, IsInjective
<1>6. IsFiniteSet(0 .. n - 1) /\ Cardinality(0 .. n - 1) = n
  <2>1. 0 \in Int /\ n - 1 \in Int
    BY <1>1
  <2>2. IsFiniteSet(0 .. n - 1)
        /\ Cardinality(0 .. n - 1) = IF 0 > n - 1 THEN 0 ELSE (n - 1) - 0 + 1
    BY <2>1, FS_Interval
  <2> QED
    BY <1>1, <2>2
<1>7. rank \in Surjection(S, 0 .. n - 1)
  <2> HIDE DEF rank
  <2> QED
    BY <1>5, <1>6, FS_Injection
<1>8. ASSUME NEW k \in 1 .. n PROVE \E i \in S : Cardinality(Before(R, S, i)) = k - 1
  <2>1. k - 1 \in 0 .. n - 1
    BY <1>1
  <2>2. PICK i \in S : rank[i] = k - 1
    BY <1>7, <2>1 DEF Surjection
  <2> QED
    BY <2>2
<1> QED
  BY <1>2, <1>3, <1>8

Log == Seq([fill : Kinds, at : Nat])

\* The order in which fills happened, and the one that a backfill sorts them into.
Happens(ids) == {r \in ids \X ids : r[1] < r[2]}
Sorts(ids) == {r \in ids \X ids : Earlier(r[1], r[2])}

LEMMA LogEntries ==
    ASSUME fills \in Log
    PROVE  /\ Len(fills) \in Nat /\ DOMAIN fills = 1 .. Len(fills)
           /\ \A i \in DOMAIN fills : fills[i].fill \in Kinds /\ fills[i].at \in Nat
<1> DEFINE Entry == [fill : Kinds, at : Nat]
<1>1. fills \in Seq(Entry)
  BY DEF Log
<1>2. \A e \in Entry : e.fill \in Kinds /\ e.at \in Nat
  OBVIOUS
<1> HIDE DEF Entry
<1>3. Len(fills) \in Nat /\ DOMAIN fills = 1 .. Len(fills)
      /\ \A i \in 1 .. Len(fills) : fills[i] \in Entry
  BY <1>1
<1> QED
  BY <1>2, <1>3

LEMMA BothOrder ==
    ASSUME fills \in Log, NEW ids \in SUBSET DOMAIN fills
    PROVE  IsFiniteSet(ids) /\ Orders(Happens(ids), ids) /\ Orders(Sorts(ids), ids)
<1>1. DOMAIN fills = 1 .. Len(fills) /\ Len(fills) \in Nat
  BY DEF Log
<1>2. IsFiniteSet(1 .. Len(fills))
  BY <1>1, FS_Interval
<1>3. IsFiniteSet(ids) /\ ids \subseteq Nat
  BY <1>1, <1>2, FS_Subset
<1>4. \A i \in ids : fills[i].at \in Nat
  BY LogEntries
<1>5. Orders(Happens(ids), ids)
  <2>1. \A i, j \in ids : <<i, j>> \in Happens(ids) <=> i < j
    BY DEF Happens
  <2> QED
    BY <1>3, <2>1 DEF Orders
<1>6. Orders(Sorts(ids), ids)
  <2>1. \A i, j \in ids : <<i, j>> \in Sorts(ids) <=> Earlier(i, j)
    BY DEF Sorts
  <2>2. \A i \in ids : ~ Earlier(i, i)
    BY <1>3, <1>4 DEF Earlier
  <2>3. \A i, j \in ids : i # j => Earlier(i, j) \/ Earlier(j, i)
    BY <1>3, <1>4 DEF Earlier
  <2>4. \A i, j, k \in ids : Earlier(i, j) /\ Earlier(j, k) => Earlier(i, k)
    BY <1>3, <1>4 DEF Earlier
  <2> QED
    BY <2>1, <2>2, <2>3, <2>4 DEF Orders
<1> QED
  BY <1>3, <1>5, <1>6

\* Both orders of some fills list each of them.
LEMMA InOrderIs ==
    ASSUME fills \in Log, NEW ids \in SUBSET DOMAIN fills
    PROVE  /\ Cardinality(ids) \in Nat
           /\ AsHappened(ids) \in [1 .. Cardinality(ids) -> Kinds]
           /\ History(ids) \in [1 .. Cardinality(ids) -> Kinds]
<1> DEFINE n == Cardinality(ids)
<1>1. IsFiniteSet(ids) /\ Orders(Happens(ids), ids) /\ Orders(Sorts(ids), ids)
  BY BothOrder
<1>2. n \in Nat
  BY <1>1, FS_CardinalityType
<1>3. \A i \in ids : fills[i].fill \in Kinds
  BY LogEntries
<1>4. AsHappened(ids) \in [1 .. n -> Kinds]
  <2> DEFINE P(k, id) == Cardinality({other \in ids : other < id}) = k - 1
  <2>1. ASSUME NEW id \in ids
        PROVE  Before(Happens(ids), ids, id) = {other \in ids : other < id}
    BY DEF Before, Happens
  <2>2. \A k \in 1 .. n : \E id \in ids : P(k, id)
    <3>1. \A k \in 1 .. n :
            \E id \in ids : Cardinality(Before(Happens(ids), ids, id)) = k - 1
      BY <1>1, Ranks
    <3> QED
      BY <2>1, <3>1
  <2>3. AsHappened(ids) = [k \in 1 .. n |-> fills[CHOOSE id \in ids : P(k, id)].fill]
    BY DEF AsHappened, InOrder
  <2> HIDE DEF P
  <2> QED
    BY <1>3, <2>2, <2>3
<1>5. History(ids) \in [1 .. n -> Kinds]
  <2> DEFINE P(k, id) == Cardinality({other \in ids : Earlier(other, id)}) = k - 1
  <2>1. ASSUME NEW id \in ids
        PROVE  Before(Sorts(ids), ids, id) = {other \in ids : Earlier(other, id)}
    BY DEF Before, Sorts
  <2>2. \A k \in 1 .. n : \E id \in ids : P(k, id)
    <3>1. \A k \in 1 .. n :
            \E id \in ids : Cardinality(Before(Sorts(ids), ids, id)) = k - 1
      BY <1>1, Ranks
    <3> QED
      BY <2>1, <3>1
  <2>3. History(ids) = [k \in 1 .. n |-> fills[CHOOSE id \in ids : P(k, id)].fill]
    BY DEF History, InOrder
  <2> HIDE DEF P
  <2> QED
    BY <1>3, <2>2, <2>3
<1> QED
  BY <1>2, <1>4, <1>5
-------------------------------------------------------------------------------
\* Bookings and replays.

States == [position : Int, entry : Entries]
After(s, f) ==
    LET new == s.position + Signed(f) IN
    [position |-> new,
     entry |-> FoldEntry(s.position, new, s.entry, f.size, PriceYes(f))]

LEMMA KindIs ==
    ASSUME NEW f \in Kinds
    PROVE  /\ f.ticker \in Tickers /\ f.size \in Positive /\ f.taker \in BOOLEAN
           /\ PriceYes(f) \in 0 .. 100 /\ PriceYes(f) \in Int
           /\ Signed(f) = (IF LongYes(f) THEN f.size ELSE -f.size)
           /\ Signed(f) \in Int /\ Signed(f) # 0
           /\ YesCost(f) = Signed(f) * PriceYes(f)
<1>1. /\ f.ticker \in Tickers /\ f.size \in Positive /\ f.taker \in BOOLEAN
      /\ f.price \in 0 .. 100 /\ f.action \in {"buy", "sell"}
  BY KindAssumption DEF Positive, Dollar
<1>2. PriceYes(f) \in 0 .. 100
  BY <1>1 DEF PriceYes, Dollar
<1>3. Signed(f) = (IF LongYes(f) THEN f.size ELSE -f.size)
      /\ Signed(f) \in Int /\ Signed(f) # 0
  BY <1>1 DEF Signed, Positive
<1>4. YesCost(f) = Signed(f) * PriceYes(f)
  BY DEF YesCost, Signed, LongYes
<1>5. PriceYes(f) \in Int
  BY <1>2
<1> QED
  BY <1>1, <1>2, <1>3, <1>4, <1>5

LEMMA FeeIs ==
    ASSUME NEW f \in Kinds
    PROVE  Fee(f) \in Nat
<1> DEFINE r == Rate[f.taker]
           s == f.size
           p == PriceYes(f)
           x == r * s * p * (100 - p)
           q == (-x) \div 1000000
<1>1. r \in Nat /\ s \in Nat /\ p \in 0 .. 100
  BY KindIs, RateAssumption DEF Positive
<1>2. x \in Nat
  <2> HIDE DEF r, s, p
  <2>1. r * s \in Nat /\ 100 - p \in Nat /\ p \in Nat
    BY <1>1
  <2>2. (r * s) * p \in Nat
    BY <2>1
  <2> QED
    BY <2>1, <2>2
<1>3. Fee(f) = -q
  <2>1. -Rate[f.taker] * f.size * PriceYes(f) * (Dollar - PriceYes(f)) = -x
    <3>1. Rate[f.taker] = r /\ f.size = s /\ PriceYes(f) = p /\ Dollar = 100
      BY DEF Dollar
    <3> HIDE DEF r, s, p
    <3> QED
      BY <1>1, <3>1
  <2> QED
    BY <2>1 DEF Fee
<1> HIDE DEF x
<1>4. q \in Int /\ q <= 0
  BY <1>2
<1> QED
  BY <1>3, <1>4

LEMMA AbsIs ==
    ASSUME NEW n \in Int
    PROVE  Abs(n) \in Nat /\ (Abs(n) = 0 <=> n = 0)
  BY DEF Abs

LEMMA ExtendedIs ==
    ASSUME NEW old \in Int, NEW before \in Fractions, NEW size \in Positive,
           NEW price \in Int, NEW d \in Positive, NEW m \in Int, Is(before, m, d)
    PROVE  Is(Extended(old, before, size, price),
              Abs(old) * m + size * price * d, d * (Abs(old) + size))
<1> DEFINE p == before.num
           k == before.den
           c == Abs(old)
           w == c + size
           num == c * p + size * price * k
           den == k * w
           x == c * m + size * price * d
           y == d * w
<1>1. p \in Int /\ k \in Positive /\ p * d = m * k
  BY FractionParts DEF Is
<1>2. before # Unknown
  BY UnknownIsNone
<1>3. Extended(old, before, size, price) = Ratio(num, den)
  BY <1>2 DEF Extended
<1>4. c \in Nat /\ size \in Nat /\ w \in Positive
  BY AbsIs DEF Positive
<1> HIDE DEF p, k, c
<1>5. num \in Int /\ x \in Int
  <2>1. c * p \in Int /\ size * price \in Int /\ c * m \in Int
    BY <1>1, <1>4
  <2>2. (size * price) * k \in Int /\ (size * price) * d \in Int
    BY <1>1, <2>1 DEF Positive
  <2> QED
    BY <2>1, <2>2
<1>6. den \in Positive /\ y \in Positive
  <2> HIDE DEF w
  <2>1. k \in Int /\ w \in Int /\ d \in Int
    BY <1>1, <1>4 DEF Positive
  <2> QED
    BY <1>1, <1>4, <2>1, Products
<1>7. num * d = x * k
  <2> DEFINE s == size * price
  <2>1. s \in Int
    BY <1>4
  <2> HIDE DEF s
  <2>2. (c * p + s * k) * d = c * (p * d) + s * k * d
    BY <1>1, <1>4, <2>1 DEF Positive
  <2>3. (c * m + s * d) * k = c * (m * k) + s * k * d
    BY <1>1, <1>4, <2>1 DEF Positive
  <2> QED
    BY <1>1, <2>2, <2>3 DEF s
<1>8. num * y = x * den
  <2> HIDE DEF num, x, w
  <2>1. num * (d * w) = (num * d) * w
    BY <1>4, <1>5 DEF Positive
  <2>2. x * (k * w) = (x * k) * w
    BY <1>1, <1>4, <1>5 DEF Positive
  <2> QED
    BY <1>7, <2>1, <2>2
<1> HIDE DEF num, den, x, y
<1>9. Ratio(num, den) = Ratio(x, y) /\ Is(Ratio(x, y), x, y)
  BY <1>5, <1>6, <1>8, SameRatio, IsRatio
<1>10. Is(Extended(old, before, size, price), x, y)
  BY <1>3, <1>9
<1> QED
  BY <1>10 DEF x, y, w, c

\* A first average is at the price, as if the entry had been there.
LEMMA ExtendedFromUnknown ==
    ASSUME NEW old, NEW size, NEW price
    PROVE  Extended(old, Unknown, size, price) = Extended(old, Whole(price), size, price)
<1>1. Whole(price) # Unknown
  BY DEF Whole, Unknown
<1> QED
  BY <1>1 DEF Extended

LEMMA EntryIs ==
    /\ Unknown \in Entries
    /\ \A e \in Entries : e = Unknown \/ e \in Fractions
    /\ \A price \in 0 .. 100 : Whole(price) \in Entries
<1>1. ASSUME NEW price \in 0 .. 100 PROVE Whole(price) \in Entries
  <2>1. 1 \in Positive /\ price * 1 = price /\ 0 * 1 = 0 /\ 100 * 1 = 100
    BY DEF Positive
  <2>2. price \in Int /\ Is(Whole(price), price, 1) /\ Is(Whole(0), 0, 1)
        /\ Is(Whole(100), 100, 1)
    BY <2>1, IsWhole
  <2>3. AtMost(Whole(0), Whole(price)) /\ AtMost(Whole(price), Whole(100))
    BY <2>1, <2>2, IsAtMost
  <2> QED
    BY <2>2, <2>3 DEF Entries, Is, Dollar
<1> QED
  BY <1>1 DEF Entries

\* An average of prices is a price.
LEMMA AverageIsPrice ==
    ASSUME NEW old \in Int, NEW before \in Entries, before # Unknown,
           NEW size \in Positive, NEW price \in 0 .. 100
    PROVE  Extended(old, before, size, price) \in Entries
<1> DEFINE c == Abs(old)
           w == c + size
           after == Extended(old, before, size, price)
<1>1. before \in Fractions /\ AtMost(Whole(0), before) /\ AtMost(before, Whole(100))
  BY DEF Entries, Dollar
<1>2. PICK d \in Positive, m \in Int, n \in Int : Is(before, m, d) /\ Is(before, n, d)
  BY <1>1, Common2
<1>3. ASSUME NEW e \in Positive
      PROVE  /\ Is(Whole(0), 0, e) /\ Is(Whole(100), 100 * e, e) /\ 100 * e \in Int
  <2>1. 0 * e = 0 /\ 100 * e \in Int
    BY DEF Positive
  <2> QED
    BY <2>1, IsWhole
<1>4. 0 <= m /\ m <= 100 * d
  BY <1>1, <1>2, <1>3, IsAtMost
<1>5. c \in Nat /\ size \in Nat /\ w \in Positive /\ price \in Nat /\ price <= 100
      /\ d \in Nat /\ m \in Nat
  BY <1>4, AbsIs DEF Positive
<1> DEFINE x == c * m + size * price * d
           y == d * w
<1>6. Is(after, x, y)
  BY <1>1, <1>2, ExtendedIs
<1> HIDE DEF c, after
<1>7. y \in Positive
  <2> HIDE DEF w
  <2> QED
    BY <1>5, Products DEF Positive
<1>8. x \in Int /\ 0 <= x /\ x <= 100 * y
  <2> DEFINE q == price * d
             u == 100 * d
  <2>1. q \in Nat /\ u \in Nat /\ q <= u /\ m <= u
    BY <1>4, <1>5
  <2>2. x = c * m + size * q /\ 100 * y = c * u + size * u
    BY <1>5
  <2> HIDE DEF q, u
  <2>3. c * m \in Nat /\ size * q \in Nat /\ c * u \in Nat /\ size * u \in Nat
    BY <1>5, <2>1
  <2>4. c * m <= c * u /\ size * q <= size * u
    BY <1>5, <2>1
  <2> HIDE DEF x, y
  <2> QED
    BY <2>2, <2>3, <2>4
<1> HIDE DEF x, y
<1>9. AtMost(Whole(0), after) /\ AtMost(after, Whole(100))
  BY <1>3, <1>6, <1>7, <1>8, IsAtMost
<1> QED
  BY <1>6, <1>9 DEF Entries, Is, after, Dollar

LEMMA FoldType ==
    ASSUME NEW old \in Int, NEW new \in Int, NEW before \in Entries,
           NEW size \in Positive, NEW price \in 0 .. 100
    PROVE  /\ FoldEntry(old, new, before, size, price) \in Entries
           /\ new = 0 => FoldEntry(old, new, before, size, price) = Unknown
<1>1. Whole(price) \in Entries
  BY EntryIs
<1>2. Extended(old, before, size, price) \in Entries
  <2>1. CASE before = Unknown
    <3>1. Whole(price) # Unknown
      BY DEF Whole, Unknown
    <3>2. Extended(old, Whole(price), size, price) \in Entries
      BY <1>1, <3>1, AverageIsPrice
    <3> QED
      BY <2>1, <3>2, ExtendedFromUnknown
  <2>2. CASE before # Unknown
    BY <2>2, AverageIsPrice
  <2> QED
    BY <2>1, <2>2
<1>3. FoldEntry(old, new, before, size, price)
        \in {Unknown, Whole(price), Extended(old, before, size, price), before}
  BY DEF FoldEntry
<1>4. new = 0 => FoldEntry(old, new, before, size, price) = Unknown
  BY DEF FoldEntry, Abs
<1> QED
  BY <1>1, <1>2, <1>3, <1>4, EntryIs

LEMMA AfterType ==
    ASSUME NEW s \in States, NEW f \in Kinds
    PROVE  /\ After(s, f) \in States
           /\ After(s, f).position = s.position + Signed(f)
           /\ After(s, f).position = 0 => After(s, f).entry = Unknown
<1> DEFINE new == s.position + Signed(f)
           e == FoldEntry(s.position, new, s.entry, f.size, PriceYes(f))
<1>1. After(s, f) = [position |-> new, entry |-> e]
  BY DEF After
<1>2. s.position \in Int /\ s.entry \in Entries
  BY DEF States
<1>3. new \in Int /\ f.size \in Positive /\ PriceYes(f) \in 0 .. 100
  BY <1>2, KindIs
<1> HIDE DEF new
<1>4. e \in Entries /\ (new = 0 => e = Unknown)
  BY <1>2, <1>3, FoldType
<1> HIDE DEF e
<1>5. After(s, f) \in States /\ After(s, f).position = new /\ After(s, f).entry = e
  BY <1>1, <1>3, <1>4 DEF States
<1> QED
  BY <1>4, <1>5 DEF new

\* A replay is a recursion: it exists, and each state follows from the one before.
LEMMA ReplaysIs ==
    ASSUME NEW n \in Nat, NEW log \in [1 .. n -> Kinds]
    PROVE  /\ Len(log) = n
           /\ Replays(log) \in [0 .. n -> States]
           /\ Replays(log)[0] = [position |-> 0, entry |-> Unknown]
           /\ \A k \in 1 .. n : Replays(log)[k] = After(Replays(log)[k - 1], log[k])
<1> DEFINE z == [position |-> 0, entry |-> Unknown]
           f == [k \in 1 .. n |-> [s \in States |-> After(s, log[k])]]
           Step(g) == [k \in 0 .. n |-> IF k = 0 THEN z ELSE After(g[k - 1], log[k])]
           held == CHOOSE g : g = Step(g)
<1>1. Len(log) = n
  OBVIOUS
<1>2. z \in States /\ f \in [1 .. n -> [States -> States]]
  <2>1. z \in States
    BY EntryIs DEF States
  <2>2. ASSUME NEW k \in 1 .. n, NEW s \in States PROVE After(s, log[k]) \in States
    BY AfterType
  <2> QED
    BY <2>1, <2>2
<1> HIDE DEF z
<1>3. PICK g : Chain(n, States, z, f, g)
  <2> HIDE DEF f
  <2> QED
    BY <1>2, ChainsExist
<1>4. ASSUME NEW k \in 1 .. n PROVE g[k] = After(g[k - 1], log[k])
  <2>1. g[k - 1] \in States /\ g[k] = f[k][g[k - 1]]
    BY <1>3 DEF Chain
  <2> QED
    BY <2>1
<1>5. g = Step(g)
  <2>1. ASSUME NEW k \in 0 .. n
        PROVE  g[k] = IF k = 0 THEN z ELSE After(g[k - 1], log[k])
    <3>1. k = 0 \/ k \in 1 .. n
      OBVIOUS
    <3> QED
      BY <1>3, <1>4, <3>1 DEF Chain
  <2> QED
    BY <1>3, <2>1 DEF Chain
<1>6. held = Step(held)
  <2> HIDE DEF Step
  <2> QED
    BY <1>5
<1>7. Replays(log) = held
  BY <1>1 DEF Replays, After, z
<1> DEFINE S == {k \in 0 .. n : held[k] \in States}
<1> HIDE DEF held
<1>8. held[0] = z /\ \A k \in 1 .. n : held[k] = After(held[k - 1], log[k])
  <2>1. ASSUME NEW k \in 0 .. n
        PROVE  held[k] = IF k = 0 THEN z ELSE After(held[k - 1], log[k])
    BY <1>6
  <2>2. 0 \in 0 .. n /\ \A k \in 1 .. n : k \in 0 .. n /\ k # 0
    OBVIOUS
  <2> QED
    BY <2>1, <2>2
<1>9. 0 \in S
  BY <1>2, <1>8
<1>10. ASSUME NEW k \in 1 .. n, k - 1 \in S PROVE k \in S
  <2>1. held[k - 1] \in States /\ k \in 0 .. n /\ log[k] \in Kinds
    BY <1>10
  <2>2. After(held[k - 1], log[k]) \in States
    BY <2>1, AfterType
  <2> QED
    BY <1>8, <2>1, <2>2
<1>11. 0 .. n \subseteq S
  <2> HIDE DEF S
  <2> QED
    BY <1>9, <1>10, Climb
<1>12. DOMAIN held = 0 .. n /\ \A k \in 0 .. n : held[k] \in States
  BY <1>6, <1>11
<1>13. held \in [0 .. n -> States]
  BY <1>6, <1>12
<1> QED
  BY <1>1, <1>7, <1>8, <1>13 DEF z

\* The exchange's own sum.
LEMMA NetIs ==
    ASSUME NEW n \in Nat, NEW log \in [1 .. n -> Kinds]
    PROVE  Net(log) = Replay(log).position /\ Net(log) \in Int
<1> DEFINE Step(g) == [k \in 0 .. n |-> IF k = 0 THEN 0 ELSE g[k - 1] + Signed(log[k])]
           sum == CHOOSE g : g = Step(g)
           held == Replays(log)
           p == [k \in 0 .. n |-> held[k].position]
<1>1. /\ Len(log) = n /\ held \in [0 .. n -> States]
      /\ held[0] = [position |-> 0, entry |-> Unknown]
      /\ \A k \in 1 .. n : held[k] = After(held[k - 1], log[k])
  BY ReplaysIs
<1> HIDE DEF held
<1>2. p = Step(p)
  <2>1. ASSUME NEW k \in 0 .. n
        PROVE  p[k] = IF k = 0 THEN 0 ELSE p[k - 1] + Signed(log[k])
    <3>1. CASE k = 0
      BY <1>1, <3>1
    <3>2. CASE k # 0
      <4>1. k \in 1 .. n /\ k - 1 \in 0 .. n /\ log[k] \in Kinds /\ held[k - 1] \in States
        BY <1>1, <3>2
      <4>2. held[k].position = held[k - 1].position + Signed(log[k])
        BY <1>1, <4>1, AfterType
      <4> QED
        BY <3>2, <4>1, <4>2
    <3> QED
      BY <3>1, <3>2
  <2> QED
    BY <2>1
<1>3. sum = Step(sum)
  <2> HIDE DEF Step
  <2> QED
    BY <1>2
<1>4. Net(log) = sum[n]
  BY <1>1 DEF Net
<1> DEFINE S == {k \in 0 .. n : sum[k] = p[k]}
<1> HIDE DEF sum, p
<1>5. 0 \in S /\ \A k \in 1 .. n : k - 1 \in S => k \in S
  BY <1>2, <1>3
<1>6. 0 .. n \subseteq S
  <2> HIDE DEF S
  <2> QED
    BY <1>5, Climb
<1>7. Net(log) = p[n]
  BY <1>4, <1>6
<1>8. p[n] = held[n].position /\ held[n] \in States
  BY <1>1 DEF p
<1> QED
  BY <1>1, <1>7, <1>8 DEF States, Replay, held

LEMMA ReplayType ==
    ASSUME NEW n \in Nat, NEW log \in [1 .. n -> Kinds]
    PROVE  Replay(log) \in States
  BY ReplaysIs DEF Replay

LEMMA HeldType ==
    ASSUME fills \in Log
    PROVE  \A t \in Tickers : Held(t) \in Int /\ Replayed(t) \in States
<1> SUFFICES ASSUME NEW t \in Tickers PROVE Held(t) \in Int /\ Replayed(t) \in States
  OBVIOUS
<1>1. OfTicker(t) \subseteq DOMAIN fills
  BY DEF OfTicker
<1>2. Net(AsHappened(OfTicker(t))) \in Int
  BY <1>1, InOrderIs, NetIs
<1>3. NewestOf(OfTicker(t), HistoryCap) \subseteq DOMAIN fills
  BY <1>1 DEF NewestOf
<1>4. Replayed(t) \in States
  BY <1>3, InOrderIs, ReplayType DEF Replayed
<1> QED
  BY <1>2, <1>4 DEF Held
-------------------------------------------------------------------------------
\* What one booking does to the account of what was paid.

LEMMA IsReduced ==
    ASSUME NEW n \in Int, NEW d \in Positive, NEW e \in Positive, NEW a, Is(a, n * e, d * e)
    PROVE  Is(a, n, d)
<1>1. n * e \in Int /\ d * e \in Positive
  BY Products DEF Positive
<1>2. (n * e) * d = n * (d * e)
  BY DEF Positive
<1>3. Ratio(n * e, d * e) = Ratio(n, d)
  <2> DEFINE m == n * e
             k == d * e
  <2> HIDE DEF m, k
  <2>1. m \in Int /\ k \in Positive /\ m * d = n * k
    BY <1>1, <1>2 DEF m, k
  <2>2. Ratio(m, k) = Ratio(n, d)
    BY <2>1, SameRatio
  <2> QED
    BY <2>2 DEF m, k
<1>4. a = Ratio(n * e, d * e)
  BY <1>1, IsOne
<1> QED
  BY <1>3, <1>4, IsRatio

LEMMA WorthIs ==
    ASSUME NEW p \in Int
    PROVE  /\ Worth(p, Unknown) = Whole(0)
           /\ \A e \in Entries : Worth(p, e) \in Fractions
           /\ \A d \in Positive, m \in Int, e \in Fractions :
                Is(e, m, d) => Is(Worth(p, e), p * m, d)
           /\ \A e \in Entries : p = 0 => Worth(p, e) = Whole(0)
<1>1. Worth(p, Unknown) = Whole(0)
  BY DEF Worth
<1>2. ASSUME NEW e \in Fractions PROVE Worth(p, e) = Times(p, e)
  BY UnknownIsNone DEF Worth
<1>3. \A e \in Fractions : Worth(p, e) \in Fractions
  BY <1>2, AmountTypes
<1>4. Whole(0) \in Fractions
  BY IsWhole DEF Is, Positive
<1>5. \A d \in Positive, m \in Int, e \in Fractions :
        Is(e, m, d) => Is(Worth(p, e), p * m, d)
  BY <1>2, IsTimes
<1>6. ASSUME NEW e \in Fractions, p = 0 PROVE Worth(p, e) = Whole(0)
  <2>1. PICK d \in Positive, m \in Int, n \in Int : Is(e, m, d) /\ Is(e, n, d)
    BY Common2
  <2>2. p * m = 0 /\ 0 * d = 0
    BY <1>6 DEF Positive
  <2>3. Is(Worth(p, e), 0, d)
    BY <1>5, <2>1, <2>2
  <2>4. Is(Whole(0), 0, d)
    BY <2>2, IsWhole
  <2> QED
    BY <2>3, <2>4, IsSame
<1> QED
  BY <1>1, <1>3, <1>4, <1>5, <1>6, EntryIs

\* The factor of a close: what is closed, with the sign of the position.
Closed(old, f) ==
    LET closed == IF f.size < Abs(old) THEN f.size ELSE Abs(old)
    IN  IF old > 0 THEN closed ELSE -closed

LEMMA ClosedIs ==
    ASSUME NEW old \in Int, NEW f \in Kinds
    PROVE  /\ Closed(old, f) \in Int
           /\ old # 0 /\ (old > 0) # LongYes(f)
                => Closed(old, f) = IF f.size < Abs(old) THEN -Signed(f) ELSE old
<1>1. f.size \in Nat
  BY KindIs DEF Positive
<1>2. Closed(old, f) \in Int
  BY <1>1 DEF Closed, Abs
<1>3. old # 0 /\ (old > 0) # LongYes(f)
        => Closed(old, f) = IF f.size < Abs(old) THEN -Signed(f) ELSE old
  BY <1>1, KindIs DEF Closed, Abs, LongYes
<1> QED
  BY <1>2, <1>3

LEMMA RealizedIs ==
    ASSUME NEW old \in Int, NEW before \in Entries, NEW f \in Kinds
    PROVE  /\ Realized(old, before, f) \in Fractions
           /\ before = Unknown \/ old = 0 \/ (old > 0) = LongYes(f)
                => Realized(old, before, f) = Whole(0)
           /\ before # Unknown /\ old # 0 /\ (old > 0) # LongYes(f)
                => Realized(old, before, f)
                     = Times(Closed(old, f), Minus(Whole(PriceYes(f)), before))
<1>1. PriceYes(f) \in Int
  BY KindIs
<1>2. Closed(old, f) \in Int
  BY ClosedIs
<1>3. before # Unknown =>
        Times(Closed(old, f), Minus(Whole(PriceYes(f)), before)) \in Fractions
  <2>1. SUFFICES ASSUME before \in Fractions
                 PROVE  Times(Closed(old, f), Minus(Whole(PriceYes(f)), before)) \in Fractions
    BY DEF Entries
  <2>2. Whole(PriceYes(f)) \in Fractions
    BY <1>1, <2>1, AmountTypes
  <2>3. Minus(Whole(PriceYes(f)), before) \in Fractions
    BY <1>1, <2>1, <2>2, AmountTypes
  <2> QED
    BY <1>2, <2>3, AmountTypes
<1>4. Whole(0) \in Fractions
  BY IsWhole DEF Is, Positive
<1>5. before = Unknown \/ old = 0 \/ (old > 0) = LongYes(f)
        => Realized(old, before, f) = Whole(0)
  BY DEF Realized
<1>6. before # Unknown /\ old # 0 /\ (old > 0) # LongYes(f)
        => Realized(old, before, f)
             = Times(Closed(old, f), Minus(Whole(PriceYes(f)), before))
  BY DEF Realized, Closed
<1> QED
  BY <1>3, <1>4, <1>5, <1>6

LEMMA Distributes ==
    ASSUME NEW x \in Int, NEW y \in Int, NEW z \in Int, NEW u \in Int
    PROVE  /\ x * (y - z) = x * y - x * z
           /\ (-x) * (y - z) = x * z - x * y
           /\ (x + u) * y = x * y + u * y
           /\ x * y \in Int /\ x * z \in Int /\ u * y \in Int
  OBVIOUS

\* The three kinds of bookings on a known entry price, and the opening one, at a
\* common denominator d: e is the entry price, c what was paid.
LEMMA Opens ==
    ASSUME NEW f \in Kinds, NEW c \in Int, NEW d \in Positive, NEW paid, Is(paid, c, d),
           NEW before
    PROVE  /\ FoldEntry(0, Signed(f), before, f.size, PriceYes(f)) = Whole(PriceYes(f))
           /\ Plus(Minus(paid, Whole(YesCost(f))), Worth(Signed(f), Whole(PriceYes(f)))) = paid
<1> DEFINE s == Signed(f)
           p == PriceYes(f)
<1>1. s \in Int /\ s # 0 /\ p \in Int /\ YesCost(f) = s * p
  BY KindIs
<1>2. FoldEntry(0, s, before, f.size, p) = Whole(p)
  <2> HIDE DEF s, p
  <2> QED
    BY <1>1 DEF FoldEntry
<1> HIDE DEF s, p
<1>3. p * d \in Int /\ s * p \in Int /\ (s * p) * d = s * (p * d) /\ s * (p * d) \in Int
  BY <1>1 DEF Positive
<1> DEFINE q == s * (p * d)
<1>4. Is(Whole(p), p * d, d) /\ Is(Whole(s * p), q, d)
  BY <1>1, <1>3, IsWhole
<1>5. Is(Worth(s, Whole(p)), q, d)
  <2>1. Whole(p) \in Fractions
    BY <1>4 DEF Is
  <2> QED
    BY <1>1, <1>3, <1>4, <2>1, WorthIs
<1> HIDE DEF q
<1>6. q \in Int
  BY <1>3 DEF q
<1>7. Is(Minus(paid, Whole(s * p)), c - q, d) /\ c - q \in Int
  BY <1>4, <1>6, IsMinus
<1>8. Is(Plus(Minus(paid, Whole(s * p)), Worth(s, Whole(p))), (c - q) + q, d)
  BY <1>5, <1>6, <1>7, IsPlus
<1>9. (c - q) + q = c
  BY <1>6
<1>10. Plus(Minus(paid, Whole(s * p)), Worth(s, Whole(p))) = paid
  BY <1>8, <1>9, IsSame
<1> QED
  BY <1>1, <1>2, <1>10 DEF s, p

LEMMA Extends ==
    ASSUME NEW f \in Kinds, NEW old \in Int, old # 0, (old > 0) = LongYes(f),
           NEW c \in Int, NEW e \in Int, NEW d \in Positive,
           NEW paid, Is(paid, c, d), NEW before, Is(before, e, d)
    PROVE  LET new == old + Signed(f)
               after == FoldEntry(old, new, before, f.size, PriceYes(f))
           IN  Plus(Minus(paid, Whole(YesCost(f))), Worth(new, after))
                 = Plus(paid, Worth(old, before))
<1> DEFINE s == Signed(f)
           p == PriceYes(f)
           size == f.size
           new == old + s
           w == Abs(old) + size
           g == IF old > 0 THEN 1 ELSE -1
           x == Abs(old) * e + size * p * d
           after == Extended(old, before, size, p)
<1>1. s \in Int /\ s # 0 /\ p \in Int /\ YesCost(f) = s * p /\ size \in Positive
      /\ s = IF LongYes(f) THEN size ELSE -size
  BY KindIs
<1>2. before \in Fractions
  BY DEF Is
<1>3. /\ new \in Int /\ new # 0 /\ (old > 0) = (new > 0) /\ Abs(new) > Abs(old)
      /\ w \in Positive /\ new = g * w /\ g * Abs(old) = old /\ g * size = s
      /\ Abs(old) \in Int /\ g \in Int
  <2> DEFINE l == LongYes(f)
  <2>1. l \in BOOLEAN /\ (old > 0) = l /\ s = IF l THEN size ELSE -size
    BY <1>1 DEF LongYes
  <2> HIDE DEF s, p, size, l
  <2>2. CASE old > 0
    <3>1. l /\ s = size /\ Abs(old) = old /\ new = old + size /\ new > 0 /\ Abs(new) = new
          /\ size \in Nat /\ size > 0
      BY <1>1, <2>1, <2>2 DEF Abs, Positive
    <3> QED
      BY <2>2, <3>1 DEF Positive
  <2>3. CASE ~ (old > 0)
    <3>1. ~ l /\ s = -size /\ Abs(old) = -old /\ new = old - size /\ new < 0
          /\ Abs(new) = -new /\ size \in Nat /\ size > 0
      BY <1>1, <2>1, <2>3 DEF Abs, Positive
    <3> QED
      BY <2>3, <3>1 DEF Positive
  <2> QED
    BY <2>2, <2>3
<1>4. FoldEntry(old, new, before, size, p) = after
  <2> HIDE DEF s, p, new, size, after
  <2>1. (old > 0) = (new > 0) /\ new # 0 /\ old # 0 /\ Abs(new) > Abs(old)
    BY <1>3
  <2> QED
    BY <2>1 DEF FoldEntry, after
<1>5. Is(after, x, d * w)
  <2> HIDE DEF s, p, size
  <2> QED
    BY <1>1, <1>2, ExtendedIs
<1> HIDE DEF s, p, size, new, w, g, after
<1> DEFINE a == Abs(old)
           q == s * (p * d)
           u == old * e
<1> HIDE DEF a
<1>6. x = a * e + (size * p) * d /\ x \in Int /\ a \in Int /\ g * x = u + q
      /\ q \in Int /\ u \in Int
  <2>1. a \in Int /\ g * a = old /\ size \in Int /\ p \in Int /\ g \in Int /\ s \in Int
        /\ d \in Int
    BY <1>1, <1>3 DEF a, Positive
  <2>2. a * e \in Int /\ size * p \in Int /\ (size * p) * d \in Int /\ p * d \in Int
    BY <2>1
  <2>3. g * (a * e) = (g * a) * e /\ g * ((size * p) * d) = (g * size) * (p * d)
    BY <2>1
  <2>4. x = a * e + (size * p) * d
    BY DEF a
  <2>5. g * (a * e + (size * p) * d) = g * (a * e) + g * ((size * p) * d)
    <3> DEFINE y == a * e
               z == (size * p) * d
    <3>1. y \in Int /\ z \in Int
      BY <2>2
    <3> HIDE DEF y, z
    <3>2. g * (y + z) = g * y + g * z
      BY <2>1, <3>1
    <3> QED
      BY <3>2 DEF y, z
  <2>6. g * x = u + q
    BY <1>3, <2>1, <2>3, <2>4, <2>5
  <2> QED
    BY <2>1, <2>2, <2>4, <2>6
<1> HIDE DEF x
<1>7. Is(Worth(new, after), new * x, d * w)
  <2>1. after \in Fractions /\ d * w \in Positive
    BY <1>3, <1>5, Products DEF Is, Positive
  <2> QED
    BY <1>3, <1>5, <1>6, <2>1, WorthIs
<1>8. new * x = (g * x) * w
  BY <1>3, <1>6 DEF Positive
<1>9. g * x \in Int
  BY <1>3, <1>6
<1>10. Is(Worth(new, after), g * x, d)
  BY <1>3, <1>7, <1>8, <1>9, IsReduced
<1> DEFINE z == g * x
<1>11. Is(Worth(new, after), u + q, d)
  BY <1>6, <1>10
<1>12. Is(Whole(s * p), q, d)
  <2>1. s * p \in Int /\ (s * p) * d = q
    BY <1>1 DEF Positive
  <2> QED
    BY <2>1, IsWhole
<1>13. Is(Worth(old, before), u, d)
  BY <1>2, WorthIs
<1> HIDE DEF q, u
<1>14. Is(Minus(paid, Whole(s * p)), c - q, d) /\ c - q \in Int /\ u + q \in Int
  BY <1>6, <1>12, IsMinus
<1>15. Is(Plus(Minus(paid, Whole(s * p)), Worth(new, after)), (c - q) + (u + q), d)
  BY <1>11, <1>14, IsPlus
<1>16. Is(Plus(paid, Worth(old, before)), c + u, d) /\ c + u \in Int
  BY <1>6, <1>13, IsPlus
<1>17. (c - q) + (u + q) = c + u
  BY <1>6
<1>18. Plus(Minus(paid, Whole(s * p)), Worth(new, after)) = Plus(paid, Worth(old, before))
  BY <1>15, <1>16, <1>17, IsSame
<1> QED
  BY <1>1, <1>4, <1>18 DEF new, s, p, size
LEMMA Closes ==
    ASSUME NEW f \in Kinds, NEW old \in Int, old # 0, (old > 0) # LongYes(f),
           NEW c \in Int, NEW e \in Int, NEW d \in Positive,
           NEW paid, Is(paid, c, d), NEW before, Is(before, e, d)
    PROVE  LET new == old + Signed(f)
               after == FoldEntry(old, new, before, f.size, PriceYes(f))
               gain == Times(Closed(old, f), Minus(Whole(PriceYes(f)), before))
           IN  Plus(Minus(paid, Whole(YesCost(f))), Worth(new, after))
                 = Plus(Plus(paid, Worth(old, before)), gain)
<1> DEFINE s == Signed(f)
           p == PriceYes(f)
           size == f.size
           new == old + s
           k == Closed(old, f)
           after == FoldEntry(old, new, before, size, p)
           gain == Times(k, Minus(Whole(p), before))
<1>1. s \in Int /\ s # 0 /\ p \in Int /\ YesCost(f) = s * p /\ size \in Positive
      /\ s = IF LongYes(f) THEN size ELSE -size
  BY KindIs
<1>2. before \in Fractions /\ before # Unknown
  BY UnknownIsNone DEF Is
<1>3. k = IF size < Abs(old) THEN -s ELSE old
  BY ClosedIs
<1>4. /\ new \in Int
      /\ size < Abs(old) => new # 0 /\ (old > 0) = (new > 0) /\ ~ (Abs(new) > Abs(old))
      /\ ~ (size < Abs(old)) => new = 0 \/ (new # 0 /\ (old > 0) # (new > 0))
  <2> DEFINE l == LongYes(f)
  <2>1. l \in BOOLEAN /\ (old > 0) # l /\ s = IF l THEN size ELSE -size
    BY <1>1 DEF LongYes
  <2> HIDE DEF s, p, size, l
  <2>2. CASE old > 0
    <3>1. ~ l /\ s = -size /\ Abs(old) = old /\ new = old - size /\ size \in Nat /\ size > 0
      BY <1>1, <2>1, <2>2 DEF Abs, Positive
    <3> QED
      BY <2>2, <3>1 DEF Abs
  <2>3. CASE ~ (old > 0)
    <3>1. l /\ s = size /\ Abs(old) = -old /\ new = old + size /\ size \in Nat /\ size > 0
      BY <1>1, <2>1, <2>3 DEF Abs, Positive
    <3> QED
      BY <2>3, <3>1 DEF Abs
  <2> QED
    BY <2>2, <2>3
<1>5. /\ size < Abs(old) => after = before
      /\ new = 0 => after = Unknown
      /\ new # 0 /\ ~ (size < Abs(old)) => after = Whole(p)
  <2> HIDE DEF s, p, size, new
  <2>1. size < Abs(old) => after = before
    BY <1>4 DEF FoldEntry
  <2>2. new = 0 => after = Unknown
    BY <1>4 DEF FoldEntry, Abs
  <2>3. new # 0 /\ ~ (size < Abs(old)) => after = Whole(p)
    BY <1>4 DEF FoldEntry
  <2> QED
    BY <2>1, <2>2, <2>3
<1> HIDE DEF s, p, size, k, after
<1> DEFINE q == p * d
           sq == s * q
           se == s * e
           oe == old * e
           oq == old * q
<1>6. q \in Int /\ sq \in Int /\ se \in Int /\ oe \in Int /\ oq \in Int
  BY <1>1 DEF Positive
<1>7. Is(Whole(p), q, d) /\ Is(Whole(s * p), sq, d)
  <2>1. s * p \in Int /\ (s * p) * d = sq
    BY <1>1 DEF Positive
  <2> QED
    BY <1>1, <2>1, IsWhole
<1>8. Is(Plus(paid, Worth(old, before)), c + oe, d)
  BY <1>2, <1>6, WorthIs, IsPlus
<1>9. Is(Minus(paid, Whole(s * p)), c - sq, d)
  BY <1>6, <1>7, IsMinus
<1>10. Is(Minus(Whole(p), before), q - e, d) /\ q - e \in Int
  BY <1>6, <1>7, IsMinus
<1>11. Plus(Minus(paid, Whole(s * p)), Worth(new, after))
         = Plus(Plus(paid, Worth(old, before)), gain)
  <2>1. CASE size < Abs(old)
    <3>1. k = -s /\ after = before
      BY <1>3, <1>5, <2>1
    <3>2. Is(gain, (-s) * (q - e), d)
      BY <1>1, <1>10, <3>1, IsTimes
    <3>3. (-s) * (q - e) = se - sq /\ new * e = oe + se
      <4> HIDE DEF q
      <4> QED
        BY <1>1, <1>6, Distributes
    <3>4. Is(gain, se - sq, d) /\ Is(Worth(new, after), oe + se, d)
      BY <1>2, <1>4, <3>1, <3>2, <3>3, WorthIs
    <3> HIDE DEF sq, se, oe, oq, gain, new
    <3>5. Is(Plus(Minus(paid, Whole(s * p)), Worth(new, after)), (c - sq) + (oe + se), d)
      <4>1. c - sq \in Int /\ oe + se \in Int
        BY <1>6
      <4> QED
        BY <1>9, <3>4, <4>1, IsPlus
    <3>6. Is(Plus(Plus(paid, Worth(old, before)), gain), (c + oe) + (se - sq), d)
      <4>1. c + oe \in Int /\ se - sq \in Int
        BY <1>6
      <4> QED
        BY <1>8, <3>4, <4>1, IsPlus
    <3>7. (c - sq) + (oe + se) = (c + oe) + (se - sq) /\ (c + oe) + (se - sq) \in Int
      BY <1>6
    <3> QED
      BY <3>5, <3>6, <3>7, IsSame
  <2>2. CASE ~ (size < Abs(old))
    <3>1. Is(gain, old * (q - e), d)
      BY <1>3, <1>10, <2>2, IsTimes
    <3>2. old * (q - e) = oq - oe
      <4> HIDE DEF q
      <4> QED
        BY <1>1, <1>6, Distributes
    <3>3. Is(gain, oq - oe, d)
      BY <3>1, <3>2
    <3>4. Is(Worth(new, after), oq + sq, d)
      <4>1. CASE new = 0
        <5>1. Worth(new, after) = Whole(0) /\ 0 * d = 0
          BY <1>4, <1>5, <4>1, WorthIs DEF Positive
        <5>2. oq + sq = 0
          <6>1. (old + s) * q = oq + sq
            <7> HIDE DEF q
            <7> QED
              BY <1>1, <1>6, Distributes
          <6>2. 0 * q = 0
            BY <1>6
          <6> QED
            BY <4>1, <6>1, <6>2
        <5>3. Is(Whole(0), 0, d)
          BY <5>1, IsWhole
        <5> QED
          BY <5>1, <5>2, <5>3
      <4>2. CASE new # 0
        <5>1. after = Whole(p) /\ after \in Fractions
          BY <1>5, <1>7, <2>2, <4>2 DEF Is
        <5>2. Is(Worth(new, after), new * q, d)
          BY <1>4, <1>6, <1>7, <5>1, WorthIs
        <5>3. new * q = oq + sq
          <6> HIDE DEF q
          <6> QED
            BY <1>1, <1>6, Distributes
        <5> QED
          BY <5>2, <5>3
      <4> QED
        BY <4>1, <4>2
    <3> HIDE DEF sq, se, oe, oq, gain, new
    <3>5. Is(Plus(Minus(paid, Whole(s * p)), Worth(new, after)), (c - sq) + (oq + sq), d)
      <4>1. c - sq \in Int /\ oq + sq \in Int
        BY <1>6
      <4> QED
        BY <1>9, <3>4, <4>1, IsPlus
    <3>6. Is(Plus(Plus(paid, Worth(old, before)), gain), (c + oe) + (oq - oe), d)
      <4>1. c + oe \in Int /\ oq - oe \in Int
        BY <1>6
      <4> QED
        BY <1>8, <3>3, <4>1, IsPlus
    <3>7. (c - sq) + (oq + sq) = (c + oe) + (oq - oe) /\ (c + oe) + (oq - oe) \in Int
      BY <1>6
    <3> QED
      BY <3>5, <3>6, <3>7, IsSame
  <2> QED
    BY <2>1, <2>2
<1> QED
  BY <1>1, <1>11 DEF after, k, s, p, size

\* Whatever a fill does to a known position, it keeps the balance.
LEMMA BookingBalances ==
    ASSUME NEW f \in Kinds, NEW old \in Int, NEW before \in Entries, NEW paid \in Fractions,
           old # 0 => before # Unknown
    PROVE  LET new == old + Signed(f)
               after == FoldEntry(old, new, before, f.size, PriceYes(f))
           IN  Plus(Plus(paid, Worth(old, before)), Realized(old, before, f))
                 = Plus(Minus(paid, Whole(YesCost(f))), Worth(new, after))
<1>1. CASE old = 0
  <2>1. Signed(f) \in Int
    BY KindIs
  <2>2. Worth(old, before) = Whole(0) /\ Realized(old, before, f) = Whole(0)
    BY <1>1, <2>1, WorthIs, RealizedIs
  <2>3. old + Signed(f) = Signed(f)
    BY <1>1, <2>1
  <2>4. PICK d \in Positive, c \in Int, m \in Int : Is(paid, c, d) /\ Is(paid, m, d)
    BY Common2
  <2>5. Plus(Plus(paid, Whole(0)), Whole(0)) = paid
    BY PlusZero
  <2> QED
    BY <1>1, <2>1, <2>2, <2>3, <2>4, <2>5, Opens
<1>2. CASE old # 0
  <2>1. before # Unknown /\ before \in Fractions
    BY <1>2 DEF Entries
  <2>2. PICK d \in Positive, c \in Int, e \in Int : Is(paid, c, d) /\ Is(before, e, d)
    BY <2>1, Common2
  <2>3. CASE (old > 0) = LongYes(f)
    <3>1. Realized(old, before, f) = Whole(0)
      BY <2>3, RealizedIs
    <3>2. Plus(paid, Worth(old, before)) \in Fractions
      <4>1. Worth(old, before) \in Fractions /\ 0 \in Int
        BY WorthIs
      <4> QED
        BY <4>1, AmountTypes
    <3>3. Plus(Plus(paid, Worth(old, before)), Whole(0)) = Plus(paid, Worth(old, before))
      BY <3>2, PlusZero
    <3> QED
      BY <1>2, <2>2, <2>3, <3>1, <3>3, Extends
  <2>4. CASE (old > 0) # LongYes(f)
    <3>1. Realized(old, before, f)
            = Times(Closed(old, f), Minus(Whole(PriceYes(f)), before))
      BY <1>2, <2>1, <2>4, RealizedIs
    <3> QED
      BY <1>2, <2>2, <2>4, <3>1, Closes
  <2> QED
    BY <2>3, <2>4
<1> QED
  BY <1>1, <1>2

\* A settlement pays out what the inventory is worth beyond its cost.
LEMMA SettlingBalances ==
    ASSUME NEW p \in Int, NEW v \in Int, NEW before \in Fractions, NEW paid \in Fractions
    PROVE  /\ Times(p, Minus(Whole(v), before)) \in Fractions
           /\ Plus(Plus(paid, Worth(p, before)), Times(p, Minus(Whole(v), before)))
                = Plus(Plus(paid, Whole(p * v)), Whole(0))
<1>1. PICK d \in Positive, c \in Int, e \in Int : Is(paid, c, d) /\ Is(before, e, d)
  BY Common2
<1> DEFINE q == v * d
           pe == p * e
           pq == p * q
<1>2. q \in Int /\ pe \in Int /\ pq \in Int /\ q - e \in Int
  BY DEF Positive
<1>3. Is(Whole(v), q, d) /\ Is(Whole(p * v), pq, d)
  <2>1. p * v \in Int /\ (p * v) * d = pq
    BY DEF Positive
  <2> QED
    BY <2>1, IsWhole
<1>4. Is(Times(p, Minus(Whole(v), before)), pq - pe, d)
  <2>1. Is(Minus(Whole(v), before), q - e, d)
    BY <1>1, <1>2, <1>3, IsMinus
  <2>2. p * (q - e) = pq - pe
    <3> HIDE DEF q
    <3> QED
      BY <1>2, Distributes
  <2>3. Is(Times(p, Minus(Whole(v), before)), p * (q - e), d)
    BY <1>2, <2>1, IsTimes
  <2> QED
    BY <2>2, <2>3
<1>5. Is(Worth(p, before), pe, d)
  BY <1>1, WorthIs
<1> HIDE DEF q, pe, pq
<1>6. Is(Plus(paid, Worth(p, before)), c + pe, d) /\ c + pe \in Int /\ pq - pe \in Int
  BY <1>1, <1>2, <1>5, IsPlus
<1>7. Is(Plus(Plus(paid, Worth(p, before)), Times(p, Minus(Whole(v), before))),
         (c + pe) + (pq - pe), d)
  BY <1>4, <1>6, IsPlus
<1>8. Is(Plus(paid, Whole(p * v)), c + pq, d) /\ c + pq \in Int
  BY <1>1, <1>2, <1>3, IsPlus
<1>9. (c + pe) + (pq - pe) = c + pq
  BY <1>2
<1>10. Plus(Plus(paid, Worth(p, before)), Times(p, Minus(Whole(v), before)))
         = Plus(paid, Whole(p * v))
  BY <1>7, <1>8, <1>9, IsSame
<1>11. Plus(paid, Whole(p * v)) \in Fractions
  BY <1>8 DEF Is
<1> QED
  BY <1>4, <1>10, <1>11, PlusZero DEF Is

LEMMA Restores ==
    ASSUME NEW a \in Fractions, NEW b \in Fractions
    PROVE  Minus(a, b) \in Fractions /\ Plus(Minus(a, b), b) = a
<1>1. PICK d \in Positive, m \in Int, n \in Int : Is(a, m, d) /\ Is(b, n, d)
  BY Common2
<1>2. Is(Minus(a, b), m - n, d) /\ m - n \in Int
  BY <1>1, IsMinus
<1>3. Is(Plus(Minus(a, b), b), (m - n) + n, d)
  BY <1>1, <1>2, IsPlus
<1>4. (m - n) + n = m
  OBVIOUS
<1> QED
  BY <1>1, <1>2, <1>3, <1>4, IsSame DEF Is

LEMMA TotalGrows ==
    ASSUME NEW s \in Fractions, NEW gain \in Fractions, NEW f \in Int, NEW x \in Int
    PROVE  /\ Plus(Minus(s, Whole(f)), Minus(gain, Whole(x)))
                = Minus(Plus(s, gain), Whole(f + x))
           /\ Plus(Minus(s, Whole(f)), gain) = Minus(Plus(s, gain), Whole(f))
<1>1. PICK d \in Positive, m \in Int, n \in Int : Is(s, m, d) /\ Is(gain, n, d)
  BY Common2
<1> DEFINE fd == f * d
           xd == x * d
<1>2. fd \in Int /\ xd \in Int /\ f + x \in Int /\ (f + x) * d = fd + xd
  BY DEF Positive
<1>3. Is(Whole(f), fd, d) /\ Is(Whole(x), xd, d)
  BY IsWhole
<1>4. Is(Whole(f + x), fd + xd, d)
  <2>1. Is(Whole(f + x), (f + x) * d, d)
    BY <1>2, IsWhole
  <2> QED
    BY <1>2, <2>1
<1> HIDE DEF fd, xd
<1>5. /\ Is(Minus(s, Whole(f)), m - fd, d) /\ Is(Minus(gain, Whole(x)), n - xd, d)
      /\ Is(Plus(s, gain), m + n, d)
      /\ m - fd \in Int /\ n - xd \in Int /\ m + n \in Int /\ fd + xd \in Int
  BY <1>1, <1>2, <1>3, IsMinus, IsPlus
<1>6. /\ Is(Plus(Minus(s, Whole(f)), Minus(gain, Whole(x))), (m - fd) + (n - xd), d)
      /\ Is(Plus(Minus(s, Whole(f)), gain), (m - fd) + n, d)
  BY <1>1, <1>5, IsPlus
<1>7. /\ Is(Minus(Plus(s, gain), Whole(f + x)), (m + n) - (fd + xd), d)
      /\ Is(Minus(Plus(s, gain), Whole(f)), (m + n) - fd, d)
  BY <1>2, <1>3, <1>4, <1>5, IsMinus
<1>8. (m - fd) + (n - xd) = (m + n) - (fd + xd) /\ (m - fd) + n = (m + n) - fd
      /\ (m + n) - fd \in Int /\ (m + n) - (fd + xd) \in Int
  BY <1>2
<1> QED
  BY <1>6, <1>7, <1>8, IsSame
-------------------------------------------------------------------------------
\* The invariant, action by action.
AccountInv == TypeOK /\ BooksBalance

Books == [Tickers -> Fractions]

LEMMA WholeType == ASSUME NEW n \in Int PROVE Whole(n) \in Fractions
  BY IsWhole DEF Is, Positive

LEMMA Zero == Whole(0) \in Fractions
  BY IsWhole DEF Is, Positive

LEMMA TypeFacts ==
    ASSUME TypeOK
    PROVE  /\ fills \in Log /\ Len(fills) <= MaxFills
           /\ settled \in [Tickers -> {"open"} \cup Results]
           /\ active \subseteq Tickers
           /\ position \in [Tickers -> Int] /\ entry \in [Tickers -> Entries]
           /\ realized \in Books /\ cash \in Books
           /\ daily \in Fractions /\ cumulative \in Fractions
           /\ booked \subseteq DOMAIN fills /\ running \in BOOLEAN
           /\ horizon \in 0 .. Len(fills) /\ boots \in Nat /\ fees \in Nat
  BY DEF TypeOK, Log, Books

LEMMA Begins == Init => AccountInv
<1> SUFFICES ASSUME Init PROVE AccountInv
  OBVIOUS
<1>1. TypeOK
  <2>1. fills \in Log /\ Len(fills) = 0 /\ booked \subseteq DOMAIN fills
    BY DEF Init, Log
  <2>2. Len(fills) <= MaxFills
    BY <2>1, BoundAssumption
  <2> QED
    BY <2>1, <2>2, Zero, EntryIs DEF Init, TypeOK, Log, Fresh
<1>2. \A t \in Tickers : realized[t] = Plus(cash[t], Worth(position[t], entry[t]))
  <2> SUFFICES ASSUME NEW t \in Tickers
               PROVE  realized[t] = Plus(cash[t], Worth(position[t], entry[t]))
    OBVIOUS
  <2>1. realized[t] = Whole(0) /\ cash[t] = Whole(0) /\ position[t] = 0 /\ entry[t] = Unknown
    BY DEF Init, Fresh
  <2>2. Worth(0, Unknown) = Whole(0)
    BY WorthIs
  <2> QED
    BY <2>1, <2>2, Zero, PlusZero
<1>3. cumulative = Minus(SumOver(realized), Whole(fees))
  <2>1. realized \in Books /\ \A t \in Tickers : realized[t] = Whole(0)
    BY Zero DEF Init, Fresh, Books
  <2>2. SumOver(realized) = Whole(0)
    BY <2>1, SumOfNothing DEF Books
  <2> QED
    BY <2>2, Zero, PlusZero DEF Init
<1> QED
  BY <1>1, <1>2, <1>3 DEF AccountInv, BooksBalance

\* A step that changes the account of one ticker at most keeps the balance of all
\* of them if it keeps that of this one.
LEMMA OneAccount ==
    ASSUME AccountInv, NEW t \in Tickers,
           \A u \in Tickers : u # t =>
             /\ position'[u] = position[u] /\ entry'[u] = entry[u]
             /\ realized'[u] = realized[u] /\ cash'[u] = cash[u],
           realized'[t] = Plus(cash'[t], Worth(position'[t], entry'[t]))
    PROVE  \A u \in Tickers : realized'[u] = Plus(cash'[u], Worth(position'[u], entry'[u]))
<1> SUFFICES ASSUME NEW u \in Tickers
             PROVE  realized'[u] = Plus(cash'[u], Worth(position'[u], entry'[u]))
  OBVIOUS
<1>1. realized[u] = Plus(cash[u], Worth(position[u], entry[u]))
  BY DEF AccountInv, BooksBalance
<1> QED
  BY <1>1

\* An account that starts over balances.
LEMMA FreshAccount ==
    ASSUME TypeOK, NEW t \in Tickers, realized' \in Books,
           position'[t] \in Int, entry'[t] \in Entries, StartOver(t)
    PROVE  /\ cash' \in Books
           /\ \A u \in Tickers : u # t => cash'[u] = cash[u]
           /\ realized'[t] = Plus(cash'[t], Worth(position'[t], entry'[t]))
<1> DEFINE w == Worth(position'[t], entry'[t])
           r == realized'[t]
<1>1. r \in Fractions /\ w \in Fractions /\ cash \in Books
  BY TypeFacts, WorthIs DEF Books
<1>2. cash' = [cash EXCEPT ![t] = Minus(r, w)]
  BY DEF StartOver
<1> HIDE DEF r, w
<1>3. Minus(r, w) \in Fractions /\ Plus(Minus(r, w), w) = r
  BY <1>1, Restores
<1>4. cash' \in Books /\ cash'[t] = Minus(r, w) /\ \A u \in Tickers : u # t => cash'[u] = cash[u]
  BY <1>1, <1>2, <1>3 DEF Books
<1>5. r = Plus(cash'[t], w)
  BY <1>3, <1>4
<1> QED
  BY <1>4, <1>5 DEF r, w

LEMMA ExchangeFills == AccountInv /\ ExchangeFill => AccountInv'
<1> SUFFICES ASSUME AccountInv, ExchangeFill PROVE AccountInv'
  OBVIOUS
<1>1. TypeOK /\ BooksBalance
  BY DEF AccountInv
<1>2. PICK f \in Kinds, wait \in Waits :
        /\ Len(fills) < MaxFills
        /\ fills' = Append(fills, [fill |-> f,
                      at |-> wait + IF fills = <<>> THEN 0 ELSE fills[Len(fills)].at])
  BY DEF ExchangeFill
<1>3. UNCHANGED <<settled, active, position, entry, moneyVars, running, booked,
                  boundVars, cash>>
  BY DEF ExchangeFill
<1> DEFINE at == wait + IF fills = <<>> THEN 0 ELSE fills[Len(fills)].at
           Entry == [fill : Kinds, at : Nat]
           new == [fill |-> f, at |-> at]
<1>4. fills \in Log /\ Len(fills) \in Nat /\ MaxFills \in Nat
  BY <1>1, TypeFacts, LogEntries, BoundAssumption
<1>5. at \in Nat
  <2>1. wait \in Nat
    BY WaitAssumption
  <2>2. fills # <<>> => fills[Len(fills)].at \in Nat
    BY <1>4, LogEntries DEF Log
  <2> QED
    BY <2>1, <2>2
<1>6. new \in Entry /\ fills' = Append(fills, new) /\ fills \in Seq(Entry)
  BY <1>2, <1>4, <1>5 DEF Log
<1> HIDE DEF Entry, new
<1>7. fills' \in Seq(Entry) /\ Len(fills') = Len(fills) + 1 /\ DOMAIN fills \subseteq DOMAIN fills'
  BY <1>6
<1>8. fills' \in Log /\ Len(fills') <= MaxFills
  BY <1>2, <1>4, <1>7 DEF Log, Entry
<1>9. horizon' \in 0 .. Len(fills')
  BY <1>1, <1>3, <1>4, <1>7, TypeFacts DEF boundVars
<1>10. TypeOK'
  BY <1>1, <1>3, <1>7, <1>8, <1>9 DEF TypeOK, Log, moneyVars, boundVars
<1>11. BooksBalance'
  BY <1>1, <1>3 DEF BooksBalance, moneyVars
<1> QED
  BY <1>10, <1>11 DEF AccountInv

LEMMA ExchangeSettled == AccountInv /\ ExchangeSettles => AccountInv'
<1> SUFFICES ASSUME AccountInv, ExchangeSettles PROVE AccountInv'
  OBVIOUS
<1>1. TypeOK /\ BooksBalance
  BY DEF AccountInv
<1>2. UNCHANGED <<fills, active, position, entry, moneyVars, running, booked, boundVars,
                  cash>>
  BY DEF ExchangeSettles
<1>3. settled' \in [Tickers -> {"open"} \cup Results]
  BY <1>1, TypeFacts DEF ExchangeSettles
<1>4. TypeOK'
  BY <1>1, <1>2, <1>3 DEF TypeOK, moneyVars, boundVars
<1>5. BooksBalance'
  BY <1>1, <1>2 DEF BooksBalance, moneyVars
<1> QED
  BY <1>4, <1>5 DEF AccountInv

LEMMA BooksAFill == AccountInv /\ BookFill => AccountInv'
<1> SUFFICES ASSUME AccountInv, BookFill PROVE AccountInv'
  OBVIOUS
<1>1. TypeOK /\ BooksBalance
  BY DEF AccountInv
<1>2. PICK id \in (horizon + 1 .. Len(fills)) \ booked :
        LET f == fills[id].fill
            t == f.ticker
            new == position[t] + Signed(f)
            gain == Realized(position[t], entry[t], f)
            net == Minus(gain, Whole(Fee(f)))
        IN
        /\ running
        /\ booked' = booked \cup {id}
        /\ position' = [position EXCEPT ![t] = new]
        /\ entry' = [entry EXCEPT ![t] = FoldEntry(position[t], new, @, f.size, PriceYes(f))]
        /\ realized' = [realized EXCEPT ![t] = Plus(@, gain)]
        /\ daily' = Plus(daily, net)
        /\ cumulative' = Plus(cumulative, net)
        /\ fees' = fees + Fee(f)
        /\ UNCHANGED <<exchangeVars, active, running, boundVars>>
        /\ IF position[t] # 0 /\ entry[t] = Unknown
           THEN StartOver(t)
           ELSE cash' = [cash EXCEPT ![t] = Minus(@, Whole(YesCost(f)))]
  BY DEF BookFill
<1> DEFINE f == fills[id].fill
           t == f.ticker
           old == position[t]
           before == entry[t]
           new == old + Signed(f)
           after == FoldEntry(old, new, before, f.size, PriceYes(f))
           gain == Realized(old, before, f)
           net == Minus(gain, Whole(Fee(f)))
           paid == cash[t]
           sum == SumOver(realized)
<1>3. id \in DOMAIN fills /\ f \in Kinds /\ t \in Tickers
  <2>1. fills \in Log /\ horizon \in Nat /\ Len(fills) \in Nat /\ DOMAIN fills = 1 .. Len(fills)
    BY <1>1, TypeFacts, LogEntries
  <2>2. id \in DOMAIN fills
    BY <2>1
  <2> QED
    BY <2>1, <2>2, LogEntries, KindIs
<1>4. /\ booked' = booked \cup {id} /\ running' = running
      /\ position' = [position EXCEPT ![t] = new]
      /\ entry' = [entry EXCEPT ![t] = after]
      /\ realized' = [realized EXCEPT ![t] = Plus(@, gain)]
      /\ daily' = Plus(daily, net) /\ cumulative' = Plus(cumulative, net)
      /\ fees' = fees + Fee(f)
      /\ IF old # 0 /\ before = Unknown
         THEN StartOver(t)
         ELSE cash' = [cash EXCEPT ![t] = Minus(@, Whole(YesCost(f)))]
      /\ UNCHANGED <<fills, settled, active, horizon, boots>>
  BY <1>2 DEF exchangeVars, boundVars
<1> HIDE DEF f, t
<1>5. /\ old \in Int /\ before \in Entries
      /\ paid \in Fractions /\ realized \in Books /\ fees \in Nat
      /\ daily \in Fractions /\ cumulative \in Fractions /\ sum \in Fractions
  BY <1>1, <1>3, TypeFacts, SumType DEF Books
<1>6. Signed(f) \in Int /\ PriceYes(f) \in 0 .. 100 /\ f.size \in Positive
      /\ YesCost(f) \in Int /\ Fee(f) \in Nat
  <2>1. Signed(f) \in Int /\ PriceYes(f) \in 0 .. 100 /\ f.size \in Positive
        /\ YesCost(f) = Signed(f) * PriceYes(f)
    BY <1>3, KindIs
  <2>2. Signed(f) * PriceYes(f) \in Int
    BY <1>3, <2>1, KindIs, Products
  <2>3. Fee(f) \in Nat
    BY <1>3, FeeIs
  <2> QED
    BY <2>1, <2>2, <2>3
<1>7. new \in Int /\ gain \in Fractions /\ after \in Entries
  <2>1. new \in Int
    BY <1>5, <1>6
  <2> HIDE DEF old, before, new
  <2> QED
    BY <1>3, <1>5, <1>6, <2>1, FoldType, RealizedIs
<1>8. net \in Fractions
  <2> HIDE DEF gain
  <2>1. Fee(f) \in Int
    BY <1>6
  <2>2. Whole(Fee(f)) \in Fractions
    BY <2>1, WholeType
  <2> QED
    BY <1>7, <2>1, <2>2, AmountTypes
<1> HIDE DEF old, before, new, after, gain, net, paid, sum
<1>9. position' \in [Tickers -> Int] /\ position'[t] = new
      /\ \A u \in Tickers : u # t => position'[u] = position[u]
  BY <1>1, <1>3, <1>4, <1>7, TypeFacts
<1>10. entry' \in [Tickers -> Entries] /\ entry'[t] = after
       /\ \A u \in Tickers : u # t => entry'[u] = entry[u]
  BY <1>1, <1>3, <1>4, <1>7, TypeFacts
<1>11. realized' \in Books /\ SumOver(realized') = Plus(sum, gain)
  <2>1. realized' = [realized EXCEPT ![t] = Plus(realized[t], gain)]
    BY <1>4
  <2>2. realized \in [Tickers -> Fractions]
    BY <1>5 DEF Books
  <2> QED
    BY <1>3, <1>7, <2>1, <2>2, SumGrows DEF Books, sum
<1>12. realized'[t] = Plus(realized[t], gain) /\ \A u \in Tickers : u # t => realized'[u] = realized[u]
  BY <1>3, <1>4, <1>5 DEF Books
<1>13. /\ cash' \in Books /\ \A u \in Tickers : u # t => cash'[u] = cash[u]
       /\ realized'[t] = Plus(cash'[t], Worth(position'[t], entry'[t]))
  <2>1. CASE old # 0 /\ before = Unknown
    <3>1. StartOver(t)
      BY <1>4, <2>1
    <3> QED
      BY <1>1, <1>3, <1>7, <1>9, <1>10, <1>11, <3>1, FreshAccount
  <2>2. CASE ~ (old # 0 /\ before = Unknown)
    <3>1. cash' = [cash EXCEPT ![t] = Minus(@, Whole(YesCost(f)))]
      BY <1>4, <2>2
    <3>2. Minus(paid, Whole(YesCost(f))) \in Fractions
      <4>1. Whole(YesCost(f)) \in Fractions
        BY <1>5, <1>6, AmountTypes
      <4> QED
        BY <1>5, <1>6, <4>1, AmountTypes
    <3>3. /\ cash' \in Books /\ cash'[t] = Minus(paid, Whole(YesCost(f)))
          /\ \A u \in Tickers : u # t => cash'[u] = cash[u]
      BY <1>1, <1>3, <3>1, <3>2, TypeFacts DEF Books, paid
    <3>4. realized[t] = Plus(paid, Worth(old, before))
      BY <1>1, <1>3 DEF BooksBalance, paid, old, before
    <3>5. Plus(Plus(paid, Worth(old, before)), gain)
            = Plus(Minus(paid, Whole(YesCost(f))), Worth(new, after))
      <4>1. old # 0 => before # Unknown
        BY <2>2
      <4> QED
        BY <1>3, <1>5, <4>1, BookingBalances DEF new, after, gain
    <3>6. realized'[t] = Plus(cash'[t], Worth(new, after))
      BY <1>12, <3>3, <3>4, <3>5
    <3> QED
      BY <1>9, <1>10, <3>3, <3>6
  <2> QED
    BY <2>1, <2>2
<1>14. TypeOK'
  <2>1. daily' \in Fractions /\ cumulative' \in Fractions
    <3>1. Plus(daily, net) \in Fractions /\ Plus(cumulative, net) \in Fractions
      BY <1>5, <1>6, <1>8, AmountTypes
    <3> QED
      BY <1>4, <3>1
  <2>2. fees' \in Nat /\ booked' \subseteq DOMAIN fills'
    BY <1>1, <1>3, <1>4, <1>5, <1>6, TypeFacts
  <2> QED
    BY <1>1, <1>4, <1>9, <1>10, <1>11, <1>13, <2>1, <2>2 DEF TypeOK, Books
<1>15. \A u \in Tickers : realized'[u] = Plus(cash'[u], Worth(position'[u], entry'[u]))
  BY <1>3, <1>9, <1>10, <1>12, <1>13, OneAccount
<1>16. cumulative' = Minus(SumOver(realized'), Whole(fees'))
  <2>1. cumulative = Minus(sum, Whole(fees))
    BY <1>1 DEF BooksBalance, sum
  <2>2. Plus(Minus(sum, Whole(fees)), net) = Minus(Plus(sum, gain), Whole(fees + Fee(f)))
    BY <1>5, <1>6, <1>7, TotalGrows DEF net
  <2> QED
    BY <1>4, <1>11, <2>1, <2>2
<1> QED
  BY <1>14, <1>15, <1>16 DEF AccountInv, BooksBalance

LEMMA Settles == ASSUME NEW t \in Tickers PROVE AccountInv /\ Settle(t) => AccountInv'
<1> SUFFICES ASSUME AccountInv, Settle(t) PROVE AccountInv'
  OBVIOUS
<1>1. TypeOK /\ BooksBalance
  BY DEF AccountInv
<1> DEFINE p == position[t]
           before == entry[t]
           v == SettleValue(t)
           binary == before # Unknown /\ settled[t] # "void"
           gain == IF binary THEN Times(p, Minus(Whole(v), before)) ELSE Whole(0)
           paid == cash[t]
           sum == SumOver(realized)
<1>2. /\ position' = [position EXCEPT ![t] = 0]
      /\ entry' = [entry EXCEPT ![t] = Unknown]
      /\ realized' = [realized EXCEPT ![t] = Plus(@, gain)]
      /\ daily' = Plus(daily, gain) /\ cumulative' = Plus(cumulative, gain)
      /\ UNCHANGED <<fills, settled, active, fees, running, booked, horizon, boots>>
      /\ IF binary THEN cash' = [cash EXCEPT ![t] = Plus(@, Whole(p * v))] ELSE StartOver(t)
  BY DEF Settle, exchangeVars, boundVars
<1>3. /\ p \in Int /\ before \in Entries /\ v \in Int
      /\ paid \in Fractions /\ realized \in Books /\ fees \in Nat
      /\ daily \in Fractions /\ cumulative \in Fractions /\ sum \in Fractions
  BY <1>1, TypeFacts, SumType DEF Books, SettleValue, Dollar
<1>4. binary => before \in Fractions
  BY <1>3, EntryIs
<1>5. gain \in Fractions
  <2> HIDE DEF p, before, v, binary
  <2>1. binary => Times(p, Minus(Whole(v), before)) \in Fractions
    BY <1>3, <1>4, SettlingBalances
  <2> QED
    BY <2>1, Zero
<1> HIDE DEF gain, sum
<1>6. position' \in [Tickers -> Int] /\ position'[t] = 0
      /\ \A u \in Tickers : u # t => position'[u] = position[u]
  BY <1>1, <1>2, TypeFacts
<1>7. entry' \in [Tickers -> Entries] /\ entry'[t] = Unknown
      /\ \A u \in Tickers : u # t => entry'[u] = entry[u]
  BY <1>1, <1>2, TypeFacts, EntryIs
<1>8. realized' \in Books /\ SumOver(realized') = Plus(sum, gain)
  <2>1. realized' = [realized EXCEPT ![t] = Plus(realized[t], gain)]
    BY <1>2
  <2>2. realized \in [Tickers -> Fractions]
    BY <1>3 DEF Books
  <2> QED
    BY <1>5, <2>1, <2>2, SumGrows DEF Books, sum
<1>9. realized'[t] = Plus(realized[t], gain) /\ \A u \in Tickers : u # t => realized'[u] = realized[u]
  BY <1>2, <1>3 DEF Books
<1>10. /\ cash' \in Books /\ \A u \in Tickers : u # t => cash'[u] = cash[u]
       /\ realized'[t] = Plus(cash'[t], Worth(position'[t], entry'[t]))
  <2>1. CASE ~ binary
    <3>1. StartOver(t)
      BY <1>2, <2>1
    <3>2. position'[t] \in Int /\ entry'[t] \in Entries
      BY <1>6, <1>7
    <3> QED
      BY <1>1, <1>8, <3>1, <3>2, FreshAccount
  <2>2. CASE binary
    <3>1. cash' = [cash EXCEPT ![t] = Plus(@, Whole(p * v))] /\ before \in Fractions
          /\ gain = Times(p, Minus(Whole(v), before))
      BY <1>2, <1>4, <2>2 DEF gain
    <3>2. realized[t] = Plus(paid, Worth(p, before))
      BY <1>1 DEF BooksBalance
    <3> HIDE DEF p, before, v, binary
    <3>3. Plus(paid, Whole(p * v)) \in Fractions
      <4>1. p * v \in Int
        BY <1>3
      <4>2. Whole(p * v) \in Fractions
        BY <1>3, <4>1, AmountTypes
      <4> QED
        BY <1>3, <4>1, <4>2, AmountTypes
    <3>4. /\ cash' \in Books /\ cash'[t] = Plus(paid, Whole(p * v))
          /\ \A u \in Tickers : u # t => cash'[u] = cash[u]
      BY <1>1, <3>1, <3>3, TypeFacts DEF Books
    <3> HIDE DEF paid
    <3>5. Plus(Plus(paid, Worth(p, before)), gain)
            = Plus(Plus(paid, Whole(p * v)), Whole(0))
      BY <1>3, <3>1, SettlingBalances
    <3>6. Worth(position'[t], entry'[t]) = Whole(0)
      BY <1>6, <1>7, WorthIs
    <3> QED
      BY <1>9, <3>2, <3>4, <3>5, <3>6
  <2> QED
    BY <2>1, <2>2
<1>11. TypeOK'
  <2>1. daily' \in Fractions /\ cumulative' \in Fractions
    <3>1. Plus(daily, gain) \in Fractions /\ Plus(cumulative, gain) \in Fractions
      BY <1>3, <1>5, AmountTypes
    <3> QED
      BY <1>2, <3>1
  <2> QED
    BY <1>1, <1>2, <1>6, <1>7, <1>8, <1>10, <2>1 DEF TypeOK, Books
<1>12. \A u \in Tickers : realized'[u] = Plus(cash'[u], Worth(position'[u], entry'[u]))
  BY <1>6, <1>7, <1>9, <1>10, OneAccount
<1>13. cumulative' = Minus(SumOver(realized'), Whole(fees'))
  <2>1. cumulative = Minus(sum, Whole(fees)) /\ fees \in Int
    BY <1>1, <1>3 DEF BooksBalance, sum
  <2>2. Plus(Minus(sum, Whole(fees)), gain) = Minus(Plus(sum, gain), Whole(fees))
    BY <1>3, <1>5, <2>1, TotalGrows
  <2> QED
    BY <1>2, <1>8, <2>1, <2>2
<1> QED
  BY <1>11, <1>12, <1>13 DEF AccountInv, BooksBalance

\* A step that books nothing and has the account of one ticker start over.
LEMMA StartsOver ==
    ASSUME AccountInv, NEW t \in Tickers,
           position' \in [Tickers -> Int], entry' \in [Tickers -> Entries],
           \A u \in Tickers : u # t => position'[u] = position[u] /\ entry'[u] = entry[u],
           UNCHANGED <<exchangeVars, active, moneyVars, running, booked, boundVars>>,
           StartOver(t)
    PROVE  AccountInv'
<1>1. TypeOK /\ BooksBalance
  BY DEF AccountInv
<1>2. UNCHANGED <<fills, settled, active, realized, daily, cumulative, fees, running,
                  booked, horizon, boots>>
  BY DEF exchangeVars, moneyVars, boundVars
<1>3. realized' \in Books
  BY <1>1, <1>2, TypeFacts
<1>4. /\ cash' \in Books
      /\ \A u \in Tickers : u # t => cash'[u] = cash[u]
      /\ realized'[t] = Plus(cash'[t], Worth(position'[t], entry'[t]))
  BY <1>1, <1>3, FreshAccount
<1>5. TypeOK'
  BY <1>1, <1>2, <1>4 DEF TypeOK, Books
<1>6. \A u \in Tickers : realized'[u] = Plus(cash'[u], Worth(position'[u], entry'[u]))
  BY <1>2, <1>4, OneAccount
<1>7. cumulative' = Minus(SumOver(realized'), Whole(fees'))
  BY <1>1, <1>2 DEF BooksBalance
<1> QED
  BY <1>5, <1>6, <1>7 DEF AccountInv, BooksBalance

LEMMA Drifts == ASSUME NEW t \in Tickers PROVE AccountInv /\ Drift(t) => AccountInv'
<1> SUFFICES ASSUME AccountInv, Drift(t) PROVE AccountInv'
  OBVIOUS
<1>1. TypeOK /\ Held(t) \in Int
  BY TypeFacts, HeldType DEF AccountInv
<1>2. /\ position' = [position EXCEPT ![t] = Held(t)] /\ entry' = entry
      /\ UNCHANGED <<exchangeVars, active, moneyVars, running, booked, boundVars>>
      /\ StartOver(t)
  BY DEF Drift
<1>3. position' \in [Tickers -> Int] /\ entry' \in [Tickers -> Entries]
  BY <1>1, <1>2, TypeFacts
<1>4. \A u \in Tickers : u # t => position'[u] = position[u] /\ entry'[u] = entry[u]
  BY <1>1, <1>2, TypeFacts
<1> QED
  BY <1>2, <1>3, <1>4, StartsOver

LEMMA GivesUp == ASSUME NEW t \in Tickers PROVE AccountInv /\ GiveUp(t) => AccountInv'
<1> SUFFICES ASSUME AccountInv, GiveUp(t) PROVE AccountInv'
  OBVIOUS
<1>1. TypeOK
  BY DEF AccountInv
<1>2. /\ position' = [position EXCEPT ![t] = 0]
      /\ entry' = [entry EXCEPT ![t] = Unknown]
      /\ UNCHANGED <<exchangeVars, active, moneyVars, running, booked, boundVars>>
      /\ StartOver(t)
  BY DEF GiveUp
<1>3. position' \in [Tickers -> Int] /\ entry' \in [Tickers -> Entries]
  <2>1. Unknown \in Entries
    BY EntryIs
  <2> QED
    BY <1>1, <1>2, <2>1, TypeFacts
<1>4. \A u \in Tickers : u # t => position'[u] = position[u] /\ entry'[u] = entry[u]
  BY <1>1, <1>2, TypeFacts
<1> QED
  BY <1>2, <1>3, <1>4, StartsOver

LEMMA Rebuilds == ASSUME NEW t \in Tickers PROVE AccountInv /\ Backfill(t) => AccountInv'
<1> SUFFICES ASSUME AccountInv, Backfill(t) PROVE AccountInv'
  OBVIOUS
<1>1. TypeOK
  BY DEF AccountInv
<1>2. Replayed(t).entry \in Entries
  BY <1>1, TypeFacts, HeldType DEF States
<1>3. /\ entry' = [entry EXCEPT ![t] = Replayed(t).entry] /\ position' = position
      /\ UNCHANGED <<exchangeVars, active, moneyVars, running, booked, boundVars>>
      /\ StartOver(t)
  BY DEF Backfill
<1>4. position' \in [Tickers -> Int] /\ entry' \in [Tickers -> Entries]
  BY <1>1, <1>2, <1>3, TypeFacts
<1>5. \A u \in Tickers : u # t => position'[u] = position[u] /\ entry'[u] = entry[u]
  BY <1>1, <1>3, TypeFacts
<1> QED
  BY <1>3, <1>4, <1>5, StartsOver

\* Steps that leave the books as they are.
LEMMA KeepsBooks ==
    ASSUME AccountInv, daily' \in Fractions, running' \in BOOLEAN, active' \subseteq Tickers,
           UNCHANGED <<exchangeVars, position, entry, realized, cumulative, fees, booked,
                       boundVars, cash>>
    PROVE  AccountInv'
<1>1. TypeOK /\ BooksBalance
  BY DEF AccountInv
<1>2. UNCHANGED <<fills, settled, position, entry, realized, cumulative, fees, booked,
                  horizon, boots, cash>>
  BY DEF exchangeVars, boundVars
<1>3. TypeOK'
  BY <1>1, <1>2 DEF TypeOK
<1>4. BooksBalance'
  BY <1>1, <1>2 DEF BooksBalance
<1> QED
  BY <1>3, <1>4 DEF AccountInv

LEMMA Restarts == AccountInv /\ Restart => AccountInv'
<1> SUFFICES ASSUME AccountInv, Restart PROVE AccountInv'
  OBVIOUS
<1>1. TypeOK
  BY DEF AccountInv
<1>2. /\ boots' = boots + 1 /\ horizon' \in horizon .. Len(fills) /\ running' = TRUE
      /\ booked' = {} /\ active' \subseteq Tickers
      /\ position' \in {[u \in Tickers |-> Held(u)], [u \in Tickers |-> 0]}
      /\ entry' = [u \in Tickers |-> Unknown] /\ realized' = [u \in Tickers |-> Whole(0)]
      /\ daily' = Whole(0) /\ cumulative' = Whole(0) /\ fees' = 0
      /\ cash' = [u \in Tickers |-> Whole(0)]
      /\ UNCHANGED <<fills, settled>>
  BY DEF Restart, Fresh, Open, exchangeVars
<1>3. realized' \in Books /\ cash' \in Books /\ daily' \in Fractions /\ cumulative' \in Fractions
  BY <1>2, Zero DEF Books
<1>4. position' \in [Tickers -> Int] /\ entry' \in [Tickers -> Entries]
      /\ \A u \in Tickers : entry'[u] = Unknown
  <2>1. Unknown \in Entries
    BY EntryIs
  <2>2. \A u \in Tickers : Held(u) \in Int
    BY <1>1, TypeFacts, HeldType
  <2> QED
    BY <1>2, <2>1, <2>2
<1>5. horizon' \in 0 .. Len(fills') /\ boots' \in Nat
  <2>1. Len(fills) \in Nat /\ horizon \in 0 .. Len(fills) /\ boots \in Nat
    BY <1>1, TypeFacts, LogEntries
  <2> QED
    BY <1>2, <2>1
<1>6. TypeOK'
  <2>1. booked' \subseteq DOMAIN fills' /\ running' \in BOOLEAN /\ fees' \in Nat
    BY <1>2
  <2> QED
    BY <1>1, <1>2, <1>3, <1>4, <1>5, <2>1 DEF TypeOK, Books
<1>7. \A u \in Tickers : realized'[u] = Plus(cash'[u], Worth(position'[u], entry'[u]))
  <2> SUFFICES ASSUME NEW u \in Tickers
               PROVE  realized'[u] = Plus(cash'[u], Worth(position'[u], entry'[u]))
    OBVIOUS
  <2>1. realized'[u] = Whole(0) /\ cash'[u] = Whole(0)
    BY <1>2
  <2>2. Worth(position'[u], entry'[u]) = Whole(0)
    BY <1>4, WorthIs
  <2> QED
    BY <2>1, <2>2, Zero, PlusZero
<1>8. cumulative' = Minus(SumOver(realized'), Whole(fees'))
  <2>1. SumOver(realized') = Whole(0)
    <3>1. \A u \in Tickers : realized'[u] = Whole(0)
      BY <1>2
    <3> QED
      BY <1>3, <3>1, SumOfNothing DEF Books
  <2> QED
    BY <1>2, <2>1, Zero, PlusZero
<1> QED
  BY <1>6, <1>7, <1>8 DEF AccountInv, BooksBalance

\* Every step keeps types and balance.
LEMMA Steps == AccountInv /\ [Next]_vars => AccountInv'
<1> SUFFICES ASSUME AccountInv, [Next]_vars PROVE AccountInv'
  OBVIOUS
<1>1. daily \in Fractions /\ running \in BOOLEAN /\ active \subseteq Tickers
  BY TypeFacts DEF AccountInv
<1>2. CASE ExchangeFill
  BY <1>2, ExchangeFills
<1>3. CASE ExchangeSettles
  BY <1>3, ExchangeSettled
<1>4. CASE BookFill
  BY <1>4, BooksAFill
<1>5. CASE \E t \in Tickers : Settle(t) \/ Drift(t) \/ GiveUp(t) \/ Backfill(t)
  BY <1>5, Settles, Drifts, GivesUp, Rebuilds
<1>6. CASE HaltAllTrading
  BY <1>1, <1>6, KeepsBooks DEF HaltAllTrading, moneyVars
<1>7. CASE ResetDaily
  BY <1>1, <1>7, Zero, KeepsBooks DEF ResetDaily
<1>8. CASE RefreshMarkets
  <2>1. active' \subseteq Tickers
    BY <1>1, <1>8 DEF RefreshMarkets, Open
  <2> QED
    BY <1>1, <1>8, <2>1, KeepsBooks DEF RefreshMarkets, moneyVars
<1>9. CASE Restart
  BY <1>9, Restarts
<1>10. CASE UNCHANGED vars
  BY <1>1, <1>10, KeepsBooks DEF vars, moneyVars
<1> QED
  BY <1>2, <1>3, <1>4, <1>5, <1>6, <1>7, <1>8, <1>9, <1>10 DEF Next

\* An entry price stays a price, between nothing and a dollar, and positions and
\* amounts keep to their types, through any averages, flips, settlements,
\* corrections, backfills and restarts (state.rs:114-139, 351-472;
\* main.rs:1015-1032, 1096-1105, 1126-1172).
THEOREM AccountTypes == Spec => []TypeOK
<1>1. AccountInv => TypeOK
  BY DEF AccountInv
<1> QED
  BY <1>1, Begins, Steps, PTL DEF Spec

\* Bookkeeping makes and loses no money: what a ticker realized is what was
\* received for it less what was paid, plus its inventory at the entry price, and
\* the total is the tickers' less the fees, for any fills, prices, sizes, fees and
\* results in any order (state.rs:351-431, 433-472).
THEOREM BooksAreBalanced == Spec => []BooksBalance
<1>1. AccountInv => BooksBalance
  BY DEF AccountInv
<1> QED
  BY <1>1, Begins, Steps, PTL DEF Spec
-------------------------------------------------------------------------------
\* What the risk limits admit.

LEMMA NotAtMost ==
    ASSUME NEW a \in Fractions, NEW b \in Fractions, ~ AtMost(a, b)
    PROVE  AtMost(b, a)
<1>1. PICK d \in Positive, m \in Int, n \in Int : Is(a, m, d) /\ Is(b, n, d)
  BY Common2
<1>2. ~ (m <= n)
  BY <1>1, IsAtMost
<1>3. n <= m
  BY <1>2
<1> QED
  BY <1>1, <1>3, IsAtMost

LEMMA AtMostJoins ==
    ASSUME NEW a \in Fractions, NEW b \in Fractions, NEW c \in Fractions,
           AtMost(a, b), AtMost(b, c)
    PROVE  AtMost(a, c)
<1>1. PICK d \in Positive, m \in Int, n \in Int, o \in Int :
        Is(a, m, d) /\ Is(b, n, d) /\ Is(c, o, d)
  BY Common3
<1>2. m <= n /\ n <= o
  BY <1>1, IsAtMost
<1>3. m <= o
  BY <1>2
<1> QED
  BY <1>1, <1>3, IsAtMost

\* What an expiry at v takes from p contracts held at e, and what the exchange
\* has locked for them.
Lost(p, e, v) == IF e = Unknown THEN Whole(0) ELSE Times(p, Minus(e, Whole(v)))
Locks(p, e) ==
    LET basis == IF e = Unknown THEN Whole(50) ELSE e
    IN  Times(Abs(p), IF p > 0 THEN basis ELSE Minus(Whole(100), basis))

LEMMA SignedProducts ==
    ASSUME NEW p \in Int, NEW x \in Int, NEW y \in Int, NEW z \in Int,
           0 <= y, y <= z
    PROVE  /\ p > 0 => p * (x - y) <= p * x
           /\ p <= 0 => p * (x - y) <= (-p) * (z - x)
<1>1. ASSUME p > 0 PROVE p * (x - y) <= p * x
  <2>1. p * (x - y) = p * x - p * y /\ p * y >= 0 /\ p * x \in Int /\ p * y \in Int
    BY <1>1
  <2> QED
    BY <2>1
<1>2. ASSUME p <= 0 PROVE p * (x - y) <= (-p) * (z - x)
  <2>1. p * (x - y) = (-p) * (y - x)
    OBVIOUS
  <2>2. (-p) * (z - x) = (-p) * (y - x) + (-p) * (z - y)
    OBVIOUS
  <2>3. (-p) * (z - y) >= 0
    BY <1>2
  <2>4. (-p) * (y - x) \in Int /\ (-p) * (z - y) \in Int
    OBVIOUS
  <2> QED
    BY <2>1, <2>2, <2>3, <2>4
<1> QED
  BY <1>1, <1>2

\* However a market settles, a position loses no more than it locks.
LEMMA LockCovers ==
    ASSUME NEW p \in Int, NEW e \in Entries, NEW v \in 0 .. 100
    PROVE  /\ Lost(p, e, v) \in Fractions /\ Locks(p, e) \in Fractions
           /\ AtMost(Lost(p, e, v), Locks(p, e))
<1> DEFINE basis == IF e = Unknown THEN Whole(50) ELSE e
           rest == IF p > 0 THEN basis ELSE Minus(Whole(100), basis)
<1>1. basis \in Fractions /\ Abs(p) \in Nat /\ Abs(p) \in Int
  BY WholeType, AbsIs, EntryIs
<1>2. PICK d \in Positive, b \in Int, n \in Int : Is(basis, b, d) /\ Is(basis, n, d)
  BY <1>1, Common2
<1> DEFINE x == v * d
           z == 100 * d
<1>3. x \in Int /\ z \in Int /\ 0 <= x /\ x <= z /\ Is(Whole(v), x, d) /\ Is(Whole(100), z, d)
  <2>1. x \in Int /\ z \in Int /\ 0 <= x /\ x <= z
    BY DEF Positive
  <2> QED
    BY <2>1, IsWhole
<1>4. Locks(p, e) = Times(Abs(p), rest)
  BY DEF Locks
<1> HIDE DEF basis
<1> DEFINE r == IF p > 0 THEN b ELSE z - b
<1>5. Is(rest, r, d) /\ r \in Int
  <2>1. Is(Minus(Whole(100), basis), z - b, d)
    BY <1>2, <1>3, IsMinus
  <2> QED
    BY <1>2, <1>3, <2>1
<1> HIDE DEF rest, x, z
<1>6. Is(Locks(p, e), Abs(p) * r, d) /\ Abs(p) * r \in Int
  <2> HIDE DEF r
  <2> QED
    BY <1>1, <1>4, <1>5, IsTimes
<1>7. CASE e = Unknown
  <2>1. Lost(p, e, v) = Whole(0) /\ Is(Whole(0), 0, d)
    <3>1. 0 * d = 0
      BY DEF Positive
    <3> QED
      BY <1>7, <3>1, IsWhole DEF Lost
  <2>2. b = 50 * d /\ z = 100 * d
    <3>1. basis = Whole(50) /\ 50 \in Int
      BY <1>7 DEF basis
    <3>2. Is(basis, 50 * d, d) /\ 50 * d \in Int
      BY <3>1, IsWhole DEF Positive
    <3>3. b <= 50 * d /\ 50 * d <= b
      BY <1>1, <1>2, <3>2, IsAtMost, PlusZero
    <3> QED
      BY <3>2, <3>3 DEF z
  <2>3. 0 <= r
    BY <2>2 DEF Positive
  <2>4. 0 <= Abs(p) * r
    <3> HIDE DEF r
    <3> QED
      BY <1>1, <1>5, <2>3
  <2> HIDE DEF r
  <2>5. 0 \in Int
    OBVIOUS
  <2>6. AtMost(Whole(0), Locks(p, e))
    BY <1>6, <2>1, <2>4, <2>5, IsAtMost
  <2> QED
    BY <1>6, <2>1, <2>6 DEF Is
<1>8. CASE e # Unknown
  <2>1. Lost(p, e, v) = Times(p, Minus(basis, Whole(v)))
    BY <1>8 DEF Lost, basis
  <2>2. Is(Minus(basis, Whole(v)), b - x, d) /\ b - x \in Int
    BY <1>2, <1>3, IsMinus
  <2>3. Is(Lost(p, e, v), p * (b - x), d) /\ p * (b - x) \in Int
    BY <2>1, <2>2, IsTimes
  <2>4. p * (b - x) <= Abs(p) * r
    <3>1. CASE p > 0
      BY <1>3, <3>1, SignedProducts DEF Abs
    <3>2. CASE ~ (p > 0)
      <4>1. p <= 0 /\ Abs(p) = -p /\ r = z - b
        BY <3>2 DEF Abs
      <4> QED
        BY <1>3, <4>1, SignedProducts
    <3> QED
      BY <3>1, <3>2
  <2> HIDE DEF r
  <2>5. AtMost(Lost(p, e, v), Locks(p, e))
    BY <1>6, <2>3, <2>4, IsAtMost
  <2> QED
    BY <1>6, <2>3, <2>5 DEF Is
<1> QED
  BY <1>7, <1>8

\* A loss that keeps to a room, after a limit that has not been reached, passes
\* the limit by that room at most.
LEMMA RoomLeft ==
    ASSUME NEW pnl \in Fractions, NEW limit \in Fractions, NEW loss \in Fractions,
           NEW room \in Fractions, ~ AtMost(pnl, limit), AtMost(loss, room)
    PROVE  AtMost(Plus(limit, loss), Plus(pnl, room))
  BY NotAtMost, PlusMonotone

\* The limits alone bound the loss: no step matters to it.
LEMMA LimitsBound == TypeOK => AdmittedLossIsBounded
<1> SUFFICES ASSUME TypeOK, MayQuote, NEW outcome \in [Tickers -> {0, Dollar}]
             PROVE  LET loss == SumOver([t \in Tickers |->
                                  IF t \in active THEN LossAt(t, outcome[t]) ELSE Whole(0)])
                    IN /\ AtMost(Plus(Whole(-MaxDailyLoss), loss), Plus(daily, Whole(MaxValue)))
                       /\ AtMost(Plus(Whole(StopLoss), loss), Plus(cumulative, Whole(MaxValue)))
  BY DEF AdmittedLossIsBounded
<1> DEFINE losses == [t \in Tickers |->
                        IF t \in active THEN Lost(position[t], entry[t], outcome[t])
                        ELSE Whole(0)]
           locks == [t \in Tickers |->
                       IF t \in active THEN Locks(position[t], entry[t]) ELSE Whole(0)]
           loss == SumOver(losses)
           value == SumOver(locks)
<1>1. \A t \in Tickers : position[t] \in Int /\ entry[t] \in Entries /\ outcome[t] \in 0 .. 100
  BY TypeFacts DEF Dollar
<1>2. losses \in Books /\ locks \in Books /\ \A t \in Tickers : AtMost(losses[t], locks[t])
  <2>1. AtMost(Whole(0), Whole(0))
    BY DEF AtMost, Whole
  <2> QED
    BY <1>1, <2>1, Zero, LockCovers DEF Books
<1>3. loss \in Fractions /\ value \in Fractions /\ AtMost(loss, value)
  <2> HIDE DEF losses, locks
  <2> QED
    BY <1>2, SumType, SumMonotone DEF Books
<1>4. PositionValue = value
  <2>1. \A t \in Tickers : Locked(t) = Locks(position[t], entry[t])
    BY DEF Locked, Basis, Locks, Dollar
  <2>2. [t \in Tickers |-> IF t \in active THEN Locked(t) ELSE Whole(0)] = locks
    BY <2>1
  <2> HIDE DEF locks
  <2> QED
    BY <2>2 DEF PositionValue
<1>5. SumOver([t \in Tickers |->
        IF t \in active THEN LossAt(t, outcome[t]) ELSE Whole(0)]) = loss
  BY DEF Lost, LossAt
<1> HIDE DEF loss, value
<1>6. ~ AtMost(daily, Whole(-MaxDailyLoss)) /\ ~ AtMost(cumulative, Whole(StopLoss))
      /\ ~ AtMost(Whole(MaxValue), value)
  BY <1>4 DEF MayQuote, LossLimit
<1>7. Whole(MaxValue) \in Fractions /\ Whole(-MaxDailyLoss) \in Fractions
      /\ Whole(StopLoss) \in Fractions /\ daily \in Fractions /\ cumulative \in Fractions
  BY LimitAssumption, WholeType, TypeFacts
<1>8. AtMost(loss, Whole(MaxValue))
  <2>1. AtMost(value, Whole(MaxValue))
    BY <1>3, <1>6, <1>7, NotAtMost
  <2> QED
    BY <1>3, <1>7, <2>1, AtMostJoins
<1>9. /\ AtMost(Plus(Whole(-MaxDailyLoss), loss), Plus(daily, Whole(MaxValue)))
      /\ AtMost(Plus(Whole(StopLoss), loss), Plus(cumulative, Whole(MaxValue)))
  BY <1>3, <1>6, <1>7, <1>8, RoomLeft
<1> QED
  BY <1>5, <1>9

\* However the held markets of the active set settle while quoting is allowed,
\* neither loss limit is passed by more than max_position_value, for any number of
\* markets and any positions, entry prices and limits (engine.rs:411-432,
\* state.rs:323-349).
THEOREM LossIsBounded == Spec => []AdmittedLossIsBounded
  BY AccountTypes, LimitsBound, PTL
-------------------------------------------------------------------------------
\* Backfills.

\* Fills happen in the order of their ids.
TimesRise ==
    \A i, j \in DOMAIN fills : i < j => fills[i].at <= fills[j].at

LEMMA TimesBegin == Init => TimesRise
  BY DEF Init, TimesRise

LEMMA TimesStep == AccountInv /\ TimesRise /\ [Next]_vars => TimesRise'
<1> SUFFICES ASSUME AccountInv, TimesRise, [Next]_vars PROVE TimesRise'
  OBVIOUS
<1>1. CASE UNCHANGED fills
  BY <1>1 DEF TimesRise
<1>2. CASE ExchangeFill
  <2>1. fills \in Log
    BY TypeFacts DEF AccountInv
  <2>2. PICK f \in Kinds, wait \in Waits :
          fills' = Append(fills, [fill |-> f,
                      at |-> wait + IF fills = <<>> THEN 0 ELSE fills[Len(fills)].at])
    BY <1>2 DEF ExchangeFill
  <2> DEFINE n == Len(fills)
             at == wait + IF fills = <<>> THEN 0 ELSE fills[n].at
             new == [fill |-> f, at |-> at]
  <2>3. n \in Nat /\ DOMAIN fills = 1 .. n /\ \A i \in 1 .. n : fills[i].at \in Nat
    BY <2>1, LogEntries
  <2>4. wait \in Nat
    BY WaitAssumption
  <2>5. \A i \in 1 .. n : fills[i].at <= at
    <3> SUFFICES ASSUME NEW i \in 1 .. n PROVE fills[i].at <= at
      OBVIOUS
    <3>1. n \in 1 .. n /\ fills # <<>>
      BY <2>3
    <3>2. at = wait + fills[n].at
      BY <3>1
    <3>3. fills[i].at <= fills[n].at
      BY <2>3, <3>1 DEF TimesRise
    <3> QED
      BY <2>3, <2>4, <3>1, <3>2, <3>3
  <2>6. new.at = at /\ fills' = Append(fills, new)
    BY <2>2
  <2> HIDE DEF at, new
  <2>7. DOMAIN fills' = 1 .. n + 1 /\ fills'[n + 1] = new
        /\ \A i \in 1 .. n : fills'[i] = fills[i]
    BY <2>1, <2>6 DEF Log
  <2>8. ASSUME NEW i \in 1 .. n + 1, NEW j \in 1 .. n + 1, i < j
        PROVE  fills'[i].at <= fills'[j].at
    <3>1. i \in 1 .. n
      BY <2>3, <2>8
    <3>2. CASE j = n + 1
      BY <2>5, <2>6, <2>7, <3>1, <3>2
    <3>3. CASE j # n + 1
      <4>1. j \in 1 .. n
        BY <2>3, <3>3
      <4> QED
        BY <2>3, <2>7, <2>8, <3>1, <4>1 DEF TimesRise
    <3> QED
      BY <3>2, <3>3
  <2> QED
    BY <2>7, <2>8 DEF TimesRise
<1> QED
  BY <1>1, <1>2 DEF Next, vars, exchangeVars, ExchangeSettles, BookFill, Settle, Drift,
     GiveUp, Backfill, HaltAllTrading, ResetDaily, RefreshMarkets, Restart

\* The newest of some ids are the end of them.
LEMMA NewestIsEnd ==
    ASSUME fills \in Log, NEW ids \in SUBSET DOMAIN fills, NEW cap \in Nat
    PROVE  LET kept == NewestOf(ids, cap) IN
           /\ kept \subseteq ids
           /\ \A i \in kept, j \in ids \ kept : j < i
<1> DEFINE kept == NewestOf(ids, cap)
           Later(i) == {later \in ids : later > i}
<1>1. kept \subseteq ids /\ \A i \in ids : i \in kept <=> Cardinality(Later(i)) < cap
  BY DEF NewestOf
<1>2. IsFiniteSet(ids) /\ ids \subseteq Nat
  BY BothOrder, LogEntries
<1>3. ASSUME NEW i \in kept, NEW j \in ids \ kept PROVE j < i
  <2>1. SUFFICES ASSUME ~ (j < i) PROVE FALSE
    OBVIOUS
  <2>2. Later(j) \subseteq Later(i)
    BY <1>1, <1>2, <2>1
  <2>3. IsFiniteSet(Later(i)) /\ IsFiniteSet(Later(j))
    BY <1>2, FS_Subset
  <2>4. Cardinality(Later(j)) <= Cardinality(Later(i))
    BY <2>2, <2>3, FS_Subset
  <2>5. Cardinality(Later(i)) \in Nat /\ Cardinality(Later(j)) \in Nat
    BY <2>3, FS_CardinalityType
  <2> HIDE DEF Later
  <2> QED
    BY <1>1, <2>4, <2>5
<1> QED
  BY <1>1, <1>3

Below(ids, i) == {other \in ids : other < i}

\* The k-th fill is that of the one id that has k - 1 others below it.
LEMMA AsHappenedIs ==
    ASSUME fills \in Log, NEW ids \in SUBSET DOMAIN fills
    PROVE  /\ Cardinality(ids) \in Nat /\ IsFiniteSet(ids)
           /\ \A i \in ids : Cardinality(Below(ids, i)) \in 0 .. Cardinality(ids) - 1
           /\ \A k \in 1 .. Cardinality(ids) : \E i \in ids :
                Cardinality(Below(ids, i)) = k - 1 /\ AsHappened(ids)[k] = fills[i].fill
           /\ \A i, j \in ids :
                Cardinality(Below(ids, i)) = Cardinality(Below(ids, j)) => i = j
<1> DEFINE n == Cardinality(ids)
           P(k, id) == Cardinality({other \in ids : other < id}) = k - 1
<1>1. IsFiniteSet(ids) /\ Orders(Happens(ids), ids) /\ n \in Nat /\ ids \subseteq Nat
  BY BothOrder, FS_CardinalityType, LogEntries
<1>2. \A i \in ids : Before(Happens(ids), ids, i) = Below(ids, i)
  BY DEF Before, Happens, Below
<1>3. /\ \A i \in ids : Cardinality(Below(ids, i)) \in 0 .. n - 1
      /\ \A i, j \in ids : <<i, j>> \in Happens(ids) =>
           Cardinality(Below(ids, i)) < Cardinality(Below(ids, j))
      /\ \A k \in 1 .. n : \E i \in ids : Cardinality(Below(ids, i)) = k - 1
  <2>1. /\ \A i \in ids : Cardinality(Before(Happens(ids), ids, i)) \in 0 .. n - 1
        /\ \A i, j \in ids : <<i, j>> \in Happens(ids) =>
             Cardinality(Before(Happens(ids), ids, i))
               < Cardinality(Before(Happens(ids), ids, j))
        /\ \A k \in 1 .. n : \E i \in ids :
             Cardinality(Before(Happens(ids), ids, i)) = k - 1
    BY <1>1, Ranks
  <2> QED
    BY <1>2, <2>1
<1>4. \A i \in ids, k \in 1 .. n : P(k, i) <=> Cardinality(Below(ids, i)) = k - 1
  BY DEF Below
<1>5. AsHappened(ids) = [k \in 1 .. n |-> fills[CHOOSE id \in ids : P(k, id)].fill]
  BY DEF AsHappened, InOrder
<1> HIDE DEF P
<1>6. ASSUME NEW k \in 1 .. n
      PROVE  \E i \in ids :
               Cardinality(Below(ids, i)) = k - 1 /\ AsHappened(ids)[k] = fills[i].fill
  <2>1. \E i \in ids : P(k, i)
    BY <1>3, <1>4
  <2> QED
    BY <1>4, <1>5, <2>1
<1>7. ASSUME NEW i \in ids, NEW j \in ids,
             Cardinality(Below(ids, i)) = Cardinality(Below(ids, j))
      PROVE  i = j
  <2>1. <<i, j>> \in Happens(ids) <=> i < j
    BY DEF Happens
  <2>2. <<j, i>> \in Happens(ids) <=> j < i
    BY DEF Happens
  <2> DEFINE a == Cardinality(Below(ids, i))
             b == Cardinality(Below(ids, j))
  <2>3. a \in Int /\ b \in Int /\ a = b /\ (<<i, j>> \in Happens(ids) => a < b)
        /\ (<<j, i>> \in Happens(ids) => b < a)
    BY <1>1, <1>3, <1>7
  <2> HIDE DEF a, b
  <2>4. ~ (i < j) /\ ~ (j < i)
    BY <2>1, <2>2, <2>3
  <2> QED
    BY <1>1, <2>4
<1> QED
  BY <1>1, <1>3, <1>6, <1>7

\* The newest fills come last in the order in which all of them happened.
LEMMA EndOfHistory ==
    ASSUME fills \in Log, NEW ids \in SUBSET DOMAIN fills, NEW kept \in SUBSET ids,
           \A i \in kept, j \in ids \ kept : j < i
    PROVE  LET n == Cardinality(ids)
               m == Cardinality(kept)
           IN  /\ n \in Nat /\ m \in Nat /\ m <= n
               /\ \A k \in 1 .. m : AsHappened(kept)[k] = AsHappened(ids)[n - m + k]
<1> DEFINE n == Cardinality(ids)
           m == Cardinality(kept)
           old == ids \ kept
<1>1. kept \in SUBSET DOMAIN fills
  OBVIOUS
<1>2. n \in Nat /\ m \in Nat /\ IsFiniteSet(ids) /\ IsFiniteSet(kept) /\ ids \subseteq Nat
  BY <1>1, AsHappenedIs, LogEntries
<1>3. IsFiniteSet(old) /\ Cardinality(old) = n - m
  <2>1. ids \cap kept = kept
    OBVIOUS
  <2>2. IsFiniteSet(old) /\ Cardinality(old) = Cardinality(ids) - Cardinality(ids \cap kept)
    BY <1>2, FS_Difference
  <2> QED
    BY <2>1, <2>2
<1>4. m <= n
  BY <1>2, FS_Subset
<1>5. ASSUME NEW i \in kept
      PROVE  Cardinality(Below(ids, i)) = Cardinality(Below(kept, i)) + (n - m)
  <2> DEFINE A == Below(kept, i)
             B == Below(ids, i)
  <2>1. B = A \cup old /\ A \cap old = {} /\ A \subseteq kept
    BY <1>2 DEF Below
  <2>2. IsFiniteSet(A)
    BY <1>2, <2>1, FS_Subset
  <2> HIDE DEF A, B, old
  <2>3. Cardinality(A \cup old) = Cardinality(A) + Cardinality(old) - Cardinality(A \cap old)
    BY <1>3, <2>2, FS_Union
  <2>4. Cardinality(A \cap old) = 0 /\ Cardinality(A) \in Nat
    BY <2>1, <2>2, FS_EmptySet, FS_CardinalityType
  <2>5. Cardinality(B) = Cardinality(A) + (n - m)
    BY <1>2, <1>3, <2>1, <2>3, <2>4
  <2> QED
    BY <2>5 DEF A, B
<1>6. ASSUME NEW k \in 1 .. m PROVE AsHappened(kept)[k] = AsHappened(ids)[n - m + k]
  <2>1. PICK i \in kept :
          Cardinality(Below(kept, i)) = k - 1 /\ AsHappened(kept)[k] = fills[i].fill
    BY <1>1, AsHappenedIs
  <2>2. n - m + k \in 1 .. n
    BY <1>2, <1>4
  <2>3. PICK j \in ids : /\ Cardinality(Below(ids, j)) = (n - m + k) - 1
                         /\ AsHappened(ids)[n - m + k] = fills[j].fill
    BY <2>2, AsHappenedIs
  <2>4. Cardinality(Below(ids, i)) = Cardinality(Below(ids, j))
    BY <1>2, <1>5, <2>1, <2>3
  <2>5. i = j
    BY <2>1, <2>4, AsHappenedIs
  <2> QED
    BY <2>1, <2>3, <2>5
<1> QED
  BY <1>2, <1>4, <1>6

\* No two fills of one second: the sort changes nothing.
LEMMA SortKeeps ==
    ASSUME fills \in Log, TimesRise, NEW ids \in SUBSET DOMAIN fills,
           \A i, j \in ids : i # j => fills[i].at # fills[j].at
    PROVE  History(ids) = AsHappened(ids)
<1> DEFINE n == Cardinality(ids)
<1>1. ids \subseteq Nat /\ \A i \in ids : fills[i].at \in Nat
  BY LogEntries
<1>2. ASSUME NEW i \in ids, NEW j \in ids PROVE Earlier(i, j) <=> i < j
  <2>1. i < j => fills[i].at <= fills[j].at /\ fills[i].at # fills[j].at
    BY <1>1 DEF TimesRise
  <2>2. j < i => fills[j].at <= fills[i].at /\ fills[i].at # fills[j].at
    BY <1>1 DEF TimesRise
  <2> QED
    BY <1>1, <2>1, <2>2 DEF Earlier
<1>3. ASSUME NEW i \in ids PROVE {other \in ids : Earlier(other, i)} = Below(ids, i)
  BY <1>2 DEF Below
<1>4. n \in Nat /\ \A k \in 1 .. n : \E i \in ids :
        Cardinality(Below(ids, i)) = k - 1 /\ AsHappened(ids)[k] = fills[i].fill
  BY AsHappenedIs
<1>5. ASSUME NEW k \in 1 .. n PROVE History(ids)[k] = AsHappened(ids)[k]
  <2> DEFINE P(id) == Cardinality({other \in ids : Earlier(other, id)}) = k - 1
             c == CHOOSE id \in ids : P(id)
  <2>1. PICK i \in ids : Cardinality(Below(ids, i)) = k - 1 /\ AsHappened(ids)[k] = fills[i].fill
    BY <1>4
  <2>2. P(i)
    BY <1>3, <2>1
  <2>3. History(ids)[k] = fills[c].fill
    BY DEF History, InOrder
  <2>4. c \in ids /\ P(c)
    <3> HIDE DEF P
    <3> QED
      BY <2>2
  <2> HIDE DEF c
  <2>5. Cardinality(Below(ids, c)) = k - 1
    BY <1>3, <2>4
  <2>6. c = i
    BY <2>1, <2>4, <2>5, AsHappenedIs
  <2> QED
    BY <2>1, <2>3, <2>6
<1> DEFINE a == History(ids)
           b == AsHappened(ids)
<1>6. a \in [1 .. n -> Kinds] /\ b \in [1 .. n -> Kinds]
  BY InOrderIs
<1>7. \A k \in 1 .. n : a[k] = b[k]
  BY <1>5
<1> HIDE DEF a, b, n
<1>8. a = b
  <2>1. a = [k \in 1 .. n |-> a[k]] /\ b = [k \in 1 .. n |-> b[k]]
    BY <1>6
  <2>2. [k \in 1 .. n |-> a[k]] = [k \in 1 .. n |-> b[k]]
    BY <1>7
  <2> QED
    BY <2>1, <2>2
<1> QED
  BY <1>8 DEF a, b

\* A replay of the newest fills that ends at the position of all of them began

\* where that was flat, and goes through the same states from there.
LEMMA ReplayOfEnd ==
    ASSUME NEW n \in Nat, NEW m \in Nat, m <= n, NEW full \in [1 .. n -> Kinds],
           NEW end \in [1 .. m -> Kinds], \A k \in 1 .. m : end[k] = full[n - m + k],
           Replay(end).position = Replay(full).position
    PROVE  Replay(end) = Replay(full)
<1> DEFINE r == Replays(full)
           s == Replays(end)
           c == n - m
<1>1. /\ Replay(full) = r[n] /\ r \in [0 .. n -> States]
      /\ r[0] = [position |-> 0, entry |-> Unknown]
      /\ \A k \in 1 .. n : r[k] = After(r[k - 1], full[k])
  BY ReplaysIs DEF Replay
<1>2. /\ Replay(end) = s[m] /\ s \in [0 .. m -> States]
      /\ s[0] = [position |-> 0, entry |-> Unknown]
      /\ \A k \in 1 .. m : s[k] = After(s[k - 1], end[k])
  BY ReplaysIs DEF Replay
<1> HIDE DEF r, s
<1>3. c \in Nat /\ c \in 0 .. n /\ c + m = n
  OBVIOUS
<1>4. ASSUME NEW k \in 1 .. m
      PROVE  /\ k - 1 \in 0 .. m /\ k \in 0 .. m /\ c + k \in 1 .. n
             /\ c + (k - 1) \in 0 .. n /\ c + k - 1 = c + (k - 1)
             /\ s[k] = After(s[k - 1], end[k]) /\ r[c + k] = After(r[c + (k - 1)], end[k])
             /\ s[k - 1] \in States /\ r[c + (k - 1)] \in States
  <2>1. k - 1 \in 0 .. m /\ k \in 0 .. m /\ c + k \in 1 .. n
        /\ c + (k - 1) \in 0 .. n /\ c + k - 1 = c + (k - 1)
    OBVIOUS
  <2>2. r[c + k] = After(r[c + k - 1], full[c + k]) /\ end[k] = full[c + k]
    BY <1>1, <2>1
  <2> QED
    BY <1>1, <1>2, <2>1, <2>2
<1> HIDE DEF c
<1> DEFINE D == {k \in 0 .. m : r[c + k].position = s[k].position + r[c].position}
<1>5. r[c] \in States /\ r[c].position \in Int
  BY <1>1, <1>3 DEF States
<1>6. 0 .. m \subseteq D
  <2>1. 0 \in D
    <3>1. c + 0 = c /\ s[0].position = 0
      BY <1>2, <1>3
    <3> QED
      BY <1>5, <3>1
  <2>2. ASSUME NEW k \in 1 .. m, k - 1 \in D PROVE k \in D
    <3>1. r[c + (k - 1)].position = s[k - 1].position + r[c].position
      BY <2>2
    <3>2. /\ s[k].position = s[k - 1].position + Signed(end[k])
          /\ r[c + k].position = r[c + (k - 1)].position + Signed(end[k])
      BY <1>4, AfterType
    <3>3. Signed(end[k]) \in Int /\ s[k - 1].position \in Int
      BY <1>4, KindIs DEF States
    <3>4. r[c + k].position = s[k].position + r[c].position
      BY <1>5, <3>1, <3>2, <3>3
    <3> QED
      BY <1>4, <3>4
  <2> HIDE DEF D
  <2> QED
    BY <2>1, <2>2, Climb
<1>7. r[c].position = 0
  <2>1. r[n].position = s[m].position + r[c].position
    BY <1>3, <1>6
  <2>2. s[m].position \in Int
    BY <1>2 DEF States
  <2> QED
    BY <1>1, <1>2, <1>5, <2>1, <2>2
<1>8. r[c] = s[0]
  <2>1. r[c].entry = Unknown
    <3>1. CASE c = 0
      BY <1>1, <3>1
    <3>2. CASE c # 0
      <4>1. c \in 1 .. n /\ c - 1 \in 0 .. n
        BY <1>3, <3>2
      <4>2. r[c] = After(r[c - 1], full[c]) /\ r[c - 1] \in States /\ full[c] \in Kinds
        BY <1>1, <4>1
      <4> QED
        BY <1>7, <4>2, AfterType
    <3> QED
      BY <3>1, <3>2
  <2> QED
    BY <1>2, <1>5, <1>7, <2>1 DEF States
<1> DEFINE E == {k \in 0 .. m : r[c + k] = s[k]}
<1>9. 0 .. m \subseteq E
  <2>1. 0 \in E
    <3>1. c + 0 = c
      BY <1>3
    <3> QED
      BY <1>8, <3>1
  <2>2. ASSUME NEW k \in 1 .. m, k - 1 \in E PROVE k \in E
    BY <1>4, <2>2
  <2> HIDE DEF E
  <2> QED
    BY <2>1, <2>2, Climb
<1>10. r[n] = s[m]
  BY <1>3, <1>9
<1> QED
  BY <1>1, <1>2, <1>10

\* With distinct seconds a backfill gives the entry price of the whole history.
LEMMA BackfillsExactly ==
    ASSUME AccountInv, TimesRise, NEW t \in Tickers, Backfill(t), position[t] = Held(t),
           \A i, j \in OfTicker(t) : i # j => fills[i].at # fills[j].at
    PROVE  entry'[t] = Replay(AsHappened(OfTicker(t))).entry
<1> DEFINE ids == OfTicker(t)
           kept == NewestOf(ids, HistoryCap)
           n == Cardinality(ids)
           m == Cardinality(kept)
           full == AsHappened(ids)
           end == AsHappened(kept)
<1>1. TypeOK /\ fills \in Log /\ HistoryCap \in Nat
  BY TypeFacts, LimitAssumption DEF AccountInv
<1>2. ids \in SUBSET DOMAIN fills
  BY DEF OfTicker
<1>3. kept \in SUBSET ids /\ \A i \in kept, j \in ids \ kept : j < i
  BY <1>1, <1>2, NewestIsEnd
<1>4. /\ n \in Nat /\ m \in Nat /\ m <= n
      /\ \A k \in 1 .. m : end[k] = full[n - m + k]
  BY <1>1, <1>2, <1>3, EndOfHistory
<1>5. History(kept) = end
  <2>1. kept \in SUBSET DOMAIN fills /\ \A i, j \in kept : i # j => fills[i].at # fills[j].at
    BY <1>2, <1>3
  <2> HIDE DEF kept
  <2> QED
    BY <1>1, <2>1, SortKeeps
<1>6. full \in [1 .. n -> Kinds] /\ end \in [1 .. m -> Kinds]
  <2>1. kept \in SUBSET DOMAIN fills
    BY <1>2, <1>3
  <2> HIDE DEF ids, kept
  <2> QED
    BY <1>1, <1>2, <2>1, InOrderIs
<1>7. Replayed(t) = Replay(end)
  BY <1>5 DEF Replayed
<1>8. /\ position[t] # 0 /\ Replay(end).position = position[t]
      /\ entry' = [entry EXCEPT ![t] = Replay(end).entry]
  BY <1>7 DEF Backfill, Backfills
<1>9. position[t] = Replay(full).position
  <2>1. Held(t) = Net(full)
    BY <1>8 DEF Held
  <2> HIDE DEF full, n
  <2> QED
    BY <1>4, <1>6, <2>1, NetIs
<1> HIDE DEF full, end, n, m
<1>10. Replay(end) = Replay(full)
  BY <1>4, <1>6, <1>8, <1>9, ReplayOfEnd
<1>11. entry'[t] = Replay(end).entry
  BY <1>1, <1>8, TypeFacts
<1> QED
  BY <1>10, <1>11 DEF full

\* Only a backfill gives an entry price to a position that keeps its size.
LEMMA OnlyBackfills ==
    ASSUME AccountInv, [Next]_vars, NEW t \in Tickers,
           entry[t] = Unknown, entry'[t] # Unknown, position'[t] = position[t]
    PROVE  Backfill(t)
<1>1. TypeOK
  BY DEF AccountInv
<1>2. entry' # entry
  OBVIOUS
<1>3. ~ (ExchangeFill \/ ExchangeSettles \/ HaltAllTrading \/ ResetDaily \/ RefreshMarkets
         \/ UNCHANGED vars)
  BY <1>2 DEF ExchangeFill, ExchangeSettles, HaltAllTrading, ResetDaily, RefreshMarkets, vars
<1>4. ~ Restart
  BY DEF Restart, Fresh
<1>5. ~ BookFill
  <2>1. SUFFICES ASSUME BookFill PROVE FALSE
    OBVIOUS
  <2>2. PICK id \in (horizon + 1 .. Len(fills)) \ booked :
          LET f == fills[id].fill IN
          /\ position' = [position EXCEPT ![f.ticker] = position[f.ticker] + Signed(f)]
          /\ \E e : entry' = [entry EXCEPT ![f.ticker] = e]
    BY <2>1 DEF BookFill
  <2> DEFINE f == fills[id].fill
  <2>3. f \in Kinds
    <3>1. fills \in Log /\ horizon \in Nat /\ Len(fills) \in Nat
          /\ DOMAIN fills = 1 .. Len(fills)
      BY <1>1, TypeFacts, LogEntries
    <3> QED
      BY <3>1, LogEntries
  <2>4. entry \in [Tickers -> Entries] /\ position \in [Tickers -> Int]
    BY <1>1, TypeFacts
  <2> HIDE DEF f
  <2>5. f.ticker = t
    BY <2>2, <2>4 DEF f
  <2>6. position'[t] = position[t] + Signed(f)
    BY <2>2, <2>4, <2>5 DEF f
  <2>7. Signed(f) \in Int /\ Signed(f) # 0 /\ position[t] \in Int
    BY <2>3, <2>4, KindIs
  <2> QED
    BY <2>6, <2>7
<1>6. ASSUME NEW u \in Tickers, Settle(u) \/ Drift(u) \/ GiveUp(u) \/ Backfill(u)
      PROVE  Backfill(t)
  <2>1. entry \in [Tickers -> Entries] /\ position \in [Tickers -> Int]
    BY <1>1, TypeFacts
  <2>2. ~ Settle(u) /\ ~ GiveUp(u)
    BY <2>1 DEF Settle, GiveUp
  <2>3. ~ Drift(u)
    BY <2>1 DEF Drift
  <2>4. Backfill(u) => u = t
    BY <2>1 DEF Backfill
  <2> QED
    BY <1>6, <2>2, <2>3, <2>4
<1> QED
  BY <1>3, <1>4, <1>5, <1>6 DEF Next

\* A rebuilt entry price is that of a process that lived through all the fills, for
\* any fills, prices and sizes and any cap on the history, when the position is the
\* exchange's and no two fills share a second (main.rs:1126-1172).
THEOREM RebuiltEntriesAreExact == Spec => BackfillIsExact
<1>1. AccountInv /\ TimesRise /\ [Next]_vars =>
        \A t \in Tickers :
          LET ids == OfTicker(t) IN
          /\ entry[t] = Unknown /\ entry'[t] # Unknown /\ position'[t] = position[t]
          /\ position[t] = Held(t)
          /\ \A i, j \in ids : i # j => fills[i].at # fills[j].at
          => entry'[t] = Replay(AsHappened(ids)).entry
  BY OnlyBackfills, BackfillsExactly
<1> QED
  BY <1>1, Begins, Steps, TimesBegin, TimesStep, PTL DEF Spec, BackfillIsExact
-------------------------------------------------------------------------------
\* The stop-loss.

\* The invariant: a quote is passive to the book it was made on, and so is the
\* entry price of what it opened.
QuotePassive ==
    quote # None => /\ quote.under.bid < quote.under.ask
                    /\ quote.bid <= quote.under.ask - Tick
                    /\ quote.ask >= quote.under.bid + Tick
EntryPassive ==
    opened # None => /\ opened.bid < opened.ask
                     /\ entryPrice # None
                     /\ contracts = 1 => entryPrice <= opened.ask - Tick
                     /\ contracts = -1 => entryPrice >= opened.bid + Tick
TInv == TriggerTypeOK /\ QuotePassive /\ EntryPassive

\* Prices are numbers, and what is not one is none of them.
LEMMA Numbers ==
    /\ Prices \subseteq Nat /\ QuotePrices \subseteq Nat
    /\ None \notin Prices /\ None \notin QuotePrices
    /\ Tick \in Nat
  BY PriceAssumption, NoneAssumption

LEMMA TriggersBegin == TriggerInit => TInv
<1> SUFFICES ASSUME TriggerInit PROVE TInv
  OBVIOUS
<1>1. {bid, ask} \subseteq Prices \cup {None} /\ shift \in Shifts /\ closing \in BOOLEAN
  BY DEF TriggerInit
<1>2. /\ quote \in Quotes \cup {None} /\ contracts \in -1 .. 1
      /\ entryPrice \in QuotePrices \cup {None} /\ opened \in Touches \cup {None}
      /\ contracts = 0 => entryPrice = None
  BY DEF TriggerInit
<1>3. QuotePassive /\ EntryPassive
  BY DEF TriggerInit, QuotePassive, EntryPassive
<1> QED
  BY <1>1, <1>2, <1>3 DEF TInv, TriggerTypeOK

LEMMA RequoteStep ==
    ASSUME TInv, Requote
    PROVE  TInv'
<1>1. PICK p \in [bid : QuotePrices, ask : QuotePrices] :
        /\ p.bid <= ask - Tick /\ p.ask >= bid + Tick
        /\ quote' = [bid |-> p.bid, ask |-> p.ask,
                     under |-> [bid |-> bid, ask |-> ask, shift |-> shift],
                     on |-> {s \in {"bid", "ask"} : contracts # IF s = "bid" THEN 1 ELSE -1}]
  BY DEF Requote
<1>2. bid \in Prices /\ ask \in Prices /\ bid < ask /\ shift \in Shifts
  BY DEF TInv, TriggerTypeOK, Requote, IsValid
<1>3. quote' \in Quotes
  BY <1>1, <1>2 DEF Quotes, Touches
<1>4. QuotePassive'
  BY <1>1, <1>2 DEF QuotePassive
<1> QED
  BY <1>3, <1>4 DEF Requote, TInv, TriggerTypeOK, EntryPassive, bookVars, holdingVars

LEMMA FillStep ==
    ASSUME TInv, QuoteFills
    PROVE  TInv'
<1>1. PICK side \in quote.on :
        LET after == IF side = "bid" THEN contracts + 1 ELSE contracts - 1 IN
        /\ after \in -1 .. 1
        /\ quote' = [quote EXCEPT !.on = @ \ {side}]
        /\ contracts' = after
        /\ entryPrice' = IF after = 0 THEN None ELSE quote[side]
        /\ opened' = IF after = 0 THEN None ELSE quote.under
  BY DEF QuoteFills
<1>2. quote \in Quotes /\ quote # None
  BY DEF TInv, TriggerTypeOK, QuoteFills
<1>3. /\ quote.under \in Touches /\ quote.bid \in QuotePrices /\ quote.ask \in QuotePrices
      /\ side \in {"bid", "ask"} /\ contracts \in -1 .. 1 /\ contracts' \in -1 .. 1
  BY <1>1, <1>2 DEF Quotes, TInv, TriggerTypeOK
<1>4. /\ quote.under.bid < quote.under.ask
      /\ quote.bid <= quote.under.ask - Tick
      /\ quote.ask >= quote.under.bid + Tick
  BY <1>2 DEF TInv, QuotePassive
<1>5. /\ quote' \in Quotes /\ quote'.bid = quote.bid /\ quote'.ask = quote.ask
      /\ quote'.under = quote.under
  <2>1. quote' = [quote EXCEPT !.on = @ \ {side}]
    BY <1>1
  <2> QED
    BY <1>2, <2>1 DEF Quotes
<1>6. QuotePassive'
  BY <1>4, <1>5 DEF QuotePassive
<1>7. /\ entryPrice' \in QuotePrices \cup {None} /\ opened' \in Touches \cup {None}
      /\ contracts' = 0 => entryPrice' = None
      /\ EntryPassive'
  <2>1. CASE contracts' = 0
    BY <1>1, <2>1 DEF EntryPassive
  <2>2. CASE contracts' # 0 /\ side = "bid"
    <3>1. contracts' = 1 /\ entryPrice' = quote.bid /\ opened' = quote.under
      BY <1>1, <1>3, <2>2
    <3> QED
      BY <1>3, <1>4, <3>1, Numbers DEF EntryPassive
  <2>3. CASE contracts' # 0 /\ side = "ask"
    <3>1. contracts' = -1 /\ entryPrice' = quote.ask /\ opened' = quote.under
      BY <1>1, <1>3, <2>3
    <3> QED
      BY <1>3, <1>4, <3>1, Numbers DEF EntryPassive
  <2> QED
    BY <1>3, <2>1, <2>2, <2>3
<1> QED
  BY <1>3, <1>5, <1>6, <1>7 DEF QuoteFills, TInv, TriggerTypeOK, bookVars

LEMMA TriggersStep ==
    ASSUME TInv, [TriggerNext]_triggerVars
    PROVE  TInv'
<1> USE DEF TInv, TriggerTypeOK
<1>1. CASE BookMoves
  BY <1>1 DEF BookMoves, QuotePassive, EntryPassive, holdingVars
<1>2. CASE SpotMoves
  BY <1>2 DEF SpotMoves, QuotePassive, EntryPassive, bookVars, holdingVars
<1>3. CASE ExpiryNears
  BY <1>3 DEF ExpiryNears, QuotePassive, EntryPassive, bookVars, holdingVars
<1>4. CASE Adopt
  BY <1>4 DEF Adopt, QuotePassive, EntryPassive, bookVars
<1>5. CASE GetOut
  BY <1>5 DEF GetOut, QuotePassive, EntryPassive, bookVars
<1>6. CASE UNCHANGED triggerVars
  BY <1>6 DEF triggerVars, QuotePassive, EntryPassive, bookVars, holdingVars
<1> QED
  BY <1>1, <1>2, <1>3, <1>4, <1>5, <1>6, RequoteStep, FillStep
     DEF TriggerNext, CheckExits, CheckSpotUnwind

\* Types, for all prices and shifts; an entry price is one that was quoted
\* (state.rs:394, engine.rs:140-150).
THEOREM TriggerTypes == TriggerSpec => []TriggerTypeOK
<1>1. TInv => TriggerTypeOK
  BY DEF TInv
<1> QED
  BY <1>1, TriggersBegin, TriggersStep, PTL DEF TriggerSpec

\* However far a book steps back, the loss it shows on a passive entry is less

\* than the spread, and the threshold is twice that.
LEMMA WideBooks ==
    ASSUME TInv
    PROVE  WideningNeverStops
<1> SUFFICES ASSUME contracts # 0, Wider PROVE ~StopLossTriggered
  BY DEF WideningNeverStops
<1>1. bid \in Nat /\ ask \in Nat /\ bid < ask /\ opened \in Touches /\ opened # None
      /\ entryPrice \in Nat
  BY Numbers DEF TInv, TriggerTypeOK, EntryPassive, Wider, IsValid
<1>2. opened.bid \in Nat /\ opened.ask \in Nat
      /\ bid <= opened.bid /\ ask >= opened.ask
  BY <1>1, Numbers DEF Touches, Wider
<1>3. Threshold >= 4 * (ask - bid)
  BY <1>1 DEF Threshold, Larger, StopLossFloor
<1>4. CASE contracts = 1
  <2>1. entryPrice <= ask
    BY <1>1, <1>2, <1>4, Numbers DEF TInv, EntryPassive
  <2>2. contracts * (bid + ask - 2 * entryPrice) >= bid - ask
    BY <1>1, <1>2, <1>4, <2>1
  <2> QED
    BY <1>1, <1>2, <1>3, <1>4, <2>2 DEF StopLossTriggered, Threshold, Larger, StopLossFloor
<1>5. CASE contracts = -1
  <2>1. entryPrice >= bid
    BY <1>1, <1>2, <1>5, Numbers DEF TInv, EntryPassive
  <2>2. contracts * (bid + ask - 2 * entryPrice) >= bid - ask
    BY <1>1, <1>2, <1>5, <2>1
  <2> QED
    BY <1>1, <1>2, <1>3, <1>5, <2>2 DEF StopLossTriggered, Threshold, Larger, StopLossFloor
<1> QED
  BY <1>4, <1>5 DEF TInv, TriggerTypeOK

\* For all prices: a position that a passive quote opened is never stopped out
\* by a side of its book stepping back (engine.rs:356-370, README.md:121-122).
THEOREM WobbleSafe == TriggerSpec => []WideningNeverStops
  BY TriggersBegin, TriggersStep, WideBooks, PTL DEF TriggerSpec
===============================================================================
