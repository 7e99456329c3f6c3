------------------------------- MODULE Numbers ------------------------------
(* What the proofs need of numbers and the provers do not know: least and     *)
(* greatest elements of sets, induction in the form of sets, and quotients    *)
(* and remainders by a divisor that is not a literal.                         *)
EXTENDS Integers, WellFoundedInduction, TLAPS

\* A set of natural numbers that is not empty has a least element.
LEMMA LeastElement ==
    ASSUME NEW T \in SUBSET Nat, T # {}
    PROVE  \E x \in T : \A y \in T : x <= y
<1> DEFINE Less == OpToRel(<, Nat)
<1>1. Less = {p \in Nat \X Nat : p[1] < p[2]}
  BY DEF OpToRel
<1>2. \A x, y \in Nat : <<x, y>> \in Less <=> x < y
  BY <1>1
<1>3. IsWellFoundedOn(Less, Nat)
  BY NatLessThanWellFounded
<1> HIDE DEF Less
<1>4. PICK x \in T : \A y \in T : ~(<<y, x>> \in Less)
  BY <1>3, WFMin
<1>5. ASSUME NEW y \in T PROVE x <= y
  <2>1. x \in Nat /\ y \in Nat /\ ~(y < x)
    BY <1>2, <1>4
  <2> QED
    BY <2>1
<1> QED
  BY <1>5

\* One that is bounded has a greatest element.
LEMMA GreatestElement ==
    ASSUME NEW T \in SUBSET Nat, T # {}, NEW b \in Nat, \A x \in T : x <= b
    PROVE  \E x \in T : \A y \in T : y <= x
<1> DEFINE Bounds == {n \in Nat : \A x \in T : x <= n}
<1>1. Bounds \in SUBSET Nat /\ b \in Bounds
  OBVIOUS
<1>2. PICK m \in Bounds : \A n \in Bounds : m <= n
  <2> HIDE DEF Bounds
  <2> QED
    BY <1>1, LeastElement
<1>3. m \in T
  <2> SUFFICES ASSUME m \notin T PROVE FALSE
    OBVIOUS
  <2>1. \A x \in T : x < m
    BY <1>2
  <2>2. m \in Nat /\ m # 0
    <3>1. PICK t \in T : TRUE
      OBVIOUS
    <3> QED
      BY <2>1, <3>1
  <2>3. m - 1 \in Bounds
    BY <2>1, <2>2
  <2> QED
    BY <1>2, <2>2, <2>3
<1> QED
  BY <1>2, <1>3

\* A set with 0 and with the successor of each of its members has all numbers.
LEMMA AllNaturals ==
    ASSUME NEW S \in SUBSET Nat, 0 \in S, \A n \in S : n + 1 \in S
    PROVE  S = Nat
<1> SUFFICES ASSUME Nat \ S # {} PROVE FALSE
  OBVIOUS
<1>1. PICK m \in Nat \ S : \A n \in Nat \ S : m <= n
  BY LeastElement
<1>2. m - 1 \in S
  BY <1>1
<1> QED
  BY <1>1, <1>2

\* Quotient and remainder are unique.
LEMMA QuotientIs ==
    ASSUME NEW d \in Nat \ {0}, NEW q \in Int, NEW r \in 0..(d - 1)
    PROVE  (d * q + r) \div d = q /\ (d * q + r) % d = r
<1> DEFINE n == d * q + r
<1> DEFINE p == n \div d
<1> DEFINE s == n % d
<1>1. n \in Int
  OBVIOUS
<1>2. p \in Int /\ s \in 0..(d - 1) /\ n = d * p + s
  <2> HIDE DEF n
  <2> QED
    BY <1>1
<1>3. d * (p - q) = r - s
  <2>1. d * (p - q) = d * p - d * q
    <3> HIDE DEF p
    <3> QED
      BY <1>2
  <2> HIDE DEF p, s
  <2> QED
    BY <1>2, <2>1
<1>4. p - q = 0
  <2> DEFINE e == p - q
  <2>1. e \in Int /\ d * e < d /\ d * e > -d
    BY <1>2, <1>3
  <2> HIDE DEF e
  <2>2. ~(e >= 1) /\ ~(e <= -1)
    BY <2>1
  <2> QED
    BY <2>1, <2>2
<1> QED
  BY <1>2, <1>4

\* Dividing twice is dividing by the product.
LEMMA DivideTwice ==
    ASSUME NEW v \in Int, NEW s \in Nat \ {0}, NEW f \in Nat \ {0}
    PROVE  (v \div s) \div f = v \div (f * s)
<1> DEFINE a == v \div s
<1> DEFINE r == v % s
<1> DEFINE q == a \div f
<1> DEFINE t == a % f
<1>1. a \in Int /\ r \in 0..(s - 1) /\ v = s * a + r
  OBVIOUS
<1>2. q \in Int /\ t \in 0..(f - 1) /\ a = f * q + t
  <2> HIDE DEF a
  <2> QED
    BY <1>1
<1> HIDE DEF a, r, q, t
<1>3. f * s \in Nat \ {0}
  OBVIOUS
<1>4. v = (f * s) * q + (s * t + r)
  BY <1>1, <1>2
<1>5. s * t + r \in 0..(f * s - 1)
  <2>1. s * t <= s * (f - 1) /\ s * t >= 0
    BY <1>2
  <2>2. s * (f - 1) = f * s - s
    OBVIOUS
  <2> QED
    BY <1>1, <1>2, <2>1, <2>2
<1>6. v \div (f * s) = q
  <2> DEFINE d == f * s
  <2> DEFINE x == s * t + r
  <2>1. d \in Nat \ {0} /\ x \in 0..(d - 1) /\ v = d * q + x
    BY <1>3, <1>4, <1>5
  <2> HIDE DEF d, x
  <2>2. v \div d = q
    BY <1>2, <2>1, QuotientIs
  <2> QED
    BY <2>2 DEF d
<1> QED
  BY <1>6 DEF a, q

\* A remainder may be taken before adding.
LEMMA AddToRemainder ==
    ASSUME NEW w \in Nat \ {0}, NEW a \in Int, NEW d \in Int
    PROVE  ((a % w) + d) % w = (a + d) % w
<1> DEFINE q == a \div w
<1> DEFINE r == a % w
<1> DEFINE p == (r + d) \div w
<1> DEFINE s == (r + d) % w
<1>1. q \in Int /\ r \in 0..(w - 1) /\ a = w * q + r
  OBVIOUS
<1>2. p \in Int /\ s \in 0..(w - 1) /\ r + d = w * p + s
  <2> HIDE DEF r
  <2> QED
    BY <1>1
<1> HIDE DEF q, r, p, s
<1>3. a + d = w * (q + p) + s
  <2>1. w * (q + p) = w * q + w * p
    BY <1>1, <1>2
  <2> QED
    BY <1>1, <1>2, <2>1
<1>4. (w * (q + p) + s) % w = s
  <2> DEFINE k == q + p
  <2>1. k \in Int
    BY <1>1, <1>2
  <2> HIDE DEF k
  <2>2. (w * k + s) % w = s
    BY <1>2, <2>1, QuotientIs
  <2> QED
    BY <2>2 DEF k
<1> QED
  BY <1>3, <1>4 DEF s, r
\* Function f is a loop that goes up until it finds a place to stop.
IsSearch(f, Stop, val) == f = [k \in Nat |-> IF k \in Stop THEN val[k] ELSE f[k + 1]]

\* There is one.
LEMMA SearchExists ==
    ASSUME NEW Stop \in SUBSET Nat, NEW val
    PROVE  \E f : IsSearch(f, Stop, val)
<1> DEFINE Later(k) == {j \in Stop : k <= j}
<1> DEFINE First(k) == CHOOSE j \in Later(k) : \A l \in Later(k) : j <= l
<1> DEFINE g == [k \in Nat |-> IF Later(k) = {} THEN 0 ELSE val[First(k)]]
<1>1. ASSUME NEW k \in Nat, Later(k) # {}
      PROVE  First(k) \in Later(k) /\ \A l \in Later(k) : First(k) <= l
  <2>1. Later(k) \in SUBSET Nat
    OBVIOUS
  <2>2. \E j \in Later(k) : \A l \in Later(k) : j <= l
    <3> HIDE DEF Later
    <3> QED
      BY <1>1, <2>1, LeastElement
  <2> HIDE DEF Later
  <2> QED
    BY <2>2
<1>2. ASSUME NEW k \in Nat
      PROVE  g[k] = IF k \in Stop THEN val[k] ELSE g[k + 1]
  <2>1. CASE k \in Stop
    <3>1. k \in Later(k) /\ \A l \in Later(k) : k <= l
      BY <2>1
    <3>2. First(k) = k
      <4>1. First(k) \in Later(k) /\ First(k) <= k
        BY <1>1, <3>1
      <4>2. First(k) \in Nat /\ First(k) >= k
        BY <4>1
      <4> HIDE DEF First, Later
      <4> QED
        BY <4>1, <4>2
    <3> QED
      BY <2>1, <3>1, <3>2
  <2>2. CASE k \notin Stop
    <3>1. Later(k + 1) = Later(k)
      <4>1. \A j \in Stop : k <= j <=> k + 1 <= j
        <5>1. \A j \in Stop : j \in Nat /\ j # k
          BY <2>2
        <5> QED
          BY <5>1
      <4> QED
        BY <4>1
    <3>2. First(k + 1) = First(k)
      <4> HIDE DEF Later
      <4> QED
        BY <3>1
    <3> HIDE DEF First, Later
    <3> QED
      BY <2>2, <3>1, <3>2
  <2> QED
    BY <2>1, <2>2
<1>3. g = [k \in Nat |-> IF k \in Stop THEN val[k] ELSE g[k + 1]]
  <2>1. g = [k \in Nat |-> g[k]]
    OBVIOUS
  <2> HIDE DEF g
  <2> QED
    BY <1>2, <2>1
<1> QED
  BY <1>3 DEF IsSearch

\* The result is that of the first place.
LEMMA SearchFinds ==
    ASSUME NEW Stop \in SUBSET Nat, NEW val, NEW f,
           IsSearch(f, Stop, val),
           NEW z \in Stop, NEW s \in 0..z, \A j \in s..(z - 1) : j \notin Stop
    PROVE  f[s] = val[z]
<1> DEFINE S == {n \in Nat : n <= z - s => f[z - n] = val[z]}
<1>1. 0 \in S
  BY DEF S, IsSearch
<1>2. ASSUME NEW n \in S PROVE n + 1 \in S
  <2> SUFFICES ASSUME n + 1 <= z - s PROVE f[z - (n + 1)] = val[z]
    OBVIOUS
  <2>1. z - (n + 1) \in Nat /\ z - (n + 1) \notin Stop /\ z - (n + 1) + 1 = z - n
    OBVIOUS
  <2>2. f[z - (n + 1)] = f[z - (n + 1) + 1]
    BY <2>1 DEF IsSearch
  <2> QED
    BY <2>1, <2>2
<1>3. S = Nat
  <2>1. S \in SUBSET Nat
    OBVIOUS
  <2> HIDE DEF S
  <2> QED
    BY <1>1, <1>2, <2>1, AllNaturals
<1>4. z - s \in Nat /\ z - (z - s) = s /\ z - s <= z - s
  OBVIOUS
<1>5. \A n \in Nat : n <= z - s => f[z - n] = val[z]
  BY <1>3 DEF S
<1> QED
  BY <1>4, <1>5

\* Function f is n rounds of a loop.
IsLoop(f, n, first, step) ==
    f = [k \in 0..n |-> IF k = 0 THEN first ELSE step[<<k, f[k - 1]>>]]

\* There is one, and it keeps its type.
LEMMA LoopExists ==
    ASSUME NEW D, NEW first \in D, NEW step \in [(Nat \ {0}) \X D -> D], NEW n \in Nat
    PROVE  \E f \in [0..n -> D] : IsLoop(f, n, first, step)
<1> DEFINE S == {m \in Nat : \E f \in [0..m -> D] : IsLoop(f, m, first, step)}
<1>1. 0 \in S
  <2> DEFINE f == [k \in 0..0 |-> first]
  <2>1. f \in [0..0 -> D]
    OBVIOUS
  <2>2. IsLoop(f, 0, first, step)
    <3>1. \A k \in 0..0 : k = 0
      OBVIOUS
    <3> QED
      BY <3>1 DEF IsLoop
  <2> HIDE DEF f
  <2> QED
    BY <2>1, <2>2
<1>2. ASSUME NEW m \in S PROVE m + 1 \in S
  <2>1. PICK f \in [0..m -> D] : IsLoop(f, m, first, step)
    OBVIOUS
  <2> DEFINE g == [k \in 0..(m + 1) |-> IF k = m + 1 THEN step[<<m + 1, f[m]>>] ELSE f[k]]
  <2>2. f[m] \in D /\ step[<<m + 1, f[m]>>] \in D
    BY <2>1
  <2>3. g \in [0..(m + 1) -> D]
    BY <2>1, <2>2
  <2>4. ASSUME NEW k \in 0..(m + 1)
        PROVE  g[k] = IF k = 0 THEN first ELSE step[<<k, g[k - 1]>>]
    <3>1. CASE k = m + 1
      <4>1. k - 1 = m /\ k # 0 /\ g[m] = f[m]
        BY <3>1
      <4> QED
        BY <3>1, <4>1
    <3>2. CASE k # m + 1
      <4>1. k \in 0..m /\ g[k] = f[k]
        BY <3>2
      <4>2. f[k] = IF k = 0 THEN first ELSE step[<<k, f[k - 1]>>]
        BY <2>1, <4>1 DEF IsLoop
      <4>3. k # 0 => k - 1 \in 0..(m + 1) /\ k - 1 # m + 1
        BY <4>1
      <4>4. k # 0 => g[k - 1] = f[k - 1]
        BY <4>3
      <4> HIDE DEF g
      <4> QED
        BY <4>1, <4>2, <4>4
    <3> QED
      BY <3>1, <3>2
  <2>5. g = [k \in 0..(m + 1) |-> g[k]]
    OBVIOUS
  <2> HIDE DEF g
  <2>6. IsLoop(g, m + 1, first, step)
    BY <2>4, <2>5 DEF IsLoop
  <2> QED
    BY <2>3, <2>6
<1>3. S = Nat
  <2>1. S \in SUBSET Nat
    OBVIOUS
  <2> HIDE DEF S
  <2> QED
    BY <1>1, <1>2, <2>1, AllNaturals
<1> QED
  BY <1>3
=============================================================================
