--------------------------- MODULE BitwidthProofs ---------------------------
(***************************************************************************)
(* The width functions for words of any size and formats of any            *)
(* proportions, and what on_ins() makes of them.                           *)
(***************************************************************************)
EXTENDS BitPatterns, Operands, OperatorProofs

(***************************************************************************)
(* Quotients and remainders.                                               *)
(***************************************************************************)
\* A product grows with a factor.
LEMMA Times ==
  ASSUME NEW a \in Nat, NEW x \in Int, NEW y \in Int, x <= y
  PROVE  a * x <= a * y
BY SMT

\* Division with remainder.
LEMMA DivMod ==
  ASSUME NEW a \in Nat \ {0}, NEW n \in Int
  PROVE  n \div a \in Int /\ n % a \in 0 .. a - 1 /\ n = a * (n \div a) + (n % a)
OBVIOUS

\* Its quotient and remainder are the only ones.
LEMMA Quotient ==
  ASSUME NEW a \in Nat \ {0}, NEW q \in Int, NEW r \in 0 .. a - 1
  PROVE  (a * q + r) \div a = q /\ (a * q + r) % a = r
<1> DEFINE n == a * q + r
           p == n \div a
           s == n % a
<1>1. n \in Int
  OBVIOUS
<1>2. p \in Int /\ s \in 0 .. a - 1 /\ n = a * p + s
  BY <1>1, DivMod
<1> HIDE DEF p, s
<1>3. a * q + r = a * p + s
  BY <1>2
<1>4. r = s
  BY <1>2, <1>3, Division
<1>5. ~(p + 1 <= q) /\ ~(q + 1 <= p)
  <2>1. p + 1 <= q => a * (p + 1) <= a * q
    BY <1>2, Times
  <2>2. q + 1 <= p => a * (q + 1) <= a * p
    BY <1>2, Times
  <2>3. a * (p + 1) = a * p + a /\ a * (q + 1) = a * q + a
    BY <1>2
  <2> QED
    BY <1>2, <1>3, <2>1, <2>2, <2>3
<1>6. p = q
  BY <1>2, <1>5
<1> QED
  BY <1>4, <1>6 DEF p, s

\* A number divided in two steps: the remainder of the whole is that of the
\* second above that of the first.
LEMMA TwoSteps ==
  ASSUME NEW a \in Nat \ {0}, NEW b \in Nat \ {0}, NEW n \in Int
  PROVE  /\ a * b \in Nat \ {0}
         /\ n \div (a * b) = (n \div a) \div b
         /\ n % (a * b) = a * ((n \div a) % b) + (n % a)
         /\ (n % (a * b)) \div a = (n \div a) % b
         /\ (n % (a * b)) % a = n % a
<1> DEFINE q == n \div a
           r == n % a
           p == q \div b
           s == q % b
<1>1. q \in Int /\ r \in 0 .. a - 1 /\ n = a * q + r
  BY DivMod
<1> HIDE DEF q, r
<1>2. p \in Int /\ s \in 0 .. b - 1 /\ q = b * p + s
  BY <1>1, DivMod
<1> HIDE DEF p, s
<1>3. a * b \in Nat \ {0}
  BY SMT
<1>4. n = (a * b) * p + (a * s + r)
  BY <1>1, <1>2
<1>5. a * s + r \in 0 .. a * b - 1
  <2>1. a * 0 <= a * s /\ a * s <= a * (b - 1)
    BY <1>2, Times
  <2>2. a * (b - 1) = a * b - a /\ a * 0 = 0 /\ a * s \in Int
    BY <1>2
  <2> QED
    BY <1>1, <1>3, <2>1, <2>2
<1>6. n \div (a * b) = p /\ n % (a * b) = a * s + r
  <2> DEFINE c == a * b
             t == a * s + r
  <2>1. c \in Nat \ {0} /\ t \in 0 .. c - 1 /\ n = c * p + t
    BY <1>3, <1>4, <1>5
  <2> HIDE DEF c, t
  <2>2. n \div c = p /\ n % c = t
    BY <2>1, <1>2, Quotient
  <2> QED
    BY <2>2 DEF c, t
<1>7. (a * s + r) \div a = s /\ (a * s + r) % a = r
  BY <1>1, <1>2, Quotient
<1> QED
  BY <1>3, <1>6, <1>7 DEF p, q, r, s

\* Both numbers of a division multiplied.
LEMMA Scaled ==
  ASSUME NEW a \in Nat \ {0}, NEW b \in Nat \ {0}, NEW n \in Int
  PROVE  (a * n) \div (a * b) = n \div b /\ (a * n) % (a * b) = a * (n % b)
<1> DEFINE m == a * n
<1>1. m \in Int
  OBVIOUS
<1>2. (a * n + 0) \div a = n /\ (a * n + 0) % a = 0
  BY Quotient
<1>3. n % b \in Int
  BY DivMod
<1>4. m \div a = n /\ m % a = 0
  BY <1>1, <1>2
<1> HIDE DEF m
<1>5. m \div (a * b) = (m \div a) \div b
  BY <1>1, TwoSteps
<1>6. m % (a * b) = a * ((m \div a) % b) + (m % a)
  BY <1>1, TwoSteps, ZenonT(60)
<1> QED
  BY <1>3, <1>4, <1>5, <1>6 DEF m

\* A multiple of the divisor added.
LEMMA Moved ==
  ASSUME NEW a \in Nat \ {0}, NEW n \in Int, NEW k \in Int
  PROVE  (n + a * k) \div a = n \div a + k /\ (n + a * k) % a = n % a
<1> DEFINE q == n \div a
           r == n % a
<1>1. q \in Int /\ r \in 0 .. a - 1 /\ n = a * q + r
  BY DivMod
<1> HIDE DEF q, r
<1>2. n + a * k = a * (q + k) + r
  BY <1>1
<1>3. q + k \in Int
  BY <1>1
<1>4. (a * (q + k) + r) \div a = q + k /\ (a * (q + k) + r) % a = r
  BY <1>1, <1>3, Quotient
<1> QED
  BY <1>2, <1>4 DEF q, r

\* The divisor added or taken away.
LEMMA MovedOnce ==
  ASSUME NEW a \in Nat \ {0}, NEW n \in Int
  PROVE  (n + a) % a = n % a /\ (n - a) % a = n % a
<1>1. ASSUME NEW k \in Int PROVE (n + a * k) % a = n % a
  BY Moved
<1>2. n + a * 1 = n + a /\ n + a * (-1) = n - a
  OBVIOUS
<1> DEFINE c == 1
           d == -1
<1>3. c \in Int /\ d \in Int /\ n + a * c = n + a /\ n + a * d = n - a
  BY <1>2
<1> HIDE DEF c, d
<1>4. (n + a * c) % a = n % a
  BY <1>1, <1>3
<1>5. (n + a * d) % a = n % a
  BY <1>1, <1>3
<1> QED
  BY <1>3, <1>4, <1>5

\* What is less than the divisor.
LEMMA Small ==
  ASSUME NEW a \in Nat \ {0}, NEW n \in 0 .. a - 1
  PROVE  n \div a = 0 /\ n % a = n
<1>1. (a * 0 + n) \div a = 0 /\ (a * 0 + n) % a = n
  BY Quotient
<1> QED
  BY <1>1

\* A quotient is below k when the number is below k times the divisor.
LEMMA QuotientBelow ==
  ASSUME NEW a \in Nat \ {0}, NEW n \in Int, NEW k \in Int
  PROVE  n \div a < k <=> n < a * k
<1> DEFINE q == n \div a
           r == n % a
<1>1. q \in Int /\ r \in 0 .. a - 1 /\ n = a * q + r
  BY DivMod
<1> HIDE DEF q, r
<1>2. q + 1 <= k => a * (q + 1) <= a * k
  BY <1>1, Times
<1>3. k <= q => a * k <= a * q
  BY <1>1, Times
<1>4. a * (q + 1) = a * q + a /\ a * k \in Int /\ a * q \in Int
  BY <1>1
<1>5. q < k <=> n < a * k
  BY <1>1, <1>2, <1>3, <1>4
<1> QED
  BY <1>5 DEF q

(***************************************************************************)
(* Powers of two.                                                          *)
(***************************************************************************)
\* The function exists: for the numbers up to n by induction, and those for
\* different n agree.
LEMMA Pow2Equation == Pow2 = [n \in Nat |-> IF n = 0 THEN 1 ELSE 2 * Pow2[n - 1]]
<1> DEFINE Part(g, n) == g = [k \in 0 .. n |-> IF k = 0 THEN 1 ELSE 2 * g[k - 1]]
           N == {n \in Nat : \E g : Part(g, n)}
           P(n) == CHOOSE g : Part(g, n)
           f == [n \in Nat |-> P(n)[n]]
<1>1. 0 \in N
  <2> DEFINE g == [k \in 0 .. 0 |-> 1]
  <2>1. Part(g, 0)
    OBVIOUS
  <2> QED
    BY <2>1
<1>2. ASSUME NEW n \in Nat, n \in N PROVE n + 1 \in N
  <2>1. PICK g : Part(g, n)
    BY <1>2
  <2> DEFINE h == [k \in 0 .. n + 1 |-> IF k = 0 THEN 1 ELSE 2 * g[k - 1]]
  <2>2. \A k \in 0 .. n : h[k] = g[k]
    BY <2>1
  <2>3. \A k \in 0 .. n + 1 : k # 0 => k - 1 \in 0 .. n
    OBVIOUS
  <2>4. Part(h, n + 1)
    BY <2>2, <2>3
  <2> HIDE DEF h, Part
  <2> QED
    BY <2>4
<1> HIDE DEF N
<1>3. ASSUME NEW n \in Nat PROVE Part(P(n), n)
  <2>1. n \in N
    BY <1>1, <1>2, Induct
  <2>2. \E g : Part(g, n)
    BY <2>1 DEF N
  <2> HIDE DEF Part
  <2> QED
    BY <2>2
<1> HIDE DEF P
<1>4. ASSUME NEW n \in Nat \ {0} PROVE P(n)[n] = 2 * P(n - 1)[n - 1]
  <2> DEFINE S == {k \in Nat : k <= n - 1 => P(n)[k] = P(n - 1)[k]}
  <2>1. n - 1 \in Nat /\ Part(P(n), n) /\ Part(P(n - 1), n - 1)
    BY <1>3
  <2>2. \A k \in 0 .. n : P(n)[k] = IF k = 0 THEN 1 ELSE 2 * P(n)[k - 1]
    BY <2>1
  <2>3. \A k \in 0 .. n - 1 :
          P(n - 1)[k] = IF k = 0 THEN 1 ELSE 2 * P(n - 1)[k - 1]
    BY <2>1
  <2> HIDE DEF Part
  <2>4. 0 \in S
    BY <2>1, <2>2, <2>3
  <2>5. ASSUME NEW k \in Nat, k \in S PROVE k + 1 \in S
    <3> SUFFICES ASSUME k + 1 <= n - 1 PROVE P(n)[k + 1] = P(n - 1)[k + 1]
      OBVIOUS
    <3>1. k + 1 \in 0 .. n - 1 /\ k + 1 \in 0 .. n /\ k + 1 # 0 /\ (k + 1) - 1 = k
      OBVIOUS
    <3>2. P(n)[k + 1] = 2 * P(n)[k] /\ P(n - 1)[k + 1] = 2 * P(n - 1)[k]
      BY <2>2, <2>3, <3>1
    <3>3. P(n)[k] = P(n - 1)[k]
      BY <2>5
    <3> QED
      BY <3>2, <3>3
  <2> HIDE DEF S
  <2>6. n - 1 \in S
    BY <2>1, <2>4, <2>5, Induct
  <2>7. P(n)[n - 1] = P(n - 1)[n - 1]
    BY <2>6 DEF S
  <2> QED
    BY <2>2, <2>7
<1>5. P(0)[0] = 1
  <2>1. Part(P(0), 0)
    BY <1>3
  <2> QED
    BY <2>1
<1> HIDE DEF Part
<1>6. f = [n \in Nat |-> IF n = 0 THEN 1 ELSE 2 * f[n - 1]]
  <2>1. \A n \in Nat : n # 0 => n - 1 \in Nat /\ n \in Nat \ {0}
    OBVIOUS
  <2>2. \A n \in Nat : P(n)[n] = IF n = 0 THEN 1 ELSE 2 * f[n - 1]
    BY <1>4, <1>5, <2>1
  <2> QED
    BY <2>2
<1> HIDE DEF f
<1> QED
  BY <1>6 DEF Pow2

\* Its values.
LEMMA Pow2Values ==
  /\ Pow2[0] = 1
  /\ \A n \in Nat : Pow2[n] \in Nat \ {0} /\ Pow2[n + 1] = 2 * Pow2[n]
<1> DEFINE S == {n \in Nat : Pow2[n] \in Nat \ {0}}
<1>1. Pow2[0] = 1
  BY Pow2Equation
<1>2. \A n \in Nat : Pow2[n + 1] = 2 * Pow2[n]
  <2> SUFFICES ASSUME NEW n \in Nat PROVE Pow2[n + 1] = 2 * Pow2[n]
    OBVIOUS
  <2>1. n + 1 \in Nat /\ n + 1 # 0 /\ (n + 1) - 1 = n
    OBVIOUS
  <2> QED
    BY <2>1, Pow2Equation
<1>3. 0 \in S
  BY <1>1
<1>4. ASSUME NEW n \in Nat, n \in S PROVE n + 1 \in S
  BY <1>2, <1>4
<1> HIDE DEF S
<1>5. Nat \subseteq S
  BY <1>3, <1>4, Induct
<1> QED
  BY <1>1, <1>2, <1>5 DEF S

\* The power of a sum is the product.
LEMMA Pow2Sum ==
  ASSUME NEW m \in Nat, NEW n \in Nat
  PROVE  Pow2[m + n] = Pow2[m] * Pow2[n]
<1> DEFINE S == {k \in Nat : Pow2[m + k] = Pow2[m] * Pow2[k]}
<1>1. 0 \in S
  BY Pow2Values
<1>2. ASSUME NEW k \in Nat, k \in S PROVE k + 1 \in S
  <2>1. m + k \in Nat /\ m + (k + 1) = (m + k) + 1
    OBVIOUS
  <2>2. Pow2[(m + k) + 1] = 2 * Pow2[m + k] /\ Pow2[k + 1] = 2 * Pow2[k]
    BY <2>1, Pow2Values
  <2>3. Pow2[m] \in Nat /\ Pow2[k] \in Nat /\ Pow2[m + k] = Pow2[m] * Pow2[k]
    BY <1>2, Pow2Values
  <2>4. 2 * (Pow2[m] * Pow2[k]) = Pow2[m] * (2 * Pow2[k])
    BY <2>3, SMT
  <2> QED
    BY <2>1, <2>2, <2>3, <2>4
<1> HIDE DEF S
<1>3. n \in S
  BY <1>1, <1>2, Induct
<1> QED
  BY <1>3 DEF S

\* Powers grow.
LEMMA Pow2Grows ==
  ASSUME NEW m \in Nat, NEW n \in Nat
  PROVE  /\ m <= n => Pow2[m] <= Pow2[n]
         /\ m < n => 2 * Pow2[m] <= Pow2[n] /\ Pow2[m] < Pow2[n]
<1>1. ASSUME NEW i \in Nat, NEW j \in Nat, i <= j PROVE Pow2[i] <= Pow2[j]
  <2>1. j - i \in Nat /\ i + (j - i) = j
    BY <1>1
  <2> DEFINE k == j - i
  <2>2. Pow2[j] = Pow2[i] * Pow2[k]
    BY <2>1, Pow2Sum
  <2>3. Pow2[k] \in Nat \ {0} /\ Pow2[i] \in Nat \ {0}
    BY <2>1, Pow2Values
  <2> HIDE DEF k
  <2>4. Pow2[i] * 1 <= Pow2[i] * Pow2[k]
    BY <2>3, Times
  <2> QED
    BY <2>2, <2>3, <2>4
<1>2. m < n => Pow2[m + 1] <= Pow2[n]
  BY <1>1
<1>3. Pow2[m] \in Nat \ {0} /\ Pow2[m + 1] = 2 * Pow2[m] /\ Pow2[n] \in Nat \ {0}
  BY Pow2Values
<1> QED
  BY <1>1, <1>2, <1>3

\* They pass every number.
LEMMA Pow2Passes == ASSUME NEW n \in Nat PROVE n < Pow2[n]
<1> DEFINE S == {k \in Nat : k < Pow2[k]}
<1>1. 0 \in S
  BY Pow2Values
<1>2. ASSUME NEW k \in Nat, k \in S PROVE k + 1 \in S
  BY <1>2, Pow2Values
<1> HIDE DEF S
<1>3. n \in S
  BY <1>1, <1>2, Induct
<1> QED
  BY <1>3 DEF S

(***************************************************************************)
(* The width of an integer: the bits that hold it next to its sign.  Every *)
(* shift by a bit takes one of them, which is what the two loops count.    *)
(***************************************************************************)
Holds(w, t) == -Pow2[w] <= t /\ t < Pow2[w]

IsWidth(w, t) == w \in Nat /\ Holds(w, t) /\ (w > 0 => ~Holds(w - 1, t))

Width(t) == CHOOSE w : IsWidth(w, t)

\* More bits hold what fewer do.
LEMMA HoldsMore ==
  ASSUME NEW t \in Int, NEW v \in Nat, NEW w \in Nat, v <= w, Holds(v, t)
  PROVE  Holds(w, t)
<1>1. Pow2[v] \in Nat /\ Pow2[w] \in Nat /\ Pow2[v] <= Pow2[w]
  BY Pow2Values, Pow2Grows
<1> QED
  BY <1>1 DEF Holds

\* Every integer has a width.
LEMMA WidthExists == ASSUME NEW t \in Int PROVE IsWidth(Width(t), t)
<1> DEFINE S == {w \in Nat : Holds(w, t)}
<1>1. S # {}
  <2> DEFINE n == IF t < 0 THEN -t ELSE t
  <2>1. n \in Nat
    OBVIOUS
  <2>2. n < Pow2[n] /\ Pow2[n] \in Nat
    BY <2>1, Pow2Passes, Pow2Values
  <2>3. -n <= t /\ t <= n
    OBVIOUS
  <2> HIDE DEF n
  <2>4. n \in S
    BY <2>1, <2>2, <2>3 DEF Holds
  <2> QED
    BY <2>4
<1> DEFINE m == Min(S)
<1>2. m \in S /\ \A w \in S : m <= w
  BY <1>1, Least
<1> HIDE DEF m
<1>3. m > 0 => m - 1 \in Nat /\ ~(m <= m - 1)
  BY <1>2
<1>4. IsWidth(m, t)
  BY <1>2, <1>3 DEF IsWidth
<1> QED
  BY <1>4 DEF Width

\* It is the least number of bits that hold it.
LEMMA WidthAtMost ==
  ASSUME NEW t \in Int, NEW w \in Nat
  PROVE  Width(t) \in Nat /\ (Width(t) <= w <=> Holds(w, t))
<1> DEFINE v == Width(t)
<1>1. IsWidth(v, t)
  BY WidthExists
<1> HIDE DEF v
<1>2. v \in Nat /\ Holds(v, t) /\ (v > 0 => ~Holds(v - 1, t))
  BY <1>1 DEF IsWidth
<1>3. v <= w => Holds(w, t)
  BY <1>2, HoldsMore
<1>4. ~(v <= w) => v > 0 /\ v - 1 \in Nat /\ w <= v - 1
  BY <1>2
<1>5. ~(v <= w) => ~Holds(w, t)
  BY <1>2, <1>4, HoldsMore
<1> QED
  BY <1>2, <1>3, <1>5 DEF v

\* And the only such number.
LEMMA WidthIs ==
  ASSUME NEW t \in Int, NEW w, IsWidth(w, t)
  PROVE  Width(t) = w
<1>1. w \in Nat /\ Holds(w, t) /\ (w > 0 => ~Holds(w - 1, t))
  BY DEF IsWidth
<1>2. Width(t) \in Nat /\ Width(t) <= w
  BY <1>1, WidthAtMost
<1>3. w > 0 => ~(Width(t) <= w - 1)
  BY <1>1, WidthAtMost
<1> QED
  BY <1>1, <1>2, <1>3

\* Half a number takes a bit less.
LEMMA WidthOfHalf ==
  ASSUME NEW t \in Int
  PROVE  /\ t \div 2 \in Int
         /\ Width(t) = IF t \in {0, -1} THEN 0 ELSE 1 + Width(t \div 2)
<1> DEFINE h == t \div 2
<1>1. h \in Int /\ (t = 2 * h \/ t = 2 * h + 1)
  OBVIOUS
<1> HIDE DEF h
<1>2. CASE t \in {0, -1}
  <2>1. IsWidth(0, t)
    BY <1>2, Pow2Values DEF IsWidth, Holds
  <2> QED
    BY <1>1, <1>2, <2>1, WidthIs DEF h
<1>3. CASE t \notin {0, -1}
  <2> DEFINE w == Width(h)
  <2>1. w \in Nat /\ Holds(w, h) /\ (w > 0 => ~Holds(w - 1, h))
    BY <1>1, WidthExists DEF IsWidth
  <2> HIDE DEF w
  <2>2. Pow2[w] \in Nat /\ Pow2[w + 1] = 2 * Pow2[w]
    BY <2>1, Pow2Values
  <2>3. Holds(w + 1, t)
    BY <1>1, <2>1, <2>2 DEF Holds
  <2>4. ~Holds(w, t)
    <3>1. CASE w = 0
      BY <1>3, <3>1, Pow2Values DEF Holds
    <3>2. CASE w # 0
      <4> DEFINE v == w - 1
      <4>1. v \in Nat /\ v + 1 = w
        BY <2>1, <3>2
      <4> HIDE DEF v
      <4>2. Pow2[v] \in Nat /\ Pow2[w] = 2 * Pow2[v]
        BY <4>1, Pow2Values
      <4>3. ~Holds(v, h)
        BY <2>1, <3>2 DEF v
      <4> QED
        BY <1>1, <4>2, <4>3 DEF Holds
    <3> QED
      BY <3>1, <3>2
  <2>5. IsWidth(w + 1, t)
    BY <2>1, <2>3, <2>4 DEF IsWidth
  <2>6. Width(t) = w + 1
    BY <2>5, WidthIs
  <2> QED
    BY <1>1, <1>3, <2>1, <2>6 DEF h, w
<1> QED
  BY <1>2, <1>3

\* What get_int_bitwidth() returns.
LEMMA SignedShiftsAre == \A t \in Int : SignedShifts[t] = Width(t)
<1> DEFINE f == [t \in Int |-> Width(t)]
           g == SignedShifts
           S == {n \in Nat : \A t \in Int : Width(t) <= n => g[t] = Width(t)}
<1>1. f = [t \in Int |-> IF t \in {0, -1} THEN 0 ELSE 1 + f[t \div 2]]
  BY WidthOfHalf
<1> HIDE DEF f
<1>2. g = [t \in Int |-> IF t \in {0, -1} THEN 0 ELSE 1 + g[t \div 2]]
  BY <1>1 DEF SignedShifts
<1> HIDE DEF g
<1>3. \A t \in Int : /\ Width(t) \in Nat /\ t \div 2 \in Int
                     /\ g[t] = IF t \in {0, -1} THEN 0 ELSE 1 + g[t \div 2]
  BY <1>2, WidthAtMost, WidthOfHalf
<1>4. 0 \in S
  <2>1. \A t \in Int : Width(t) <= 0 => t \in {0, -1}
    BY <1>3, WidthOfHalf
  <2> QED
    BY <1>3, <2>1, WidthOfHalf
<1>5. ASSUME NEW n \in Nat, n \in S PROVE n + 1 \in S
  <2> SUFFICES ASSUME NEW t \in Int, Width(t) <= n + 1 PROVE g[t] = Width(t)
    OBVIOUS
  <2>1. CASE t \in {0, -1}
    BY <1>3, <2>1, WidthOfHalf
  <2>2. CASE t \notin {0, -1}
    <3>1. Width(t) = 1 + Width(t \div 2) /\ g[t] = 1 + g[t \div 2]
      BY <1>3, <2>2, WidthOfHalf
    <3>2. Width(t \div 2) \in Nat /\ t \div 2 \in Int
      BY <1>3
    <3>3. Width(t \div 2) <= n
      BY <3>1, <3>2
    <3>4. g[t \div 2] = Width(t \div 2)
      BY <1>5, <3>2, <3>3
    <3> QED
      BY <3>1, <3>4
  <2> QED
    BY <2>1, <2>2
<1>6. ASSUME NEW t \in Int PROVE g[t] = Width(t)
  <2> HIDE DEF S
  <2>1. Width(t) \in S
    BY <1>3, <1>4, <1>5, Induct
  <2> QED
    BY <1>3, <2>1 DEF S
<1> QED
  BY <1>6 DEF g

\* What get_uint_bitwidth() returns.
LEMMA UnsignedShiftsAre == \A t \in Nat : UnsignedShifts[t] = Width(t)
<1> DEFINE f == [t \in Nat |-> Width(t)]
           g == UnsignedShifts
           S == {n \in Nat : \A t \in Nat : Width(t) <= n => g[t] = Width(t)}
<1>1. \A t \in Nat : /\ t \div 2 \in Nat /\ Width(t) \in Nat
                     /\ Width(t) = IF t = 0 THEN 0 ELSE 1 + Width(t \div 2)
  BY WidthOfHalf, WidthAtMost
<1>2. f = [t \in Nat |-> IF t = 0 THEN 0 ELSE 1 + f[t \div 2]]
  BY <1>1
<1> HIDE DEF f
<1>3. g = [t \in Nat |-> IF t = 0 THEN 0 ELSE 1 + g[t \div 2]]
  BY <1>2 DEF UnsignedShifts
<1> HIDE DEF g
<1>4. \A t \in Nat : g[t] = IF t = 0 THEN 0 ELSE 1 + g[t \div 2]
  BY <1>3
<1>5. 0 \in S
  BY <1>1, <1>4
<1>6. ASSUME NEW n \in Nat, n \in S PROVE n + 1 \in S
  BY <1>1, <1>4, <1>6
<1>7. ASSUME NEW t \in Nat PROVE g[t] = Width(t)
  <2> HIDE DEF S
  <2>1. Width(t) \in S
    BY <1>1, <1>5, <1>6, Induct
  <2> QED
    BY <1>1, <2>1 DEF S
<1> QED
  BY <1>7 DEF g

\* The reference of BitPatterns, which looks for a width up to W.
LEMMA LeastWidthIs ==
  ASSUME NEW t \in Int, Holds(W, t)
  PROVE  LeastWidth(t) = Width(t)
<1> DEFINE S == {w \in 0 .. W : Holds(w, t)}
           v == Width(t)
<1>1. W \in Nat
  BY WordAssumption
<1>2. v \in Nat /\ v <= W /\ Holds(v, t)
  BY <1>1, WidthAtMost
<1>3. \A w \in S : v <= w
  BY WidthAtMost
<1> HIDE DEF v
<1>4. v \in S
  BY <1>2
<1>5. S \in SUBSET Nat /\ S # {}
  BY <1>4
<1>6. Min(S) \in S /\ \A w \in S : Min(S) <= w
  BY <1>5, Least
<1>7. Min(S) = v
  BY <1>2, <1>3, <1>4, <1>6
<1>8. LeastWidth(t) = Min(S)
  BY DEF LeastWidth, Holds
<1> QED
  BY <1>7, <1>8 DEF v

(***************************************************************************)
(* Words and fields.                                                       *)
(***************************************************************************)
\* A byte is part of a word.
LEMMA WordSize ==
  /\ BYTE \in Nat \ {0} /\ W \in Nat \ {0} /\ W - 1 \in Nat /\ BYTE <= W
  /\ Pow2[W - 1] \in Nat \ {0} /\ Pow2[W] = 2 * Pow2[W - 1]
<1>1. BYTE \in Nat \ {0} /\ W \in Nat \ {0} /\ W % BYTE = 0
  BY WordAssumption
<1>2. BYTE <= W
  <2>1. ~(BYTE <= W) => W \in 0 .. BYTE - 1
    BY <1>1
  <2>2. ~(BYTE <= W) => W % BYTE = W
    BY <1>1, <2>1, Small
  <2> QED
    BY <1>1, <2>2
<1>3. W - 1 \in Nat /\ (W - 1) + 1 = W
  BY <1>1
<1>4. Pow2[W - 1] \in Nat \ {0} /\ Pow2[(W - 1) + 1] = 2 * Pow2[W - 1]
  BY <1>3, Pow2Values
<1> QED
  BY <1>1, <1>2, <1>3, <1>4

\* Shifts and masks in two steps.
LEMMA TwoShifts ==
  ASSUME NEW m \in Nat, NEW n \in Nat, NEW v \in Int
  PROVE  /\ v \div Pow2[m + n] = (v \div Pow2[m]) \div Pow2[n]
         /\ (v % Pow2[m + n]) \div Pow2[m] = (v \div Pow2[m]) % Pow2[n]
         /\ (v % Pow2[m + n]) % Pow2[m] = v % Pow2[m]
         /\ v % Pow2[m + n] = Pow2[m] * ((v \div Pow2[m]) % Pow2[n]) + (v % Pow2[m])
<1> DEFINE a == Pow2[m]
           b == Pow2[n]
<1>1. a \in Nat \ {0} /\ b \in Nat \ {0} /\ Pow2[m + n] = a * b
  BY Pow2Values, Pow2Sum
<1> HIDE DEF a, b
<1>2. v \div (a * b) = (v \div a) \div b
  BY <1>1, TwoSteps, ZenonT(60)
<1>3. (v % (a * b)) \div a = (v \div a) % b
  BY <1>1, TwoSteps
<1>4. (v % (a * b)) % a = v % a
  BY <1>1, TwoSteps
<1>5. v % (a * b) = a * ((v \div a) % b) + (v % a)
  BY <1>1, TwoSteps
<1> QED
  BY <1>1, <1>2, <1>3, <1>4, <1>5 DEF a, b

\* The low bits of the low bits.
LEMMA LowBits ==
  ASSUME NEW m \in Nat, NEW n \in Nat, m <= n, NEW v \in Int
  PROVE  (v % Pow2[n]) % Pow2[m] = v % Pow2[m]
<1> DEFINE k == n - m
<1>1. k \in Nat /\ m + k = n
  OBVIOUS
<1> HIDE DEF k
<1>2. (v % Pow2[m + k]) % Pow2[m] = v % Pow2[m]
  BY <1>1, TwoShifts
<1> QED
  BY <1>1, <1>2

\* Types.
LEMMA ShiftType ==
  ASSUME NEW n \in Nat, NEW v \in Int
  PROVE  /\ v \div Pow2[n] \in Int /\ v % Pow2[n] \in 0 .. Pow2[n] - 1
         /\ v \in Nat => v \div Pow2[n] \in Nat
<1>1. Pow2[n] \in Nat \ {0}
  BY Pow2Values
<1>2. v \div Pow2[n] \in Int /\ v % Pow2[n] \in 0 .. Pow2[n] - 1
  BY <1>1, DivMod
<1>3. v \div Pow2[n] < 0 <=> v < Pow2[n] * 0
  BY <1>1, QuotientBelow
<1> QED
  BY <1>1, <1>2, <1>3

\* A value with the sign in the top one of its n bits.
Extended(u, n) == IF u < Pow2[n - 1] THEN u ELSE u - Pow2[n]

Field(v, start, length) == (v \div Pow2[start]) % Pow2[length]

\* get_ufield() and get_sfield() return the field.
LEMMA FieldsAre ==
  ASSUME NEW v \in Int, NEW start \in Nat, NEW length \in 1 .. W - (start % BYTE)
  PROVE  /\ get_ufield(v, start, length) = Field(v, start, length)
         /\ get_sfield(v, start, length) = Extended(Field(v, start, length), length)
<1> DEFINE k == start \div BYTE
           o == start % BYTE
           n == BYTE * k
           s == W - length - o
           u == v \div Pow2[n]
           x == u % Pow2[o + length]
           sect == Section(v, start, length)
           f == Field(v, start, length)
<1>1. k \in Nat /\ o \in 0 .. BYTE - 1 /\ start = BYTE * k + o
  <2>1. k \in Int /\ o \in 0 .. BYTE - 1 /\ start = BYTE * k + o
    BY WordSize, DivMod
  <2>2. k < 0 <=> start < BYTE * 0
    BY WordSize, QuotientBelow
  <2> HIDE DEF k, o
  <2> QED
    BY WordSize, <2>1, <2>2
<1>2. length \in Nat \ {0} /\ length <= W - o /\ W \in Nat
  BY <1>1, WordSize
<1>3. n \in Nat /\ start = n + o
  <2> HIDE DEF k, o
  <2> QED
    BY <1>1, WordSize, SMT
<1>4. sect = Wrap(Wrap(u) * Pow2[s])
  BY DEF Section, Word
<1> HIDE DEF k, o, sect
<1>5. s \in Nat /\ s + (o + length) = W /\ W - length = s + o /\ o + length \in Nat
  BY <1>1, <1>2
<1> HIDE DEF n, s
<1>6. u \in Int /\ x \in Int /\ Wrap(u) \in Int
  <2>1. u \in Int
    BY <1>3, ShiftType
  <2> HIDE DEF u
  <2>2. u % Pow2[o + length] \in 0 .. Pow2[o + length] - 1
    BY <2>1, <1>5, ShiftType
  <2>3. u % Pow2[W] \in 0 .. Pow2[W] - 1
    BY <2>1, <1>2, ShiftType
  <2>4. Pow2[o + length] \in Nat /\ Pow2[W] \in Nat
    BY <1>2, <1>5, Pow2Values
  <2> QED
    BY <2>1, <2>2, <2>3, <2>4 DEF Wrap
<1>7. sect = Pow2[s] * x
  <2> DEFINE a == Pow2[s]
             b == Pow2[o + length]
             y == Wrap(u)
  <2>1. a \in Nat \ {0} /\ b \in Nat \ {0} /\ Pow2[W] = a * b
    BY <1>5, Pow2Values, Pow2Sum
  <2>2. y % b = x
    <3>1. o + length <= W
      BY <1>5
    <3> QED
      BY <1>2, <1>5, <1>6, <3>1, LowBits DEF Wrap
  <2>3. y \in Int
    BY <1>6
  <2> HIDE DEF a, b, y, x, u
  <2>4. (a * y) % (a * b) = a * (y % b)
    BY <2>1, <2>3, Scaled
  <2>5. y * a = a * y
    BY <2>1, <2>3
  <2>6. sect = (a * y) % (a * b)
    BY <1>4, <2>1, <2>5 DEF Wrap, a, y
  <2> QED
    BY <2>2, <2>4, <2>6 DEF a
<1>8. sect \in Int
  BY <1>5, <1>6, <1>7, Pow2Values
<1>9. sect \div Pow2[s + o] = f
  <2>1. Pow2[s] \in Nat \ {0}
    BY <1>5, Pow2Values
  <2>2. (Pow2[s] * x + 0) \div Pow2[s] = x
    BY <1>6, <2>1, Quotient, SMTT(60)
  <2>3. sect \div Pow2[s] = x
    BY <1>6, <1>7, <2>1, <2>2
  <2>4. o \in Nat
    BY <1>1
  <2>5. sect \div Pow2[s + o] = x \div Pow2[o]
    BY <1>5, <1>8, <2>3, <2>4, TwoShifts
  <2>6. x \div Pow2[o] = (u \div Pow2[o]) % Pow2[length]
    <3> HIDE DEF u
    <3> QED
      BY <1>2, <1>6, <2>4, TwoShifts
  <2>7. v \div Pow2[start] = u \div Pow2[o]
    BY <1>3, <2>4, TwoShifts
  <2> QED
    BY <2>5, <2>6, <2>7 DEF Field
<1> HIDE DEF u, x, f
<1>10. Signed(sect) \div Pow2[s + o] = Extended(f, length)
  <2> DEFINE a == Pow2[s + o]
             b == Pow2[length - 1]
  <2>1. a \in Nat \ {0} /\ b \in Nat \ {0} /\ s + o \in Nat
    BY <1>1, <1>2, <1>5, Pow2Values
  <2>2. Pow2[length] = 2 * b /\ Pow2[length] \in Nat
    <3>1. length - 1 \in Nat /\ (length - 1) + 1 = length
      BY <1>2
    <3> QED
      BY <3>1, Pow2Values
  <2>3. Pow2[W - 1] = a * b
    <3>1. length - 1 \in Nat /\ (s + o) + (length - 1) = W - 1
      BY <1>1, <1>2, <1>5
    <3> QED
      BY <2>1, <3>1, Pow2Sum
  <2>4. Pow2[W] = a * Pow2[length]
    <3>1. (s + o) + length = W
      BY <1>1, <1>2, <1>5
    <3> QED
      BY <1>2, <2>1, <3>1, Pow2Sum
  <2> HIDE DEF a, b
  <2>5. f = sect \div a
    BY <1>9 DEF a
  <2>6. f < b <=> sect < Pow2[W - 1]
    BY <1>8, <2>1, <2>3, <2>5, QuotientBelow
  <2>7. (sect - Pow2[W]) \div a = f - Pow2[length]
    <3> DEFINE c == -Pow2[length]
    <3>1. c \in Int
      BY <2>2
    <3>2. a * c = -(a * Pow2[length])
      BY <2>1, <2>2
    <3> HIDE DEF c
    <3>3. (sect + a * c) \div a = sect \div a + c
      BY <1>8, <2>1, <3>1, Moved
    <3>4. sect + a * c = sect - Pow2[W]
      BY <1>8, <2>1, <2>2, <2>4, <3>2
    <3>5. f + c = f - Pow2[length]
      BY <2>5, <1>8, <2>1, <2>2, DivMod DEF c
    <3> QED
      BY <2>5, <3>3, <3>4, <3>5
  <2>8. CASE f < b
    BY <2>5, <2>6, <2>8 DEF Extended, Signed, a, b
  <2>9. CASE ~(f < b)
    BY <2>6, <2>7, <2>9 DEF Extended, Signed, a, b
  <2> QED
    BY <2>8, <2>9
<1> QED
  BY <1>5, <1>9, <1>10 DEF get_ufield, get_sfield, f, sect

\* A field does not depend on the bits behind it.
LEMMA FieldOfLowBits ==
  ASSUME NEW v \in Int, NEW start \in Nat, NEW length \in Nat, NEW n \in Nat,
         start + length <= n
  PROVE  /\ Field(v % Pow2[n], start, length) = Field(v, start, length)
         /\ Field(v, start, length) \in 0 .. Pow2[length] - 1
<1> DEFINE k == n - start
           q == v \div Pow2[start]
<1>1. k \in Nat /\ start + k = n /\ length <= k
  OBVIOUS
<1>2. q \in Int
  BY ShiftType
<1> HIDE DEF k
<1>3. (v % Pow2[start + k]) \div Pow2[start] = q % Pow2[k]
  BY <1>1, TwoShifts
<1> HIDE DEF q
<1>4. (q % Pow2[k]) % Pow2[length] = q % Pow2[length]
  BY <1>1, <1>2, LowBits
<1>5. q % Pow2[length] \in 0 .. Pow2[length] - 1
  BY <1>2, ShiftType
<1> QED
  BY <1>1, <1>3, <1>4, <1>5 DEF Field, q

\* What n bits hold as a signed number.
LEMMA ExtendedIs ==
  ASSUME NEW n \in Nat \ {0}, NEW u \in 0 .. Pow2[n] - 1
  PROVE  /\ Extended(u, n) \in Int /\ Holds(n - 1, Extended(u, n)) /\ Holds(n, u)
         /\ Extended(u, n) % Pow2[n] = u
         /\ Extended(u, n) >= 0 <=> u < Pow2[n - 1]
<1> DEFINE a == Pow2[n]
           h == Pow2[n - 1]
<1>1. a \in Nat \ {0} /\ a = 2 * h /\ h \in Nat \ {0} /\ u \in 0 .. a - 1 /\ u \in Int
  <2>1. n - 1 \in Nat /\ (n - 1) + 1 = n
    OBVIOUS
  <2> QED
    BY <2>1, Pow2Values
<1>2. u % a = u
  BY <1>1, Small
<1> HIDE DEF a, h
<1>3. (u - a) % a = u % a
  BY <1>1, MovedOnce
<1>4. Extended(u, n) = IF u < h THEN u ELSE u - a
  BY DEF Extended, a, h
<1>5. Extended(u, n) % a = u
  BY <1>2, <1>3, <1>4
<1>6. Holds(n, u) /\ Holds(n - 1, Extended(u, n))
  BY <1>1, <1>4 DEF Holds, a, h
<1> QED
  BY <1>1, <1>4, <1>5, <1>6 DEF a, h

\* Cutting a number to n bits loses nothing when it fits.
LEMMA ExtendedOfRest ==
  ASSUME NEW n \in Nat \ {0}, NEW t \in Int, Holds(n - 1, t)
  PROVE  Extended(t % Pow2[n], n) = t
<1> DEFINE a == Pow2[n]
           h == Pow2[n - 1]
<1>1. a \in Nat \ {0} /\ a = 2 * h /\ h \in Nat \ {0}
  <2>1. n - 1 \in Nat /\ (n - 1) + 1 = n
    OBVIOUS
  <2> QED
    BY <2>1, Pow2Values
<1>2. -h <= t /\ t < h
  BY DEF Holds
<1> HIDE DEF a, h
<1>3. ASSUME NEW u PROVE Extended(u, n) = IF u < h THEN u ELSE u - a
  BY DEF Extended, a, h
<1>4. CASE t >= 0
  <2>1. t \in 0 .. a - 1
    BY <1>1, <1>2, <1>4
  <2>2. t % a = t
    BY <1>1, <2>1, Small
  <2> QED
    BY <1>2, <1>3, <2>2 DEF a
<1>5. CASE t < 0
  <2> DEFINE s == t + a
  <2>1. s \in 0 .. a - 1 /\ ~(s < h) /\ s - a = t /\ t + a = s
    BY <1>1, <1>2, <1>5
  <2> HIDE DEF s
  <2>2. s % a = s
    BY <1>1, <2>1, Small
  <2>3. (t + a) % a = t % a
    BY <1>1, MovedOnce
  <2>4. t % a = s
    BY <2>1, <2>2, <2>3
  <2> QED
    BY <1>3, <2>1, <2>4 DEF a
<1> QED
  BY <1>4, <1>5

\* The same of a word.
LEMMA SignedIs ==
  ASSUME NEW u \in 0 .. Pow2[W] - 1
  PROVE  /\ Signed(u) = Extended(u, W)
         /\ Signed(u) \in Int /\ Holds(W - 1, Signed(u)) /\ Holds(W, u)
         /\ Wrap(Signed(u)) = u
         /\ Signed(u) >= 0 <=> u < Pow2[W - 1]
<1>1. Signed(u) = Extended(u, W)
  BY DEF Signed, Extended
<1> QED
  BY <1>1, WordSize, ExtendedIs DEF Wrap

LEMMA SignedOfWrap ==
  ASSUME NEW t \in Int
  PROVE  /\ Wrap(t) \in 0 .. Pow2[W] - 1
         /\ Holds(W - 1, t) => Signed(Wrap(t)) = t
<1>1. W \in Nat \ {0} /\ Wrap(t) \in 0 .. Pow2[W] - 1
  BY WordSize, ShiftType DEF Wrap
<1>2. Signed(Wrap(t)) = Extended(t % Pow2[W], W)
  BY DEF Signed, Extended, Wrap
<1> QED
  BY <1>1, <1>2, ExtendedOfRest

(***************************************************************************)
(* The last one of a number, and the loop that shifts it out.              *)
(***************************************************************************)
IsLast(b, t) == b \in Nat /\ t % Pow2[b] = 0 /\ (t \div Pow2[b]) % 2 = 1

\* Bit by bit.
LEMMA NextBit ==
  ASSUME NEW b \in Nat, NEW t \in Int
  PROVE  /\ t % Pow2[b + 1] = Pow2[b] * ((t \div Pow2[b]) % 2) + (t % Pow2[b])
         /\ (t \div Pow2[b]) % 2 \in {0, 1}
         /\ t \div Pow2[b] \in Int /\ Pow2[b] \in Nat \ {0}
<1>1. Pow2[1] = 2
  <2>1. Pow2[0 + 1] = 2 * Pow2[0] /\ Pow2[0] = 1
    BY Pow2Values
  <2> QED
    BY <2>1
<1>2. t % Pow2[b + 1] = Pow2[b] * ((t \div Pow2[b]) % Pow2[1]) + (t % Pow2[b])
  BY TwoShifts
<1>3. t \div Pow2[b] \in Int /\ Pow2[b] \in Nat \ {0}
  BY ShiftType, Pow2Values
<1> QED
  BY <1>1, <1>2, <1>3

\* There is one in every number but zero.
LEMMA LastExists ==
  ASSUME NEW t \in Int, t # 0
  PROVE  \E b \in Nat : IsLast(b, t)
<1> DEFINE S == {b \in Nat : t % Pow2[b + 1] # 0}
<1>1. S # {}
  <2> DEFINE n == IF t < 0 THEN -t ELSE t
             a == Pow2[n + 1]
  <2>1. n \in Nat /\ n + 1 \in Nat /\ t < n + 1 /\ -(n + 1) < t
    OBVIOUS
  <2> HIDE DEF n
  <2>2. n + 1 < a /\ a \in Nat \ {0}
    BY <2>1, Pow2Passes, Pow2Values
  <2> HIDE DEF a
  <2>3. CASE t > 0
    <3>1. t \in 0 .. a - 1
      BY <2>1, <2>2, <2>3
    <3>2. t % a = t
      BY <2>2, <3>1, Small
    <3> QED
      BY <2>1, <3>2 DEF a
  <2>4. CASE t < 0
    <3> DEFINE s == t + a
    <3>1. s \in 0 .. a - 1 /\ s # 0
      BY <2>1, <2>2, <2>4
    <3>2. s % a = t % a
      BY <2>2, MovedOnce
    <3> HIDE DEF s
    <3>3. s % a = s
      BY <2>2, <3>1, Small
    <3>4. t % Pow2[n + 1] # 0
      BY <3>1, <3>2, <3>3 DEF a
    <3> QED
      BY <2>1, <3>4
  <2> QED
    BY <2>3, <2>4
<1> DEFINE m == Min(S)
<1>2. m \in S /\ \A w \in S : m <= w
  BY <1>1, Least
<1> HIDE DEF m
<1>3. t % Pow2[m] = 0
  <2>1. CASE m = 0
    BY <2>1, Pow2Values
  <2>2. CASE m # 0
    <3>1. m - 1 \in Nat /\ (m - 1) + 1 = m /\ ~(m <= m - 1)
      BY <1>2, <2>2
    <3>2. m - 1 \notin S
      BY <1>2, <3>1
    <3> QED
      BY <3>1, <3>2
  <2> QED
    BY <2>1, <2>2
<1>4. m \in Nat /\ t % Pow2[m + 1] # 0
  BY <1>2
<1>5. (t \div Pow2[m]) % 2 = 1
  <2> DEFINE q == (t \div Pow2[m]) % 2
  <2>1. t % Pow2[m + 1] = Pow2[m] * q + (t % Pow2[m]) /\ q \in {0, 1}
    BY <1>4, NextBit
  <2>2. Pow2[m] \in Nat
    BY <1>4, Pow2Values
  <2> HIDE DEF q
  <2>3. q # 0
    BY <1>3, <1>4, <2>1, <2>2
  <2> QED
    BY <2>1, <2>3 DEF q
<1> QED
  BY <1>3, <1>4, <1>5 DEF IsLast

\* And no other.
LEMMA LastUnique ==
  ASSUME NEW t \in Int, NEW b, NEW c, IsLast(b, t), IsLast(c, t)
  PROVE  b = c
<1>1. ASSUME NEW x \in Nat, NEW y \in Nat, IsLast(x, t), IsLast(y, t) PROVE ~(x < y)
  <2> SUFFICES ASSUME x < y PROVE FALSE
    OBVIOUS
  <2>1. x + 1 \in Nat /\ x + 1 <= y
    OBVIOUS
  <2>2. (t % Pow2[y]) % Pow2[x + 1] = t % Pow2[x + 1]
    BY <2>1, LowBits
  <2>3. t % Pow2[x + 1] = 0
    <3>1. Pow2[x + 1] \in Nat \ {0}
      BY <2>1, Pow2Values
    <3>2. 0 % Pow2[x + 1] = 0
      BY <3>1, Small
    <3> QED
      BY <1>1, <2>2, <3>2 DEF IsLast
  <2>4. t % Pow2[x + 1] = Pow2[x] * 1 + 0 /\ Pow2[x] \in Nat \ {0}
    BY <1>1, NextBit DEF IsLast
  <2> QED
    BY <2>3, <2>4
<1>2. b \in Nat /\ c \in Nat
  BY DEF IsLast
<1> QED
  BY <1>1, <1>2

\* A shift to the left moves it.
LEMMA LastOfShifted ==
  ASSUME NEW t \in Int, NEW b \in Nat, NEW n \in Nat, IsLast(b, t)
  PROVE  IsLast(n + b, Pow2[n] * t)
<1>1. Pow2[n] \in Nat \ {0} /\ Pow2[b] \in Nat \ {0} /\ Pow2[n + b] = Pow2[n] * Pow2[b]
  BY Pow2Values, Pow2Sum
<1>2. (Pow2[n] * t) \div (Pow2[n] * Pow2[b]) = t \div Pow2[b]
  BY <1>1, Scaled
<1>3. (Pow2[n] * t) % (Pow2[n] * Pow2[b]) = Pow2[n] * (t % Pow2[b])
  BY <1>1, Scaled
<1>4. Pow2[n] * 0 = 0
  BY <1>1
<1> QED
  BY <1>1, <1>2, <1>3, <1>4 DEF IsLast

\* The bits above it do not matter.
LEMMA LastOfLowBits ==
  ASSUME NEW t \in Int, NEW b \in Nat, NEW n \in Nat, b < n
  PROVE  IsLast(b, t % Pow2[n]) <=> IsLast(b, t)
<1> DEFINE k == n - b
<1>1. k \in Nat \ {0} /\ k \in Nat /\ b + k = n /\ b <= n /\ 1 <= k
  OBVIOUS
<1> HIDE DEF k
<1>2. (t % Pow2[n]) % Pow2[b] = t % Pow2[b]
  BY <1>1, LowBits
<1>3. (t % Pow2[b + k]) \div Pow2[b] = (t \div Pow2[b]) % Pow2[k]
  BY <1>1, TwoShifts
<1>4. t \div Pow2[b] \in Int
  BY ShiftType
<1> DEFINE q == t \div Pow2[b]
<1>5. (q % Pow2[k]) % Pow2[1] = q % Pow2[1]
  <2> HIDE DEF q
  <2> QED
    BY <1>1, <1>4, LowBits DEF q
<1>6. Pow2[1] = 2
  <2>1. Pow2[0 + 1] = 2 * Pow2[0] /\ Pow2[0] = 1
    BY Pow2Values
  <2> QED
    BY <2>1
<1> QED
  BY <1>1, <1>2, <1>3, <1>5, <1>6 DEF IsLast

\* Neither does the sign.
LEMMA LastOfNegative ==
  ASSUME NEW t \in Int, NEW b \in Nat, IsLast(b, t)
  PROVE  IsLast(b, -t)
<1> DEFINE q == t \div Pow2[b]
           a == Pow2[b]
<1>1. a \in Nat \ {0} /\ q \in Int /\ t = a * q + 0 /\ q % 2 = 1
  BY Pow2Values, ShiftType, DivMod DEF IsLast
<1> HIDE DEF a, q
<1>2. -q \in Int /\ (-q) % 2 = 1 /\ 0 \in 0 .. a - 1
  BY <1>1
<1>3. a * (-q) + 0 = -t
  BY <1>1
<1>4. (a * (-q) + 0) \div a = -q /\ (a * (-q) + 0) % a = 0
  BY <1>1, <1>2, Quotient
<1> QED
  BY <1>2, <1>3, <1>4 DEF IsLast, a

\* The last one of a number below 2^n.
LEMMA LastBelow ==
  ASSUME NEW n \in Nat, NEW t \in 1 .. Pow2[n] - 1, NEW b \in Nat, IsLast(b, t)
  PROVE  b < n
<1> SUFFICES ASSUME n <= b PROVE FALSE
  OBVIOUS
<1>1. Pow2[n] <= Pow2[b] /\ Pow2[n] \in Nat \ {0} /\ Pow2[b] \in Nat \ {0}
  BY Pow2Grows, Pow2Values
<1>2. t \in 0 .. Pow2[b] - 1
  BY <1>1
<1>3. t % Pow2[b] = t
  BY <1>1, <1>2, Small
<1> QED
  BY <1>3 DEF IsLast

\* A shift by a bit moves the last one, out of the word in the end.
LEMMA LeftShift ==
  ASSUME NEW t \in 1 .. Pow2[W] - 1, NEW b \in Nat, IsLast(b, t)
  PROVE  /\ b < W
         /\ Wrap(2 * t) \in 0 .. Pow2[W] - 1
         /\ b = W - 1 => Wrap(2 * t) = 0
         /\ b # W - 1 => Wrap(2 * t) # 0 /\ IsLast(b + 1, Wrap(2 * t))
<1>1. W \in Nat /\ b < W
  BY WordSize, LastBelow
<1>2. 2 * t \in Int /\ Wrap(2 * t) \in 0 .. Pow2[W] - 1
  BY SignedOfWrap
<1>3. ASSUME b = W - 1 PROVE Wrap(2 * t) = 0
  <2> DEFINE a == Pow2[W - 1]
             q == t \div a
  <2>1. a \in Nat \ {0} /\ Pow2[W] = 2 * a /\ t \in Int
    BY WordSize
  <2>2. q \in Int /\ t = a * q + (t % a) /\ t % a = 0 /\ q % 2 = 1
    BY <1>3, <2>1, DivMod DEF IsLast
  <2>3. t < a * 2
    BY <2>1
  <2> HIDE DEF a
  <2>4. q < 2
    BY <2>1, <2>3, QuotientBelow
  <2>5. ~(q < 0)
    <3>1. q < 0 <=> t < a * 0
      BY <2>1, QuotientBelow
    <3> QED
      BY <2>1, <3>1
  <2> HIDE DEF q
  <2>6. q = 1
    BY <2>2, <2>4, <2>5
  <2>7. 2 * t = Pow2[W]
    BY <2>1, <2>2, <2>6
  <2> DEFINE c == Pow2[W]
  <2>8. c \in Nat \ {0} /\ 2 * t = c
    BY <2>1, <2>7
  <2> HIDE DEF c
  <2>9. (c * 1 + 0) % c = 0
    BY <2>8, Quotient
  <2> QED
    BY <2>8, <2>9 DEF Wrap, c
<1>4. ASSUME b # W - 1 PROVE IsLast(b + 1, Wrap(2 * t))
  <2>1. Pow2[1] = 2
    <3>1. Pow2[0 + 1] = 2 * Pow2[0] /\ Pow2[0] = 1
      BY Pow2Values
    <3> QED
      BY <3>1
  <2>2. IsLast(1 + b, Pow2[1] * t)
    BY LastOfShifted
  <2>3. IsLast(b + 1, 2 * t) /\ b + 1 \in Nat /\ b + 1 < W
    BY <1>1, <1>4, <2>1, <2>2
  <2> DEFINE s == 2 * t
  <2>4. s \in Int /\ IsLast(b + 1, s)
    BY <2>3
  <2> HIDE DEF s
  <2>5. IsLast(b + 1, s % Pow2[W])
    BY <1>1, <2>3, <2>4, LastOfLowBits
  <2> QED
    BY <2>5 DEF Wrap, s
<1>5. ~IsLast(b + 1, 0)
  <2>1. Pow2[b + 1] \in Nat \ {0}
    BY Pow2Values
  <2>2. 0 \div Pow2[b + 1] = 0
    BY <2>1, Small
  <2> QED
    BY <2>2 DEF IsLast
<1> QED
  BY <1>1, <1>2, <1>3, <1>4, <1>5

\* What the loop of get_msbf_bitwidth() counts.
LEMMA LeftShiftsAre ==
  /\ LeftShifts[0] = 0
  /\ \A t \in 1 .. Pow2[W] - 1, b \in Nat : IsLast(b, t) => LeftShifts[t] = W - b
<1> DEFINE U == 0 .. Pow2[W] - 1
           L(t) == CHOOSE b : IsLast(b, t)
           f == [t \in U |-> IF t = 0 THEN 0 ELSE W - L(t)]
           g == LeftShifts
           S == {n \in Nat : \A t \in U \ {0} : W - L(t) <= n => g[t] = W - L(t)}
<1>1. W \in Nat /\ Pow2[W] \in Nat \ {0}
  BY WordSize
<1>2. \A t \in U : t # 0 => t \in 1 .. Pow2[W] - 1
  BY <1>1
<1>3. ASSUME NEW t \in U, t # 0
      PROVE  /\ L(t) \in Nat /\ IsLast(L(t), t) /\ L(t) < W
             /\ Wrap(2 * t) \in U
             /\ L(t) = W - 1 => Wrap(2 * t) = 0
             /\ L(t) # W - 1 => Wrap(2 * t) # 0 /\ L(Wrap(2 * t)) = L(t) + 1
  <2>1. PICK b \in Nat : IsLast(b, t)
    BY <1>3, LastExists
  <2>2. IsLast(L(t), t) /\ L(t) \in Nat
    <3>1. \E c : IsLast(c, t)
      BY <2>1
    <3>2. IsLast(L(t), t)
      BY <3>1
    <3> QED
      BY <3>2 DEF IsLast
  <2> DEFINE c == L(t)
             u == Wrap(2 * t)
  <2>3. c \in Nat /\ IsLast(c, t) /\ t \in 1 .. Pow2[W] - 1
    BY <1>2, <1>3, <2>2
  <2> HIDE DEF c, L
  <2>4. /\ c < W /\ u \in U
        /\ c = W - 1 => u = 0
        /\ c # W - 1 => u # 0 /\ IsLast(c + 1, u)
    BY <2>3, LeftShift
  <2>5. ASSUME c # W - 1 PROVE L(u) = c + 1
    <3> HIDE DEF u
    <3>1. IsLast(c + 1, u) /\ u \in Int
      BY <2>4, <2>5
    <3>2. IsLast(L(u), u)
      BY <3>1 DEF L
    <3> QED
      BY <3>1, <3>2, LastUnique
  <2> QED
    BY <2>3, <2>4, <2>5 DEF c
<1>4. 0 \in U
  BY <1>1
<1> HIDE DEF L, U
<1>5. f = [t \in U |-> IF t = 0 THEN 0 ELSE 1 + f[Wrap(2 * t)]]
  <2>1. ASSUME NEW t \in U, t # 0 PROVE f[t] = 1 + f[Wrap(2 * t)]
    <3> DEFINE u == Wrap(2 * t)
    <3>1. /\ L(t) \in Nat /\ L(t) < W /\ u \in U
          /\ L(t) = W - 1 => u = 0
          /\ L(t) # W - 1 => u # 0 /\ L(u) = L(t) + 1
      BY <1>3, <2>1
    <3> HIDE DEF u
    <3>2. f[t] = W - L(t) /\ f[u] = IF u = 0 THEN 0 ELSE W - L(u)
      BY <2>1, <3>1
    <3>3. f[t] = 1 + f[u]
      BY <1>1, <3>1, <3>2
    <3> QED
      BY <3>3 DEF u
  <2> QED
    BY <2>1
<1> HIDE DEF f
<1>6. g = [t \in U |-> IF t = 0 THEN 0 ELSE 1 + g[Wrap(2 * t)]]
  BY <1>5 DEF LeftShifts, Words, U
<1> HIDE DEF g
<1>7. g[0] = 0
  BY <1>4, <1>6
<1>8. \A t \in U : t # 0 => g[t] = 1 + g[Wrap(2 * t)]
  BY <1>6
<1>9. 0 \in S
  BY <1>1, <1>3
<1>10. ASSUME NEW n \in Nat, n \in S PROVE n + 1 \in S
  <2> SUFFICES ASSUME NEW t \in U \ {0}, W - L(t) <= n + 1 PROVE g[t] = W - L(t)
    OBVIOUS
  <2> DEFINE u == Wrap(2 * t)
  <2>1. /\ L(t) \in Nat /\ L(t) < W /\ u \in U
        /\ L(t) = W - 1 => u = 0
        /\ L(t) # W - 1 => u # 0 /\ L(u) = L(t) + 1
    BY <1>3
  <2>2. g[t] = 1 + g[u]
    BY <1>8
  <2> HIDE DEF u
  <2>3. CASE L(t) = W - 1
    BY <1>1, <1>7, <2>1, <2>2, <2>3
  <2>4. CASE L(t) # W - 1
    <3>1. W - L(u) <= n /\ u \in U \ {0}
      BY <1>1, <2>1, <2>4
    <3>2. g[u] = W - L(u)
      BY <1>10, <3>1
    <3> QED
      BY <1>1, <2>1, <2>2, <2>4, <3>2
  <2> QED
    BY <2>3, <2>4
<1>11. ASSUME NEW t \in U, t # 0 PROVE g[t] = W - L(t)
  <2> HIDE DEF S
  <2>1. L(t) \in Nat /\ L(t) < W
    BY <1>3, <1>11
  <2>2. W - L(t) \in Nat
    BY <1>1, <2>1
  <2>3. W - L(t) \in S
    BY <1>9, <1>10, <2>2, Induct
  <2> QED
    BY <1>11, <2>2, <2>3 DEF S
<1>12. ASSUME NEW t \in 1 .. Pow2[W] - 1, NEW b \in Nat, IsLast(b, t) PROVE g[t] = W - b
  <2>1. t \in U /\ t # 0 /\ t \in Int
    BY <1>1 DEF U
  <2>2. IsLast(L(t), t)
    BY <1>3, <2>1
  <2>3. L(t) = b
    BY <1>12, <2>1, <2>2, LastUnique
  <2> QED
    BY <1>11, <2>1, <2>3
<1> QED
  BY <1>7, <1>12 DEF g

(***************************************************************************)
(* Floating point.                                                         *)
(***************************************************************************)
\* Every field of a format can be read.
LEMMA FormatSize ==
  ASSUME NEW type \in DOMAIN Format
  PROVE  LET sig == Format[type].sig
             exp == Format[type].exp
         IN  /\ sig \in Nat \ {0} /\ exp \in Nat \ {0} /\ sig <= W /\ exp < W
             /\ sig \in 1 .. W - (0 % BYTE)
             /\ exp \in 1 .. W - (sig % BYTE)
             /\ 1 \in 1 .. W - ((sig + exp) % BYTE)
<1> DEFINE sig == Format[type].sig
           exp == Format[type].exp
<1>1. sig \in 1 .. W /\ exp \in 1 .. W - BYTE
  BY FormatAssumption
<1> HIDE DEF sig, exp
<1>2. BYTE \in Nat \ {0} /\ W \in Nat \ {0} /\ BYTE <= W
  BY WordSize
<1>3. sig \in Int /\ sig + exp \in Int
  BY <1>1, <1>2
<1>4. sig % BYTE \in 0 .. BYTE - 1 /\ (sig + exp) % BYTE \in 0 .. BYTE - 1
  BY <1>2, <1>3, DivMod
<1>5. 0 % BYTE = 0
  BY <1>2, Small
<1>6. /\ sig \in Nat \ {0} /\ exp \in Nat \ {0} /\ sig <= W /\ exp < W
      /\ sig \in 1 .. W - (0 % BYTE)
      /\ exp \in 1 .. W - (sig % BYTE)
      /\ 1 \in 1 .. W - ((sig + exp) % BYTE)
  BY <1>1, <1>2, <1>4, <1>5
<1> QED
  BY <1>6 DEF sig, exp

\* The significand of an element as a signed number.
Significand(v, type) ==
  Extended(v % Pow2[Format[type].sig], Format[type].sig)

Exponent(v, type) == Field(v, Format[type].sig, Format[type].exp)

SignBit(v, type) == Field(v, Format[type].sig + Format[type].exp, 1)

\* The fields that are read of an element.
LEMMA FloatFields ==
  ASSUME NEW v \in Int, NEW type \in DOMAIN Format
  PROVE  /\ Sign(v, type) = SignBit(v, type)
         /\ get_sfield(v, 0, Format[type].sig) = Significand(v, type)
         /\ get_sfield(v, Format[type].sig, Format[type].exp)
              = Extended(Exponent(v, type), Format[type].exp)
<1> DEFINE sig == Format[type].sig
           exp == Format[type].exp
<1>1. /\ sig \in Nat /\ sig + exp \in Nat /\ sig \in 1 .. W - (0 % BYTE)
      /\ exp \in 1 .. W - (sig % BYTE)
      /\ 1 \in 1 .. W - ((sig + exp) % BYTE)
  BY FormatSize
<1> HIDE DEF sig, exp
<1>2. get_ufield(v, sig + exp, 1) = Field(v, sig + exp, 1)
  BY <1>1, FieldsAre
<1>3. get_sfield(v, sig, exp) = Extended(Field(v, sig, exp), exp)
  BY <1>1, FieldsAre
<1>4. get_sfield(v, 0, sig) = Extended(Field(v, 0, sig), sig)
  BY <1>1, FieldsAre
<1>5. Field(v, 0, sig) = v % Pow2[sig]
  BY Pow2Values, Quotient DEF Field
<1> QED
  BY <1>2, <1>3, <1>4, <1>5 DEF Sign, SignBit, Significand, Exponent, sig, exp

\* It fits its bits, and has those of the element.
LEMMA SignificandType ==
  ASSUME NEW v \in Int, NEW type \in DOMAIN Format
  PROVE  /\ Significand(v, type) \in Int
         /\ Holds(Format[type].sig - 1, Significand(v, type))
         /\ Holds(W - 1, Significand(v, type))
         /\ Significand(v, type) % Pow2[Format[type].sig] = v % Pow2[Format[type].sig]
<1> DEFINE n == Format[type].sig
           u == v % Pow2[n]
           f == Significand(v, type)
<1>1. n \in Nat \ {0} /\ n <= W /\ W \in Nat \ {0}
  BY FormatSize, WordSize
<1>2. f = Extended(u, n)
  BY DEF Significand
<1> HIDE DEF n, f
<1>3. u \in 0 .. Pow2[n] - 1
  BY <1>1, ShiftType
<1> HIDE DEF u
<1>4. f \in Int /\ Holds(n - 1, f) /\ f % Pow2[n] = u
  BY <1>1, <1>2, <1>3, ExtendedIs
<1>5. Holds(W - 1, f)
  <2>1. n - 1 \in Nat /\ W - 1 \in Nat /\ n - 1 <= W - 1
    BY <1>1
  <2> QED
    BY <1>4, <2>1, HoldsMore
<1> QED
  BY <1>4, <1>5 DEF n, u, f

\* A sign negates it, unless it is the least number of a word.
LEMMA SigFieldIs ==
  ASSUME NEW v \in Int, NEW type \in DOMAIN Format
  PROVE  LET f == Significand(v, type)
             g == Signed(Wrap(-f))
         IN  /\ SigField(v, type) = IF SignBit(v, type) = 1 THEN g ELSE f
             /\ g \in Int /\ Wrap(g) = Wrap(-f)
             /\ g = -f \/ (g = f /\ Format[type].sig = W)
<1> DEFINE f == Significand(v, type)
           g == Signed(Wrap(-f))
           n == Format[type].sig
<1>1. f \in Int /\ Holds(n - 1, f) /\ Holds(W - 1, f)
  BY SignificandType
<1>2. SigField(v, type) = IF SignBit(v, type) = 1 THEN g ELSE f
  BY FloatFields DEF SigField
<1>3. n \in Nat \ {0} /\ n <= W
  BY FormatSize
<1> HIDE DEF f, n
<1>4. -f \in Int /\ Wrap(-f) \in 0 .. Pow2[W] - 1
  BY <1>1, SignedOfWrap
<1> DEFINE u == Wrap(-f)
<1> HIDE DEF u
<1>5. Signed(u) \in Int /\ Wrap(Signed(u)) = u
  BY <1>4, SignedIs DEF u
<1>6. Holds(W - 1, -f) => g = -f
  BY <1>4, SignedOfWrap
<1>7. ASSUME ~Holds(W - 1, -f) PROVE g = f /\ n = W
  <2> DEFINE h == Pow2[W - 1]
  <2>1. h \in Nat \ {0} /\ Pow2[W] = 2 * h /\ W \in Nat \ {0}
    BY WordSize
  <2>2. f = -h
    BY <1>1, <1>7, <2>1 DEF Holds
  <2>3. n = W
    <3>1. n # W => n - 1 \in Nat /\ n - 1 < W - 1 /\ W - 1 \in Nat
      BY <1>3, <2>1
    <3>2. n # W => Pow2[n - 1] < h
      BY <3>1, Pow2Grows
    <3>3. n - 1 \in Nat
      BY <1>3
    <3>4. Pow2[n - 1] \in Nat
      BY <3>3, Pow2Values
    <3> QED
      BY <1>1, <2>1, <2>2, <3>2, <3>4 DEF Holds
  <2>4. Wrap(h) = h
    <3> DEFINE c == Pow2[W]
    <3>1. c \in Nat \ {0} /\ h \in 0 .. c - 1
      BY <2>1
    <3> HIDE DEF c, h
    <3>2. h % c = h
      BY <3>1, Small
    <3> QED
      BY <3>2 DEF Wrap, c
  <2>5. -f = h
    BY <2>1, <2>2
  <2>6. g = h - Pow2[W]
    BY <2>1, <2>4, <2>5 DEF Signed
  <2> QED
    BY <2>1, <2>2, <2>3, <2>6
<1> QED
  BY <1>2, <1>5, <1>6, <1>7 DEF f, n, u

\* A change of sign costs a bit at most.
LEMMA WidthOfNegative ==
  ASSUME NEW t \in Int
  PROVE  Width(-t) <= Width(t) + 1
<1> DEFINE w == Width(t)
<1>1. w \in Nat /\ Holds(w, t)
  BY WidthExists DEF IsWidth
<1> HIDE DEF w
<1>2. Pow2[w] \in Nat \ {0} /\ Pow2[w + 1] = 2 * Pow2[w]
  BY <1>1, Pow2Values
<1>3. Holds(w + 1, -t)
  BY <1>1, <1>2 DEF Holds
<1>4. -t \in Int /\ w + 1 \in Nat
  BY <1>1
<1>5. Width(-t) <= w + 1
  BY <1>3, <1>4, WidthAtMost
<1> QED
  BY <1>5 DEF w

\* The width of a significand from its least significant bit on.
LEMMA LowWidth ==
  ASSUME NEW v \in Int, NEW type \in DOMAIN Format
  PROVE  LET f == Significand(v, type)
             g == Signed(Wrap(-f))
         IN  /\ get_sig_lbitwidth(v, type)
                  = IF SignBit(v, type) = 1 THEN Width(g) ELSE Width(f)
             /\ Width(f) \in 0 .. Format[type].sig /\ Width(g) \in 0 .. Format[type].sig
             /\ Width(g) - Width(f) \in {-1, 0, 1}
<1> DEFINE f == Significand(v, type)
           g == Signed(Wrap(-f))
           n == Format[type].sig
<1>1. n \in Nat \ {0} /\ n - 1 \in Nat
  BY FormatSize
<1>2. f \in Int /\ Holds(n - 1, f)
  BY SignificandType
<1>3. /\ SigField(v, type) = IF SignBit(v, type) = 1 THEN g ELSE f
      /\ g \in Int
      /\ g = -f \/ g = f
  BY SigFieldIs
<1>4. get_sig_lbitwidth(v, type) = SignedShifts[SigField(v, type)]
  BY DEF get_sig_lbitwidth, get_int_bitwidth
<1> HIDE DEF f, g, n
<1>5. Width(f) \in Nat /\ Width(g) \in Nat /\ Width(f) <= n - 1
  BY <1>1, <1>2, <1>3, WidthAtMost
<1>6. Width(g) <= Width(f) + 1 /\ Width(f) <= Width(g) + 1
  <2>1. CASE g = f
    BY <1>5, <2>1
  <2>2. CASE g = -f
    <3>1. f = -g
      BY <1>2, <2>2
    <3>2. Width(-f) <= Width(f) + 1 /\ Width(-g) <= Width(g) + 1
      BY <1>2, <1>3, WidthOfNegative
    <3> QED
      BY <2>2, <3>1, <3>2
  <2> QED
    BY <1>3, <2>1, <2>2
<1>7. get_sig_lbitwidth(v, type) = IF SignBit(v, type) = 1 THEN Width(g) ELSE Width(f)
  BY <1>2, <1>3, <1>4, SignedShiftsAre
<1> QED
  BY <1>1, <1>5, <1>6, <1>7 DEF f, g, n

\* The ones of a significand of n bits.
Ones(v, n) == {b \in 0 .. n - 1 : (v \div Pow2[b]) % 2 = 1}

\* The first of them is the last one of the element.
LEMMA LeastOne ==
  ASSUME NEW v \in Int, NEW n \in Nat
  PROVE  /\ Ones(v, n) = {} => v % Pow2[n] = 0
         /\ Ones(v, n) # {} => Min(Ones(v, n)) \in 0 .. n - 1 /\ IsLast(Min(Ones(v, n)), v)
<1>1. ASSUME NEW m \in Nat, m <= n, v % Pow2[m] # 0 PROVE \E b \in Ones(v, n) : b < m
  <2> DEFINE u == v % Pow2[m]
  <2>1. u \in 1 .. Pow2[m] - 1
    BY <1>1, ShiftType
  <2> HIDE DEF u
  <2>2. u \in Int /\ u # 0
    BY <2>1
  <2>3. PICK b \in Nat : IsLast(b, u)
    BY <2>2, LastExists
  <2>4. b < m
    BY <2>1, <2>3, LastBelow
  <2>5. IsLast(b, v)
    BY <2>3, <2>4, LastOfLowBits DEF u
  <2>6. b \in Ones(v, n)
    BY <1>1, <2>3, <2>4, <2>5 DEF Ones, IsLast
  <2> QED
    BY <2>4, <2>6
<1>2. ASSUME Ones(v, n) # {}
      PROVE  Min(Ones(v, n)) \in 0 .. n - 1 /\ IsLast(Min(Ones(v, n)), v)
  <2> DEFINE m == Min(Ones(v, n))
  <2>1. Ones(v, n) \in SUBSET Nat
    BY DEF Ones
  <2>2. m \in Ones(v, n) /\ \A b \in Ones(v, n) : m <= b
    BY <1>2, <2>1, Least
  <2> HIDE DEF m
  <2>3. m \in 0 .. n - 1 /\ m \in Nat /\ m <= n /\ (v \div Pow2[m]) % 2 = 1
    BY <2>2 DEF Ones
  <2>4. v % Pow2[m] = 0
    <3>1. \A b \in Ones(v, n) : ~(b < m)
      BY <2>1, <2>2, <2>3
    <3> QED
      BY <1>1, <2>3, <3>1
  <2> QED
    BY <2>3, <2>4 DEF IsLast, m
<1> QED
  BY <1>1, <1>2

\* The width of a significand from its most significant bit on.
LEMMA HighWidth ==
  ASSUME NEW v \in Int, NEW type \in DOMAIN Format
  PROVE  LET n == Format[type].sig
         IN  /\ v % Pow2[n] = 0 => get_sig_mbitwidth(v, type) = 0
             /\ \A b \in 0 .. n - 1 : IsLast(b, v) => get_sig_mbitwidth(v, type) = n - b
<1> DEFINE n == Format[type].sig
           f == Significand(v, type)
           g == Signed(Wrap(-f))
           y == Wrap(SigField(v, type))
           a == Pow2[W - n]
           x == Wrap(y * a)
<1>1. n \in Nat \ {0} /\ n \in Nat /\ n <= W /\ W \in Nat \ {0} /\ W - n \in Nat
  BY FormatSize, WordSize
<1>2. f \in Int /\ f % Pow2[n] = v % Pow2[n] /\ f = Extended(v % Pow2[n], n)
  BY SignificandType DEF Significand
<1>3. /\ SigField(v, type) \in {f, g}
      /\ g = -f \/ g = f
      /\ SigField(v, type) \in Int
  BY <1>2, SigFieldIs
<1>4. get_sig_mbitwidth(v, type) = LeftShifts[x]
  BY DEF get_sig_mbitwidth, get_msbf_bitwidth
<1> HIDE DEF f, g, n
<1>5. y \in Int /\ a \in Nat \ {0} /\ Pow2[W] \in Nat \ {0}
  BY <1>1, <1>3, SignedOfWrap, Pow2Values
<1>6. ASSUME v % Pow2[n] = 0 PROVE LeftShifts[x] = 0
  <2>1. n - 1 \in Nat
    BY <1>1
  <2>2. Pow2[n - 1] \in Nat \ {0}
    BY <2>1, Pow2Values
  <2>3. f = 0
    BY <1>2, <1>6, <2>2 DEF Extended
  <2>4. SigField(v, type) = 0
    BY <1>3, <2>3
  <2>5. 0 % Pow2[W] = 0
    BY <1>5, Small
  <2>6. x = 0
    BY <1>5, <2>4, <2>5 DEF Wrap
  <2> QED
    BY <2>6, LeftShiftsAre
<1>7. ASSUME NEW b \in 0 .. n - 1, IsLast(b, v) PROVE LeftShifts[x] = n - b
  <2>1. b \in Nat /\ b < n /\ b < W
    BY <1>1
  <2>2. IsLast(b, f)
    <3>1. IsLast(b, v % Pow2[n])
      BY <1>1, <1>7, <2>1, LastOfLowBits
    <3> QED
      BY <1>1, <1>2, <2>1, <3>1, LastOfLowBits
  <2>3. IsLast(b, SigField(v, type))
    <3>1. IsLast(b, -f)
      BY <1>2, <2>1, <2>2, LastOfNegative
    <3> QED
      BY <1>3, <2>2, <3>1
  <2>4. IsLast(b, y)
    BY <1>1, <1>3, <2>1, <2>3, LastOfLowBits DEF Wrap
  <2> HIDE DEF y
  <2>5. IsLast((W - n) + b, a * y)
    BY <1>1, <1>5, <2>1, <2>4, LastOfShifted
  <2> DEFINE z == a * y
             c == (W - n) + b
  <2>6. z \in Int /\ c \in Nat /\ c < W /\ y * a = z /\ n - b = W - c
    BY <1>1, <1>5, <2>1
  <2>7. IsLast(c, z)
    BY <2>5
  <2> HIDE DEF z, c, a
  <2>8. IsLast(c, Wrap(z)) /\ Wrap(z) \in 0 .. Pow2[W] - 1
    BY <1>1, <2>6, <2>7, LastOfLowBits, SignedOfWrap DEF Wrap
  <2>9. Wrap(z) # 0
    <3>1. Pow2[c] \in Nat \ {0}
      BY <2>6, Pow2Values
    <3>2. 0 \div Pow2[c] = 0
      BY <3>1, Small
    <3>3. ~IsLast(c, 0)
      BY <3>2 DEF IsLast
    <3> QED
      BY <2>8, <3>3
  <2>10. Wrap(z) \in 1 .. Pow2[W] - 1
    BY <1>5, <2>8, <2>9
  <2>11. LeftShifts[Wrap(z)] = W - c
    BY <2>6, <2>8, <2>10, LeftShiftsAre
  <2> QED
    BY <2>6, <2>11
<1> QED
  BY <1>4, <1>6, <1>7 DEF n

\* What get_exp_bitwidth() measures fits one bit more than the exponent has.
LEMMA ExponentWidth ==
  ASSUME NEW v \in Int, NEW type \in DOMAIN Format
  PROVE  /\ Exponent(v, type) \in Int
         /\ ExpField(v, type) \in Int
         /\ ExpField(v, type) = Extended(Exponent(v, type), Format[type].exp) - Bias(type)
         /\ Holds(Format[type].exp, ExpField(v, type))
         /\ get_exp_bitwidth(v, type) = Width(ExpField(v, type))
         /\ get_exp_bitwidth(v, type) \in 0 .. Format[type].exp
<1> DEFINE n == Format[type].exp
           u == Exponent(v, type)
           f == ExpField(v, type)
<1>1. n \in Nat \ {0} /\ Format[type].sig \in Nat /\ Format[type].sig + n \in Nat
  BY FormatSize
<1>2. f = Extended(u, n) - Bias(type)
  BY FloatFields DEF ExpField
<1>3. u \in 0 .. Pow2[n] - 1
  <2> DEFINE s == Format[type].sig
             m == s + n
  <2>1. s \in Nat /\ n \in Nat /\ m \in Nat /\ s + n <= m
    BY <1>1
  <2>2. u = Field(v, s, n)
    BY DEF Exponent
  <2> HIDE DEF s, n, m
  <2> QED
    BY <2>1, <2>2, FieldOfLowBits
<1>4. Bias(type) = Pow2[n - 1] - 1
  BY DEF Bias
<1>5. get_exp_bitwidth(v, type) = SignedShifts[f]
  BY DEF get_exp_bitwidth, get_int_bitwidth
<1> HIDE DEF n, u, f
<1>6. Extended(u, n) \in Int /\ Holds(n - 1, Extended(u, n))
  BY <1>1, <1>3, ExtendedIs
<1>7. Pow2[n - 1] \in Nat \ {0} /\ Pow2[n] = 2 * Pow2[n - 1]
  <2>1. n - 1 \in Nat /\ (n - 1) + 1 = n
    BY <1>1
  <2> QED
    BY <2>1, Pow2Values
<1>8. f \in Int /\ Holds(n, f) /\ u \in Int
  BY <1>2, <1>3, <1>4, <1>6, <1>7 DEF Holds
<1>9. SignedShifts[f] = Width(f) /\ Width(f) \in 0 .. n
  BY <1>1, <1>8, SignedShiftsAre, WidthAtMost
<1> QED
  BY <1>2, <1>5, <1>8, <1>9 DEF n, u, f

(***************************************************************************)
(* The theorems about single values: BitPatterns goes through every        *)
(* pattern of BITS bits.                                                   *)
(***************************************************************************)
\* A pattern is a number.
LEMMA PatternType == Patterns => [](val \in Nat)
<1>1. FirstPattern => val \in Nat
  BY DEF FirstPattern
<1>2. val \in Nat /\ [NextPattern]_val => (val \in Nat)'
  BY DEF NextPattern
<1> QED
  BY <1>1, <1>2, PTL DEF Patterns

\* get_ufield() and get_sfield() return the bits they are asked for.
THEOREM FieldsTheorem == Patterns => []FieldsAreTheirBits
<1>1. val \in Nat => FieldsAreTheirBits
  <2> SUFFICES ASSUME val \in Nat,
                      NEW start \in 0 .. BITS - 1, NEW length \in 1 .. W - (start % BYTE)
               PROVE  /\ get_ufield(val, start, length) = Bits(start, length)
                      /\ get_sfield(val, start, length) = SignedBits(start, length)
    BY DEF FieldsAreTheirBits
  <2>1. start \in Nat /\ val \in Int
    BY BitsAssumption
  <2> QED
    BY <2>1, FieldsAre DEF Bits, SignedBits, Field, Extended
<1> QED
  BY <1>1, PatternType, PTL

\* get_int_bitwidth() and get_uint_bitwidth() return the least widths.
THEOREM WidthsTheorem == Patterns => []WidthsAreLeast
<1>1. val \in Nat => WidthsAreLeast
  <2> SUFFICES ASSUME val \in Nat PROVE WidthsAreLeast
    OBVIOUS
  <2> DEFINE u == Wrap(val)
             t == Signed(u)
  <2>1. u \in 0 .. Pow2[W] - 1
    BY SignedOfWrap
  <2> HIDE DEF u
  <2>2. t \in Int /\ Holds(W - 1, t) /\ Holds(W, u) /\ (t >= 0 <=> u < Pow2[W - 1])
    BY <2>1, SignedIs
  <2>3. W \in Nat /\ W - 1 \in Nat /\ W - 1 <= W /\ u \in Nat /\ Pow2[W - 1] \in Nat \ {0}
    BY <2>1, WordSize
  <2>4. t >= 0 => t = u
    BY <2>2 DEF Signed
  <2>5. t < 0 => ~Holds(W - 1, u)
    BY <2>2, <2>3 DEF Holds
  <2> HIDE DEF t
  <2>6. Holds(W, t)
    BY <2>2, <2>3, HoldsMore
  <2>7. LeastWidth(t) = Width(t) /\ LeastWidth(u) = Width(u)
    BY <2>2, <2>3, <2>6, LeastWidthIs
  <2>8. SignedShifts[t] = Width(t) /\ UnsignedShifts[u] = Width(u)
    BY <2>2, <2>3, SignedShiftsAre, UnsignedShiftsAre
  <2>9. Width(t) = Width(u) <=> t >= 0
    <3>1. Width(t) \in Nat /\ Width(t) <= W - 1
      BY <2>2, <2>3, WidthAtMost
    <3>2. t < 0 => ~(Width(u) <= W - 1)
      BY <2>3, <2>5, WidthAtMost
    <3> QED
      BY <2>2, <2>4, <3>1, <3>2
  <2> QED
    BY <2>7, <2>8, <2>9 DEF WidthsAreLeast, get_int_bitwidth, get_uint_bitwidth, u, t
<1> QED
  BY <1>1, PatternType, PTL

\* get_sig_mbitwidth() finds the last one of the significand, whatever the sign.
THEOREM LastOneTheorem == Patterns => []SignificandEndsAtLastOne
<1>1. val \in Nat => SignificandEndsAtLastOne
  <2> SUFFICES ASSUME val \in Nat, NEW t \in DOMAIN Format
               PROVE  LET sig  == Format[t].sig
                          ones == {b \in 0 .. sig - 1 : Bits(b, 1) = 1}
                      IN  get_sig_mbitwidth(val, t) = IF ones = {} THEN 0 ELSE sig - Min(ones)
    BY DEF SignificandEndsAtLastOne
  <2> DEFINE sig == Format[t].sig
             ones == {b \in 0 .. sig - 1 : Bits(b, 1) = 1}
  <2>1. Pow2[1] = 2
    <3>1. Pow2[0 + 1] = 2 * Pow2[0] /\ Pow2[0] = 1
      BY Pow2Values
    <3> QED
      BY <3>1
  <2>2. ones = Ones(val, sig)
    BY <2>1 DEF Bits, Ones
  <2>3. sig \in Nat /\ val \in Int
    BY FormatSize
  <2>4. /\ val % Pow2[sig] = 0 => get_sig_mbitwidth(val, t) = 0
        /\ \A b \in 0 .. sig - 1 : IsLast(b, val) => get_sig_mbitwidth(val, t) = sig - b
    BY <2>3, HighWidth
  <2> HIDE DEF sig, ones
  <2>5. /\ ones = {} => val % Pow2[sig] = 0
        /\ ones # {} => Min(ones) \in 0 .. sig - 1 /\ IsLast(Min(ones), val)
    BY <2>2, <2>3, LeastOne
  <2>6. get_sig_mbitwidth(val, t) = IF ones = {} THEN 0 ELSE sig - Min(ones)
    BY <2>4, <2>5
  <2> QED
    BY <2>6 DEF sig, ones
<1> QED
  BY <1>1, PatternType, PTL

\* get_sig_lbitwidth() of an element and of its negative differ by a bit at most.
THEOREM SignCostsTheorem == Patterns => []SignCostsABitAtMost
<1>1. val \in Nat => SignCostsABitAtMost
  <2> SUFFICES ASSUME val \in Nat, NEW t \in DOMAIN Format
               PROVE  get_sig_lbitwidth(val, t) - get_sig_lbitwidth(Negated(t), t) \in {-1, 0, 1}
    BY DEF SignCostsABitAtMost
  <2> DEFINE sig == Format[t].sig
             at == sig + Format[t].exp
             a == Pow2[at]
             v == Negated(t)
             q == val \div a
             r == v \div a
  <2>1. sig \in Nat /\ at \in Nat /\ sig <= at
    BY FormatSize
  <2> HIDE DEF sig, at
  <2>2. a \in Nat \ {0} /\ q \in Int /\ val \in Int
    <3>1. val \in Int
      OBVIOUS
    <3>2. val \div Pow2[at] \in Int
      BY <2>1, <3>1, ShiftType
    <3> QED
      BY <2>1, <3>1, <3>2, Pow2Values
  <2>3. Pow2[1] = 2
    <3>1. Pow2[0 + 1] = 2 * Pow2[0] /\ Pow2[0] = 1
      BY Pow2Values
    <3> QED
      BY <3>1
  <2>4. v = IF q % 2 = 1 THEN val - a ELSE val + a
    BY <2>3 DEF Negated, Bits, at, sig
  <2>5. SignBit(val, t) = q % 2 /\ SignBit(v, t) = r % 2
    BY <2>3 DEF SignBit, Field, at, sig
  <2> HIDE DEF a, v
  <2>6. v \in Int /\ v % a = val % a
    <3>1. (val + a) % a = val % a /\ (val - a) % a = val % a
      BY <2>2, MovedOnce
    <3> QED
      BY <2>2, <2>4, <3>1
  <2>7. r = q + 1 \/ r = q - 1
    <3> DEFINE one == 1
               other == -1
    <3>1. one \in Int /\ other \in Int
      OBVIOUS
    <3>2. val + a * one = val + a /\ val + a * other = val - a
      BY <2>2
    <3>3. q + one = q + 1 /\ q + other = q - 1
      OBVIOUS
    <3> HIDE DEF one, other
    <3>4. (val + a * one) \div a = q + one
      BY <2>2, <3>1, Moved
    <3>5. (val + a * other) \div a = q + other
      BY <2>2, <3>1, Moved
    <3> QED
      BY <2>4, <3>2, <3>3, <3>4, <3>5
  <2>8. SignBit(val, t) \in {0, 1} /\ SignBit(v, t) = 1 - SignBit(val, t)
    <3> HIDE DEF q, r
    <3> QED
      BY <2>2, <2>5, <2>7
  <2>9. Significand(v, t) = Significand(val, t)
    <3>1. (v % Pow2[at]) % Pow2[sig] = v % Pow2[sig]
      BY <2>1, <2>6, LowBits
    <3>2. (val % Pow2[at]) % Pow2[sig] = val % Pow2[sig]
      BY <2>1, <2>2, LowBits
    <3> QED
      BY <2>6, <3>1, <3>2 DEF Significand, sig, a
  <2> DEFINE f == Significand(val, t)
             g == Signed(Wrap(-f))
  <2>10. /\ get_sig_lbitwidth(val, t) = IF SignBit(val, t) = 1 THEN Width(g) ELSE Width(f)
         /\ Width(f) \in 0 .. Format[t].sig /\ Width(g) \in 0 .. Format[t].sig
         /\ Width(g) - Width(f) \in {-1, 0, 1}
    BY <2>2, LowWidth
  <2>11. get_sig_lbitwidth(v, t) = IF SignBit(v, t) = 1 THEN Width(g) ELSE Width(f)
    BY <2>6, <2>9, LowWidth
  <2> HIDE DEF f, g
  <2>12. Width(f) \in Int /\ Width(g) \in Int
    BY <2>10
  <2>13. get_sig_lbitwidth(val, t) - get_sig_lbitwidth(v, t) \in {-1, 0, 1}
    BY <2>8, <2>10, <2>11, <2>12
  <2> QED
    BY <2>13 DEF v
<1> QED
  BY <1>1, PatternType, PTL

\* get_exp_bitwidth() is exact below 2 and wraps from there on.
THEOREM ExponentTheorem == Patterns => []ExponentBelowTwo
<1>1. val \in Nat => ExponentBelowTwo
  <2> SUFFICES ASSUME val \in Nat, NEW t \in DOMAIN Format
               PROVE  LET exp    == Format[t].exp
                          biased == Bits(Format[t].sig, exp)
                          wraps  == IF biased < Pow2[exp - 1] THEN 0 ELSE Pow2[exp]
                      IN  get_exp_bitwidth(val, t) = LeastWidth(biased - Bias(t) - wraps)
    BY DEF ExponentBelowTwo
  <2> DEFINE exp    == Format[t].exp
             biased == Bits(Format[t].sig, exp)
             wraps  == IF biased < Pow2[exp - 1] THEN 0 ELSE Pow2[exp]
             f == ExpField(val, t)
  <2>1. exp \in Nat \ {0} /\ exp \in Nat /\ exp - 1 \in Nat /\ exp < W /\ W \in Nat
    BY FormatSize, WordSize
  <2>2. biased = Exponent(val, t)
    BY DEF Bits, Exponent, Field
  <2>3. /\ Exponent(val, t) \in Int /\ f \in Int
        /\ f = Extended(Exponent(val, t), exp) - Bias(t)
        /\ Holds(exp, f) /\ get_exp_bitwidth(val, t) = Width(f)
    BY ExponentWidth
  <2>4. Bias(t) = Pow2[exp - 1] - 1
    BY DEF Bias
  <2> HIDE DEF exp, biased, f
  <2>5. Pow2[exp] \in Nat /\ Pow2[exp - 1] \in Nat
    BY <2>1, Pow2Values
  <2>6. f = biased - Bias(t) - wraps
    BY <2>2, <2>3, <2>4, <2>5 DEF Extended
  <2>7. Holds(W, f)
    BY <2>1, <2>3, HoldsMore
  <2>8. LeastWidth(f) = Width(f)
    BY <2>3, <2>7, LeastWidthIs
  <2>9. get_exp_bitwidth(val, t) = LeastWidth(biased - Bias(t) - wraps)
    BY <2>3, <2>6, <2>8
  <2> QED
    BY <2>9 DEF exp, biased
<1> QED
  BY <1>1, PatternType, PTL

(***************************************************************************)
(* Elements and what is read along with them.                              *)
(***************************************************************************)
\* The widths of a format's element are those of the element alone, and
\* bounded by its fields.
LEMMA FloatMeasured ==
  ASSUME NEW type \in DOMAIN Format, NEW loc \in Int, NEW d \in Nat,
         Format[type].sig + Format[type].exp + 1 <= d
  PROVE  LET bits == loc % Pow2[d]
         IN  /\ get_sig_lbitwidth(loc, type) = get_sig_lbitwidth(bits, type)
             /\ get_sig_mbitwidth(loc, type) = get_sig_mbitwidth(bits, type)
             /\ get_exp_bitwidth(loc, type) = get_exp_bitwidth(bits, type)
<1> DEFINE bits == loc % Pow2[d]
           sig  == Format[type].sig
           exp  == Format[type].exp
<1>1. sig \in Nat /\ exp \in Nat /\ sig + exp \in Nat /\ 0 \in Nat /\ 1 \in Nat
  BY FormatSize
<1>2. bits \in Int
  BY ShiftType
<1> HIDE DEF sig, exp
<1>3. sig + exp + 1 <= d /\ 0 + sig <= d /\ sig + exp <= d /\ (sig + exp) + 1 <= d
  BY <1>1 DEF sig, exp
<1>4. Field(bits, 0, sig) = Field(loc, 0, sig)
  BY <1>1, <1>3, FieldOfLowBits
<1>5. Field(bits, sig, exp) = Field(loc, sig, exp)
  BY <1>1, <1>3, FieldOfLowBits
<1>6. Field(bits, sig + exp, 1) = Field(loc, sig + exp, 1)
  BY <1>1, <1>3, FieldOfLowBits
<1>7. sig \in 1 .. W - (0 % BYTE)
  BY FormatSize DEF sig
<1>8. get_sfield(bits, 0, sig) = get_sfield(loc, 0, sig)
  BY <1>1, <1>2, <1>4, <1>7, FieldsAre
<1>9. Sign(bits, type) = Sign(loc, type)
  BY <1>2, <1>6, FloatFields DEF SignBit, sig, exp
<1>10. get_sfield(bits, sig, exp) = get_sfield(loc, sig, exp)
  BY <1>2, <1>5, FloatFields DEF Exponent, sig, exp
<1>11. SigField(bits, type) = SigField(loc, type)
  BY <1>8, <1>9 DEF SigField, sig
<1>12. ExpField(bits, type) = ExpField(loc, type)
  BY <1>10 DEF ExpField, sig, exp
<1> HIDE DEF bits
<1> QED
  BY <1>11, <1>12 DEF get_sig_lbitwidth, get_sig_mbitwidth, get_exp_bitwidth, bits

\* A smaller number is no wider.
LEMMA WidthMonotone ==
  ASSUME NEW t \in Nat, NEW u \in Nat, t <= u
  PROVE  Width(t) <= Width(u)
<1> DEFINE w == Width(u)
<1>1. w \in Nat /\ Holds(w, u)
  BY WidthAtMost
<1> HIDE DEF w
<1>2. Pow2[w] \in Nat
  BY <1>1, Pow2Values
<1>3. Holds(w, t)
  BY <1>1, <1>2 DEF Holds
<1>4. Width(t) <= w
  BY <1>1, <1>3, WidthAtMost
<1> QED
  BY <1>4 DEF w

\* An array that an element of the type has a width in.
HasWidth(x, dtype) ==
  IF dtype \in {"UINT", "INT"} THEN x = "int" ELSE x # "int" /\ dtype \in DOMAIN Format

\* What the width functions return for a word, and for a format.
LEMMA MeasureIs ==
  ASSUME NEW x \in Array, NEW dtype, NEW loc \in Nat
  PROVE  /\ Measure(x, dtype, loc) \in Int
         /\ Measure(x, dtype, loc) = -1 <=> ~HasWidth(x, dtype)
         /\ Measure(x, dtype, loc) >= -1
         /\ x = "int" => Measure(x, dtype, loc) <= W
         /\ x \in {"sig_l", "sig_m"} /\ HasWidth(x, dtype) =>
              Measure(x, dtype, loc) <= Format[dtype].sig
         /\ x = "exp" /\ HasWidth(x, dtype) => Measure(x, dtype, loc) <= Format[dtype].exp
         /\ x = "int" /\ dtype = "UINT" => Measure(x, dtype, loc) = Width(Wrap(loc))
         /\ x = "int" /\ dtype = "INT" => Measure(x, dtype, loc) = Width(Signed(Wrap(loc)))
<1> DEFINE u == Wrap(loc)
           t == Signed(u)
<1>1. Word(loc, 0) = u
  <2>1. BYTE * 0 = 0 /\ loc \div 1 = loc
    BY WordSize
  <2> QED
    BY <2>1, Pow2Values DEF Word
<1>2. u \in 0 .. Pow2[W] - 1 /\ Pow2[W] \in Nat
  BY SignedOfWrap, WordSize, Pow2Values
<1>3. t \in Int /\ Holds(W - 1, t) /\ Holds(W, u) /\ u \in Nat
  <2> HIDE DEF u
  <2> QED
    BY <1>2, SignedIs
<1> HIDE DEF t, u
<1>4. get_uint_bitwidth(u) = Width(u) /\ get_int_bitwidth(t) = Width(t)
  BY <1>3, UnsignedShiftsAre, SignedShiftsAre DEF get_uint_bitwidth, get_int_bitwidth
<1>5. /\ Width(u) \in Nat /\ Width(u) <= W /\ Width(t) \in Nat /\ Width(t) <= W
      /\ W \in Nat
  <2>1. W \in Nat /\ W - 1 \in Nat
    BY WordSize
  <2>2. Width(u) \in Nat /\ Width(u) <= W
    BY <1>3, <2>1, WidthAtMost
  <2>3. Width(t) \in Nat /\ Width(t) <= W - 1
    BY <1>3, <2>1, WidthAtMost
  <2> QED
    BY <2>1, <2>2, <2>3
<1>6. CASE dtype = "UINT"
  BY <1>1, <1>4, <1>5, <1>6 DEF Measure, HasWidth, Array, u
<1>7. CASE dtype = "INT"
  BY <1>1, <1>4, <1>5, <1>7 DEF Measure, HasWidth, Array, t, u
<1>8. CASE dtype \notin {"UINT", "INT"} /\ dtype \notin DOMAIN Format
  BY <1>5, <1>8 DEF Measure, HasWidth, Array, get_sig_lbitwidth, get_sig_mbitwidth, get_exp_bitwidth
<1>9. CASE dtype \notin {"UINT", "INT"} /\ dtype \in DOMAIN Format
  <2>1. /\ get_sig_lbitwidth(loc, dtype) \in 0 .. Format[dtype].sig
        /\ get_sig_mbitwidth(loc, dtype) \in 0 .. Format[dtype].sig
        /\ get_exp_bitwidth(loc, dtype) \in 0 .. Format[dtype].exp
        /\ Format[dtype].sig \in Nat /\ Format[dtype].exp \in Nat
    <3>1. Format[dtype].sig \in Nat /\ Format[dtype].exp \in Nat
      BY <1>9, FormatSize
    <3>2. get_sig_lbitwidth(loc, dtype) \in 0 .. Format[dtype].sig
      BY <1>9, LowWidth
    <3>3. get_exp_bitwidth(loc, dtype) \in 0 .. Format[dtype].exp
      BY <1>9, ExponentWidth
    <3>4. get_sig_mbitwidth(loc, dtype) \in 0 .. Format[dtype].sig
      <4> DEFINE n == Format[dtype].sig
                 b == Min(Ones(loc, n))
      <4>1. n \in Nat
        BY <3>1
      <4>2. Ones(loc, n) # {} => b \in 0 .. n - 1 /\ IsLast(b, loc)
        BY <4>1, LeastOne
      <4>3. Ones(loc, n) = {} => loc % Pow2[n] = 0
        BY <4>1, LeastOne
      <4>4. loc % Pow2[n] = 0 => get_sig_mbitwidth(loc, dtype) = 0
        BY <1>9, HighWidth
      <4>5. \A c \in 0 .. n - 1 : IsLast(c, loc) => get_sig_mbitwidth(loc, dtype) = n - c
        BY <1>9, HighWidth
      <4> HIDE DEF n, b
      <4>6. get_sig_mbitwidth(loc, dtype) \in 0 .. n
        BY <4>1, <4>2, <4>3, <4>4, <4>5
      <4> QED
        BY <4>6 DEF n
    <3> QED
      BY <3>1, <3>2, <3>3, <3>4
  <2> DEFINE m == Measure(x, dtype, loc)
  <2>2. /\ x = "int" => m = -1
        /\ x = "sig_l" => m = get_sig_lbitwidth(loc, dtype)
        /\ x = "sig_m" => m = get_sig_mbitwidth(loc, dtype)
        /\ x = "exp" => m = get_exp_bitwidth(loc, dtype)
    BY <1>9 DEF Measure
  <2>3. x \in {"int", "sig_l", "sig_m", "exp"}
    BY DEF Array
  <2>4. HasWidth(x, dtype) <=> x # "int"
    BY <1>9 DEF HasWidth
  <2> HIDE DEF m
  <2>5. /\ m \in Int /\ (m = -1 <=> ~HasWidth(x, dtype)) /\ m >= -1
        /\ (x = "int" => m <= W)
        /\ (x \in {"sig_l", "sig_m"} => m <= Format[dtype].sig)
        /\ (x = "exp" => m <= Format[dtype].exp)
    BY <1>5, <2>1, <2>2, <2>3, <2>4
  <2> QED
    BY <1>9, <2>5 DEF m
<1> QED
  BY <1>6, <1>7, <1>8, <1>9

\* The width of a signed number is never less than that of its low bits as a
\* signed number.
LEMMA SignedLowBits ==
  ASSUME NEW t \in Int, NEW d \in Nat \ {0}
  PROVE  Width(Extended(t % Pow2[d], d)) <= Width(t)
<1> DEFINE w == Width(t)
           u == t % Pow2[d]
<1>1. w \in Nat /\ Holds(w, t)
  BY WidthAtMost
<1>2. u \in 0 .. Pow2[d] - 1
  BY ShiftType
<1> HIDE DEF w, u
<1>3. d - 1 \in Nat /\ Extended(u, d) \in Int /\ Holds(d - 1, Extended(u, d))
  BY <1>2, ExtendedIs
<1>4. CASE d - 1 <= w
  <2>1. Width(Extended(u, d)) <= d - 1 /\ Width(Extended(u, d)) \in Nat
    BY <1>3, WidthAtMost
  <2> QED
    BY <1>1, <1>3, <1>4, <2>1 DEF w, u
<1>5. CASE ~(d - 1 <= w)
  <2>1. Holds(d - 1, t)
    BY <1>1, <1>3, <1>5, HoldsMore
  <2>2. Extended(u, d) = t
    BY <2>1, ExtendedOfRest DEF u
  <2> QED
    BY <1>1, <2>2 DEF w, u
<1> QED
  BY <1>4, <1>5

\* A remainder is at most the number.
LEMMA Remainder ==
  ASSUME NEW a \in Nat \ {0}, NEW n \in Nat
  PROVE  n % a \in Nat /\ n % a <= n /\ n % a < a
<1>1. CASE n < a
  <2>1. n % a = n
    BY <1>1, Small
  <2> QED
    BY <1>1, <2>1
<1>2. CASE a <= n
  <2>1. n % a \in 0 .. a - 1
    BY DivMod
  <2> QED
    BY <1>2, <2>1
<1> QED
  BY <1>1, <1>2

\* What an element's own width is measured of: its bits, with their sign.
LEMMA OwnWidthIs ==
  ASSUME NEW x \in Array, NEW e, e.bits \in Nat, e.dwidth \in Nat \ {0}
  PROVE  \E loc \in Nat :
           /\ OwnWidth(x, e) = Measure(x, e.dtype, loc)
           /\ e.dtype # "INT" => loc = e.bits
           /\ e.dtype = "INT" => Wrap(loc) = Wrap(Extended(e.bits, e.dwidth))
<1> DEFINE n == e.bits - Pow2[e.dwidth]
<1>1. Pow2[e.dwidth] \in Nat /\ Pow2[e.dwidth - 1] \in Nat /\ n \in Int /\ W \in Nat
  <2>1. e.dwidth \in Nat /\ e.dwidth - 1 \in Nat
    OBVIOUS
  <2> QED
    BY <2>1, Pow2Values, WordSize
<1>2. Wrap(n) \in 0 .. Pow2[W] - 1 /\ Pow2[W] \in Nat
  BY <1>1, SignedOfWrap, Pow2Values
<1>3. Wrap(Wrap(n)) = Wrap(n)
  BY <1>1, LowBits DEF Wrap
<1>4. CASE e.dtype = "INT" /\ e.bits >= Pow2[e.dwidth - 1]
  <2>1. OwnWidth(x, e) = Measure(x, "INT", Wrap(n))
    BY <1>4 DEF OwnWidth
  <2>2. Extended(e.bits, e.dwidth) = n
    BY <1>1, <1>4 DEF Extended
  <2>3. Wrap(n) \in Nat
    BY <1>2
  <2> HIDE DEF n
  <2>4. WITNESS Wrap(n) \in Nat
  <2> QED
    BY <1>3, <1>4, <2>1, <2>2
<1>5. CASE ~(e.dtype = "INT" /\ e.bits >= Pow2[e.dwidth - 1])
  <2>1. OwnWidth(x, e) = Measure(x, e.dtype, e.bits)
    BY <1>5 DEF OwnWidth
  <2>2. e.dtype = "INT" => Extended(e.bits, e.dwidth) = e.bits
    BY <1>1, <1>5 DEF Extended
  <2>3. WITNESS e.bits \in Nat
  <2> QED
    BY <2>1, <2>2
<1> QED
  BY <1>4, <1>5

\* An element measured at an address whose low bits it is: what is read along
\* with it adds nothing, except to an integer that is shorter than a word.
LEMMA ElementMeasured ==
  ASSUME NEW x \in Array, NEW e, NEW loc \in Nat,
         e.dwidth \in Nat \ {0}, e.bits = loc % Pow2[e.dwidth],
         e.dtype \in DOMAIN Format =>
           \/ e.dtype \in {"UINT", "INT"}
           \/ Format[e.dtype].sig + Format[e.dtype].exp + 1 <= e.dwidth
  PROVE  /\ e.bits \in Nat
         /\ OwnWidth(x, e) \in Int
         /\ OwnWidth(x, e) <= Measure(x, e.dtype, loc)
         /\ (x = "int" /\ e.dtype \in {"UINT", "INT"} => e.dwidth >= W) =>
              OwnWidth(x, e) = Measure(x, e.dtype, loc)
<1> DEFINE d == e.dwidth
           bits == e.bits
<1>1. /\ d \in Nat \ {0} /\ d \in Nat /\ bits \in Nat /\ bits < Pow2[d] /\ Pow2[d] \in Nat
      /\ W \in Nat /\ Pow2[W] \in Nat \ {0}
  <2>1. d \in Nat /\ Pow2[d] \in Nat \ {0}
    BY Pow2Values
  <2>2. loc % Pow2[d] \in Nat /\ loc % Pow2[d] < Pow2[d]
    BY <2>1, Remainder
  <2> QED
    BY <2>1, <2>2, Pow2Values, WordSize
<1>2. PICK own \in Nat :
        /\ OwnWidth(x, e) = Measure(x, e.dtype, own)
        /\ e.dtype # "INT" => own = bits
        /\ e.dtype = "INT" => Wrap(own) = Wrap(Extended(bits, d))
  BY <1>1, OwnWidthIs
<1>3. Measure(x, e.dtype, own) \in Int /\ Measure(x, e.dtype, loc) \in Int
  BY MeasureIs
<1>4. CASE ~HasWidth(x, e.dtype)
  BY <1>1, <1>2, <1>3, <1>4, MeasureIs
<1>5. CASE HasWidth(x, e.dtype) /\ e.dtype = "UINT"
  <2>1. x = "int"
    BY <1>5 DEF HasWidth
  <2>2. OwnWidth(x, e) = Width(Wrap(bits)) /\ Measure(x, e.dtype, loc) = Width(Wrap(loc))
    BY <1>2, <1>5, <2>1, MeasureIs
  <2>3. CASE d >= W
    <3>1. Wrap(bits) = Wrap(loc)
      BY <1>1, <2>3, LowBits DEF Wrap
    <3> QED
      BY <1>1, <1>2, <1>3, <2>2, <3>1
  <2>4. CASE d < W
    <3>1. bits = Wrap(loc) % Pow2[d]
      BY <1>1, <2>4, LowBits DEF Wrap
    <3>2. Wrap(loc) \in Nat
      BY SignedOfWrap, <1>1
    <3>3. bits <= Wrap(loc)
      <4>1. Pow2[d] \in Nat \ {0}
        BY <1>1, Pow2Values
      <4>2. Wrap(loc) % Pow2[d] <= Wrap(loc)
        BY <3>2, <4>1, Remainder
      <4> QED
        BY <3>1, <4>2
    <3>4. Pow2[d] < Pow2[W]
      BY <1>1, <2>4, Pow2Grows
    <3>5. Wrap(bits) = bits
      BY <1>1, <3>4, Small DEF Wrap
    <3>6. Width(bits) <= Width(Wrap(loc))
      BY <1>1, <3>2, <3>3, WidthMonotone
    <3> QED
      BY <1>1, <1>2, <1>3, <1>5, <2>1, <2>2, <2>4, <3>5, <3>6
  <2> QED
    BY <1>1, <2>3, <2>4
<1>6. CASE HasWidth(x, e.dtype) /\ e.dtype = "INT"
  <2> DEFINE t == Signed(Wrap(loc))
             s == Extended(bits, d)
  <2>1. x = "int"
    BY <1>6 DEF HasWidth
  <2>2. /\ OwnWidth(x, e) = Width(Signed(Wrap(s)))
        /\ Measure(x, e.dtype, loc) = Width(t)
    <3>1. Measure(x, e.dtype, own) = Width(Signed(Wrap(own)))
      BY <1>6, <2>1, MeasureIs
    <3>2. Measure(x, e.dtype, loc) = Width(Signed(Wrap(loc)))
      BY <1>6, <2>1, MeasureIs
    <3> QED
      BY <1>2, <1>6, <3>1, <3>2
  <2>3. bits \in 0 .. Pow2[d] - 1
    BY <1>1
  <2>4. s \in Int /\ Holds(d - 1, s)
    BY <1>1, <2>3, ExtendedIs
  <2>5. CASE d >= W
    <3>1. Wrap(bits) = Wrap(loc)
      BY <1>1, <2>5, LowBits DEF Wrap
    <3>2. Wrap(bits - Pow2[d]) = Wrap(bits)
      <4> DEFINE a == Pow2[W]
                 k == d - W
                 b == Pow2[k]
      <4>1. k \in Nat /\ W + k = d
        BY <1>1, <2>5
      <4> HIDE DEF k
      <4>2. a \in Nat \ {0} /\ b \in Nat
        BY <1>1, <4>1, Pow2Values
      <4>3. Pow2[W + k] = a * b
        BY <1>1, <4>1, Pow2Sum
      <4> HIDE DEF a, b
      <4>4. -b \in Int /\ bits \in Int /\ a * (-b) = -(a * b)
        BY <1>1, <4>2
      <4> DEFINE c == -b
      <4>5. c \in Int /\ bits + a * c = bits - Pow2[d]
        BY <1>1, <4>1, <4>2, <4>3, <4>4
      <4> HIDE DEF c
      <4>6. (bits + a * c) % a = bits % a
        BY <4>2, <4>4, <4>5, Moved
      <4> QED
        BY <4>5, <4>6 DEF Wrap, a
    <3>3. Wrap(s) = Wrap(loc)
      BY <3>1, <3>2 DEF Extended
    <3> QED
      BY <1>1, <1>2, <1>3, <2>2, <3>3
  <2>6. CASE d < W
    <3>1. t \in Int /\ Wrap(t) = Wrap(loc)
      BY SignedOfWrap, SignedIs
    <3>2. t % Pow2[d] = bits
      <4>1. t % Pow2[d] = Wrap(t) % Pow2[d]
        BY <1>1, <2>6, <3>1, LowBits DEF Wrap
      <4>2. loc % Pow2[d] = Wrap(loc) % Pow2[d]
        BY <1>1, <2>6, LowBits DEF Wrap
      <4> QED
        BY <3>1, <4>1, <4>2
    <3>3. Width(s) <= Width(t)
      BY <1>1, <3>1, <3>2, SignedLowBits
    <3>4. Holds(W - 1, s)
      BY <1>1, <2>4, <2>6, HoldsMore
    <3>5. Signed(Wrap(s)) = s
      BY <2>4, <3>4, SignedOfWrap
    <3> QED
      BY <1>1, <1>2, <1>3, <1>6, <2>1, <2>2, <2>6, <3>3, <3>5
  <2> QED
    BY <1>1, <2>5, <2>6
<1>7. CASE HasWidth(x, e.dtype) /\ e.dtype \notin {"UINT", "INT"}
  <2>1. e.dtype \in DOMAIN Format /\ x # "int" /\ own = bits
    BY <1>2, <1>7 DEF HasWidth
  <2>2. /\ get_sig_lbitwidth(loc, e.dtype) = get_sig_lbitwidth(bits, e.dtype)
        /\ get_sig_mbitwidth(loc, e.dtype) = get_sig_mbitwidth(bits, e.dtype)
        /\ get_exp_bitwidth(loc, e.dtype) = get_exp_bitwidth(bits, e.dtype)
    <3> DEFINE type == e.dtype
    <3>1. /\ type \in DOMAIN Format /\ Format[type].sig + Format[type].exp + 1 <= d
          /\ bits = loc % Pow2[d] /\ loc \in Int
      BY <1>7, <2>1
    <3> HIDE DEF type, bits, d
    <3>2. /\ get_sig_lbitwidth(loc, type) = get_sig_lbitwidth(loc % Pow2[d], type)
          /\ get_sig_mbitwidth(loc, type) = get_sig_mbitwidth(loc % Pow2[d], type)
          /\ get_exp_bitwidth(loc, type) = get_exp_bitwidth(loc % Pow2[d], type)
      BY <1>1, <3>1, FloatMeasured
    <3> QED
      BY <3>1, <3>2 DEF type
  <2>3. Measure(x, e.dtype, bits) = Measure(x, e.dtype, loc)
    BY <1>7, <2>1, <2>2 DEF Measure
  <2> QED
    BY <1>1, <1>2, <1>3, <2>1, <2>3
<1> QED
  BY <1>4, <1>5, <1>6, <1>7

(***************************************************************************)
(* The operands of an instruction.                                         *)
(***************************************************************************)
\* An array and a lane of it: it holds a width or -1, the lanes below it are
\* measured if it is, no element of the lane is wider, and, where none is short,
\* one of them is as wide.
LaneInv(x, j) ==
  /\ width[x][j] \in Int /\ width[x][j] >= -1
  /\ x = "int" => width[x][j] <= W
  /\ width[x][j] >= 0 => \A k \in 0 .. j - 1 : width[x][k] >= 0
  /\ \A e \in In(j) : OwnWidth(x, e) <= width[x][j]
  /\ x # "int" \/ (\A e \in In(j) : ~IsShort(e)) =>
       width[x][j] = -1 \/ \E e \in In(j) : width[x][j] = OwnWidth(x, e)

OperandsInv ==
  /\ rval \in Nat /\ beyond \in Nat
  /\ \A e \in elements : e.bits \in Nat /\ e.dwidth \in Nat \ {0}
  /\ \A x \in Array, j \in Lane : LaneInv(x, j)

\* The lanes are numbers.
LEMMA LaneType == RVAL \div BYTE \in Int
<1>1. RVAL \in Int
  BY OperandAssumption
<1>2. BYTE \in Nat \ {0}
  BY WordSize
<1> QED
  BY <1>1, <1>2, DivMod

\* The lane of an element in the buffer begins with the element's bits,
\* whatever follows the register.
LEMMA LaneOfElement ==
  ASSUME NEW size \in Nat, NEW v \in 0 .. Pow2[size] - 1, NEW rest \in Int,
         NEW dwidth \in Nat \ {0}, dwidth % BYTE = 0, NEW dcount \in Nat,
         dcount * dwidth <= size, NEW j \in 0 .. dcount - 1
  PROVE  ((v + Pow2[size] * rest) \div Pow2[j * BYTE * (dwidth \div BYTE)]) % Pow2[dwidth]
           = (v \div Pow2[j * dwidth]) % Pow2[dwidth]
<1> DEFINE X == v + Pow2[size] * rest
           q == dwidth \div BYTE
<1>1. Pow2[size] \in Nat \ {0} /\ BYTE \in Nat \ {0}
  BY Pow2Values, WordSize
<1>2. v % Pow2[size] = v
  BY <1>1, Small
<1>3. X % Pow2[size] = v
  BY <1>1, <1>2, Moved
<1>4. q \in Int /\ dwidth = BYTE * q
  <2>1. dwidth \in Int /\ q \in Int /\ dwidth = BYTE * q + (dwidth % BYTE)
    BY <1>1, DivMod
  <2> HIDE DEF q
  <2> QED
    BY <1>1, <2>1
<1>5. X \in Int
  BY <1>1
<1> HIDE DEF X, q
<1>6. j * BYTE * q = j * dwidth
  BY <1>1, <1>4
<1>7. j * dwidth \in Nat /\ j * dwidth + dwidth <= size
  <2>1. j \in Nat /\ j + 1 <= dcount /\ dwidth \in Nat
    OBVIOUS
  <2>2. dwidth * (j + 1) <= dwidth * dcount
    BY <2>1, Times
  <2>3. dwidth * (j + 1) = j * dwidth + dwidth /\ dwidth * dcount = dcount * dwidth
    BY <2>1
  <2> QED
    BY <2>1, <2>2, <2>3
<1>8. Field(X % Pow2[size], j * dwidth, dwidth) = Field(X, j * dwidth, dwidth)
  BY <1>5, <1>7, FieldOfLowBits
<1> QED
  BY <1>3, <1>6, <1>8 DEF Field, X, q

\* The operands measured below a lane n, each element at an address of its own.
LEMMA Measured ==
  ASSUME OperandsInv, NEW dtype, NEW n \in Nat, NEW loc, NEW New,
         Widen(dtype, n, loc), elements' = elements \cup New,
         \A j \in Lane : j < n => loc[j] \in Nat,
         \A j \in Lane : j < n => \E e \in New : e.lane = j,
         \A e \in New : e.bits \in Nat /\ e.dwidth \in Nat \ {0} /\ e.lane < n,
         \A e \in New, x \in Array : e.lane \in Lane =>
           /\ OwnWidth(x, e) <= Measure(x, dtype, loc[e.lane])
           /\ x # "int" \/ ~IsShort(e) => OwnWidth(x, e) = Measure(x, dtype, loc[e.lane])
  PROVE  /\ \A e \in elements' : e.bits \in Nat /\ e.dwidth \in Nat \ {0}
         /\ \A x \in Array, j \in Lane : LaneInv(x, j)'
<1>1. \A e \in elements' : e.bits \in Nat /\ e.dwidth \in Nat \ {0}
  BY DEF OperandsInv
<1>2. ASSUME NEW x \in Array, NEW j \in Lane
      PROVE  LaneInv(x, j)'
  <2> DEFINE m(k) == Measure(x, dtype, loc[k])
             a == width[x][j]
             b == width'[x][j]
  <2>1. \A k \in Lane :
          width'[x][k] = IF k < n THEN Widest(width[x][k], m(k)) ELSE width[x][k]
    BY DEF Widen
  <2>2. \A k \in Lane : k < n => m(k) \in Int /\ m(k) >= -1 /\ (x = "int" => m(k) <= W)
    BY MeasureIs
  <2>3. \A k \in Lane : k < n => (m(k) = -1 <=> ~HasWidth(x, dtype))
    BY MeasureIs
  <2>4. \A k \in Lane : LaneInv(x, k)
    BY DEF OperandsInv
  <2>5. \A k \in Lane : width[x][k] \in Int /\ width[x][k] >= -1
    BY <2>4 DEF LaneInv
  <2>6. In(j)' = In(j) \cup {e \in New : e.lane = j}
    BY DEF In
  <2>7. j \in Nat /\ RVAL \div BYTE \in Int /\ \A k \in 0 .. j - 1 : k \in Lane /\ k \in Nat
    <3>1. RVAL \div BYTE \in Int
      BY LaneType
    <3> QED
      BY <3>1 DEF Lane
  <2>8. W \in Nat
    BY WordSize
  <2>9. /\ b = IF j < n THEN Widest(a, m(j)) ELSE a
        /\ a \in Int /\ a >= -1
        /\ j < n => m(j) \in Int /\ m(j) >= -1 /\ (x = "int" => m(j) <= W)
    BY <2>1, <2>2, <2>5
  <2>10. /\ x = "int" => a <= W
         /\ \A e \in In(j) : OwnWidth(x, e) <= a
         /\ x # "int" \/ (\A e \in In(j) : ~IsShort(e)) =>
              a = -1 \/ \E e \in In(j) : a = OwnWidth(x, e)
    BY <2>4 DEF LaneInv
  <2>11. \A e \in New : e.lane = j =>
           /\ j < n /\ OwnWidth(x, e) <= m(j)
           /\ x # "int" \/ ~IsShort(e) => OwnWidth(x, e) = m(j)
    OBVIOUS
  <2>12. \A e \in In(j)' : OwnWidth(x, e) \in Int
    <3> SUFFICES ASSUME NEW e \in In(j)' PROVE OwnWidth(x, e) \in Int
      OBVIOUS
    <3>1. e.bits \in Nat /\ e.dwidth \in Nat \ {0}
      BY <1>1 DEF In
    <3> QED
      BY <3>1, OwnWidthIs, MeasureIs
  <2>13. b >= 0 => \A k \in 0 .. j - 1 : width'[x][k] >= 0
    <3> SUFFICES ASSUME b >= 0, NEW k \in 0 .. j - 1
                 PROVE  width'[x][k] >= 0
      OBVIOUS
    <3>1. k \in Lane /\ k \in Nat /\ k < j
      BY <2>7
    <3>2. /\ width'[x][k] = IF k < n THEN Widest(width[x][k], m(k)) ELSE width[x][k]
          /\ width[x][k] \in Int
          /\ k < n => m(k) \in Int
      BY <2>1, <2>2, <2>5, <3>1
    <3> HIDE DEF m, a, b
    <3>3. CASE a >= 0
      <4>1. width[x][k] >= 0
        BY <2>4, <3>3 DEF LaneInv, a
      <4> QED
        BY <3>2, <4>1 DEF Widest
    <3>4. CASE ~(a >= 0)
      <4>1. j < n /\ m(j) >= 0
        BY <2>9, <3>4 DEF Widest
      <4>2. k < n
        BY <2>7, <3>1, <4>1
      <4>3. m(k) # -1 /\ m(k) >= -1
        BY <2>2, <2>3, <3>1, <4>1, <4>2
      <4> QED
        BY <3>2, <4>2, <4>3 DEF Widest
    <3> QED
      BY <3>3, <3>4
  <2> HIDE DEF m, a, b
  <2>14. b \in Int /\ b >= -1 /\ a <= b /\ (j < n => m(j) <= b) /\ (b = a \/ (j < n /\ b = m(j)))
    BY <2>9 DEF Widest
  <2>15. x = "int" => b <= W
    BY <2>9, <2>10, <2>14
  <2>16. \A e \in In(j)' : OwnWidth(x, e) <= b
    <3> SUFFICES ASSUME NEW e \in In(j)' PROVE OwnWidth(x, e) <= b
      OBVIOUS
    <3>1. CASE e \in In(j)
      BY <2>9, <2>10, <2>12, <2>14, <3>1
    <3>2. CASE e \in New /\ e.lane = j
      BY <2>9, <2>11, <2>12, <2>14, <3>2
    <3> QED
      BY <2>6, <3>1, <3>2
  <2>17. ASSUME x # "int" \/ (\A e \in In(j)' : ~IsShort(e))
         PROVE  b = -1 \/ \E e \in In(j)' : b = OwnWidth(x, e)
    <3>1. CASE b = a
      BY <2>6, <2>10, <2>17, <3>1
    <3>2. CASE j < n /\ b = m(j)
      <4>1. PICK e \in New : e.lane = j
        BY <3>2
      <4>2. e \in In(j)'
        BY <2>6, <4>1
      <4>3. OwnWidth(x, e) = m(j)
        BY <2>11, <2>17, <4>1, <4>2
      <4> QED
        BY <3>2, <4>2, <4>3
    <3> QED
      BY <2>14, <3>1, <3>2
  <2> QED
    BY <2>13, <2>14, <2>15, <2>16, <2>17 DEF LaneInv, b
<1> QED
  BY <1>1, <1>2

\* case iarg_reg
LEMMA ReadRegisterStep ==
  ASSUME OperandsInv, NEW o \in Reg, NEW v \in RegValue[o.size], ReadRegister(o, v)
  PROVE  OperandsInv'
<1> DEFINE loc == [j \in Lane |-> Loc(rval', o.dwidth, j)]
           el(j) == [source |-> "reg", lane |-> j, dtype |-> o.dtype, dwidth |-> o.dwidth,
                     bits |-> (v \div Pow2[j * o.dwidth]) % Pow2[o.dwidth]]
           New == {el(j) : j \in 0 .. o.dcount - 1}
           rest == (rval \div Pow2[o.size]) + Pow2[RVAL - o.size] * beyond
           X == v + Pow2[o.size] * rest
<1>1. /\ RVAL \in Nat /\ o.size \in Nat /\ o.size <= RVAL /\ v \in 0 .. Pow2[o.size] - 1
      /\ o.dwidth \in Nat \ {0} /\ o.dwidth % BYTE = 0
      /\ o.dcount \in Nat /\ o.dcount * o.dwidth <= o.size
      /\ o.dtype \in DOMAIN Format => Format[o.dtype].sig + Format[o.dtype].exp + 1 <= o.dwidth
  BY OperandAssumption
<1>2. rval' = Loaded(v, o.size) /\ beyond' = beyond /\ Widen(o.dtype, o.dcount, loc)
  BY DEF ReadRegister
<1>3. elements' = elements \cup New
  BY DEF ReadRegister, Observe
<1>4. rval \in Nat /\ beyond \in Nat
  BY DEF OperandsInv
<1>5. Pow2[o.size] \in Nat \ {0} /\ Pow2[RVAL] \in Nat \ {0} /\ Pow2[RVAL - o.size] \in Nat
  <2>1. RVAL - o.size \in Nat
    BY <1>1
  <2> QED
    BY <1>1, <2>1, Pow2Values
<1>6. rval \div Pow2[o.size] \in Nat
  <2>1. rval \in Int /\ o.size \in Nat
    BY <1>1, <1>4
  <2> QED
    BY <1>4, <2>1, ShiftType
<1>7. rval' \in Nat
  BY <1>1, <1>2, <1>5, <1>6 DEF Loaded
<1>8. rval' + Pow2[RVAL] * beyond = X /\ rest \in Int /\ X \in Nat
  <2> DEFINE p == Pow2[o.size]
             q == Pow2[RVAL - o.size]
             d == rval \div Pow2[o.size]
  <2>1. Pow2[RVAL] = p * q
    <3>1. RVAL - o.size \in Nat /\ o.size + (RVAL - o.size) = RVAL
      BY <1>1
    <3> QED
      BY <1>1, <3>1, Pow2Sum
  <2>2. p \in Nat /\ q \in Nat /\ d \in Nat /\ v \in Nat /\ beyond \in Nat
    BY <1>1, <1>4, <1>5, <1>6
  <2>3. rval' = v + p * d
    BY <1>2 DEF Loaded
  <2>4. rest = d + q * beyond /\ X = v + p * rest
    OBVIOUS
  <2> HIDE DEF p, q, d, rest, X
  <2>5. (p * q) * beyond = p * (q * beyond) /\ p * (d + q * beyond) = p * d + p * (q * beyond)
    BY <2>2
  <2>6. rest \in Nat /\ p * rest \in Nat /\ q * beyond \in Nat /\ p * d \in Nat
    BY <2>2, <2>4
  <2> QED
    BY <2>1, <2>2, <2>3, <2>4, <2>5, <2>6
<1>9. \A j \in 0 .. o.dcount - 1 :
        /\ j * BYTE * (o.dwidth \div BYTE) \in Nat
        /\ (X \div Pow2[j * BYTE * (o.dwidth \div BYTE)]) % Pow2[o.dwidth] = el(j).bits
  <2> SUFFICES ASSUME NEW j \in 0 .. o.dcount - 1
               PROVE  /\ j * BYTE * (o.dwidth \div BYTE) \in Nat
                      /\ (X \div Pow2[j * BYTE * (o.dwidth \div BYTE)]) % Pow2[o.dwidth]
                           = el(j).bits
    OBVIOUS
  <2>1. o.dwidth \div BYTE \in Nat /\ BYTE \in Nat /\ j \in Nat
    BY <1>1, WordSize
  <2>2. (X \div Pow2[j * BYTE * (o.dwidth \div BYTE)]) % Pow2[o.dwidth]
          = (v \div Pow2[j * o.dwidth]) % Pow2[o.dwidth]
    BY <1>1, <1>8, LaneOfElement
  <2> DEFINE q == o.dwidth \div BYTE
  <2>3. q \in Nat
    BY <2>1
  <2> HIDE DEF q
  <2>4. j * BYTE * q \in Nat
    BY <2>1, <2>3
  <2> QED
    BY <2>2, <2>4 DEF q
<1> HIDE DEF X, rest
<1>10. \A j \in Lane : j < o.dcount =>
         /\ loc[j] \in Nat /\ loc[j] % Pow2[o.dwidth] = el(j).bits
         /\ j \in 0 .. o.dcount - 1
  <2> SUFFICES ASSUME NEW j \in Lane, j < o.dcount
               PROVE  /\ loc[j] \in Nat /\ loc[j] % Pow2[o.dwidth] = el(j).bits
                      /\ j \in 0 .. o.dcount - 1
    OBVIOUS
  <2>1. j \in 0 .. o.dcount - 1
    <3>1. RVAL \div BYTE \in Int
      BY LaneType
    <3> QED
      BY <1>1, <3>1 DEF Lane
  <2> DEFINE start == j * BYTE * (o.dwidth \div BYTE)
  <2>2. loc[j] = X \div Pow2[start]
    BY <1>8 DEF Loc
  <2>3. start \in Nat /\ (X \div Pow2[start]) % Pow2[o.dwidth] = el(j).bits
    BY <1>9, <2>1
  <2> HIDE DEF start
  <2>4. X \div Pow2[start] \in Nat
    <3>1. X \in Nat /\ X \in Int
      BY <1>8
    <3>2. start \in Nat
      BY <2>3
    <3> QED
      BY <3>1, <3>2, ShiftType
  <2> QED
    BY <2>1, <2>2, <2>3, <2>4
<1>11. \A e \in New : \E j \in 0 .. o.dcount - 1 : e = el(j)
  OBVIOUS
<1>12. \A j \in 0 .. o.dcount - 1 :
         /\ el(j) \in New /\ el(j).lane = j /\ el(j).source = "reg"
         /\ el(j).dtype = o.dtype /\ el(j).dwidth = o.dwidth
         /\ el(j).bits \in Nat
  <2> SUFFICES ASSUME NEW j \in 0 .. o.dcount - 1 PROVE el(j).bits \in Nat
    OBVIOUS
  <2>1. j * o.dwidth \in Nat /\ v \in Int /\ o.dwidth \in Nat
    <3>1. j \in Nat /\ o.dwidth \in Nat
      BY <1>1
    <3> QED
      BY <1>1, <3>1
  <2> DEFINE s == j * o.dwidth
             q == v \div Pow2[s]
  <2>2. s \in Nat
    BY <2>1
  <2> HIDE DEF s
  <2>3. q \in Int
    BY <2>1, <2>2, ShiftType
  <2> HIDE DEF q
  <2>4. q % Pow2[o.dwidth] \in 0 .. Pow2[o.dwidth] - 1 /\ Pow2[o.dwidth] \in Nat
    BY <2>1, <2>3, ShiftType, Pow2Values
  <2> QED
    BY <2>4 DEF q, s
<1> HIDE DEF loc, el, New
<1>13. \A j \in Lane : j < o.dcount => loc[j] \in Nat
  BY <1>10
<1>14. \A j \in Lane : j < o.dcount => \E e \in New : e.lane = j
  BY <1>10, <1>12
<1>15. \A e \in New : e.bits \in Nat /\ e.dwidth \in Nat \ {0} /\ e.lane < o.dcount
  BY <1>1, <1>11, <1>12
<1>16. \A e \in New, x \in Array : e.lane \in Lane =>
         /\ OwnWidth(x, e) <= Measure(x, o.dtype, loc[e.lane])
         /\ x # "int" \/ ~IsShort(e) => OwnWidth(x, e) = Measure(x, o.dtype, loc[e.lane])
  <2> SUFFICES ASSUME NEW e \in New, NEW x \in Array, e.lane \in Lane
               PROVE  /\ OwnWidth(x, e) <= Measure(x, o.dtype, loc[e.lane])
                      /\ x # "int" \/ ~IsShort(e) =>
                           OwnWidth(x, e) = Measure(x, o.dtype, loc[e.lane])
    OBVIOUS
  <2>1. PICK j \in 0 .. o.dcount - 1 : e = el(j)
    BY <1>11
  <2>2. /\ e.lane = j /\ e.source = "reg" /\ e.dtype = o.dtype /\ e.dwidth = o.dwidth
        /\ j \in Lane /\ j < o.dcount
    BY <1>1, <1>12, <2>1
  <2>3. loc[j] \in Nat /\ e.bits = loc[j] % Pow2[e.dwidth]
    BY <1>10, <2>1, <2>2
  <2>4. /\ OwnWidth(x, e) <= Measure(x, e.dtype, loc[j])
        /\ (x = "int" /\ e.dtype \in {"UINT", "INT"} => e.dwidth >= W) =>
             OwnWidth(x, e) = Measure(x, e.dtype, loc[j])
    BY <1>1, <2>2, <2>3, ElementMeasured
  <2>5. x # "int" \/ ~IsShort(e) => (x = "int" /\ e.dtype \in {"UINT", "INT"} => e.dwidth >= W)
    BY <1>1, <2>2, WordSize DEF IsShort
  <2> QED
    BY <2>2, <2>4, <2>5
<1>17. /\ \A e \in elements' : e.bits \in Nat /\ e.dwidth \in Nat \ {0}
       /\ \A x \in Array, j \in Lane : LaneInv(x, j)'
  BY <1>1, <1>2, <1>3, <1>13, <1>14, <1>15, <1>16, Measured
<1> QED
  BY <1>2, <1>4, <1>7, <1>17 DEF OperandsInv

\* One element in lane 0, measured of the value at its address.
LEMMA MeasuredOnce ==
  ASSUME OperandsInv, NEW dtype, NEW value \in Nat, NEW e,
         Widen(dtype, 1, [j \in {0} |-> value]), elements' = elements \cup {e},
         e.lane = 0, e.source # "reg", e.bits \in Nat, e.dwidth \in Nat \ {0},
         \A x \in Array : OwnWidth(x, e) = Measure(x, dtype, value),
         UNCHANGED <<rval, beyond>>
  PROVE  OperandsInv'
<1> DEFINE loc == [j \in {0} |-> value]
           New == {e}
<1>1. loc[0] = value /\ \A j \in Lane : j < 1 => j = 0
  <2>1. RVAL \div BYTE \in Int
    BY LaneType
  <2> QED
    BY <2>1 DEF Lane
<1>2. Widen(dtype, 1, loc) /\ elements' = elements \cup New
  OBVIOUS
<1>3. \A x \in Array : OwnWidth(x, e) \in Int
  BY MeasureIs
<1> HIDE DEF loc
<1>4. \A j \in Lane : j < 1 => loc[j] \in Nat /\ \E f \in New : f.lane = j
  BY <1>1
<1>5. \A f \in New : f.bits \in Nat /\ f.dwidth \in Nat \ {0} /\ f.lane < 1
  OBVIOUS
<1>6. \A f \in New, x \in Array : f.lane \in Lane =>
        /\ OwnWidth(x, f) <= Measure(x, dtype, loc[f.lane])
        /\ x # "int" \/ ~IsShort(f) => OwnWidth(x, f) = Measure(x, dtype, loc[f.lane])
  BY <1>1, <1>3
<1> HIDE DEF New
<1>7. 1 \in Nat
  OBVIOUS
<1>8. \A f \in elements' : f.bits \in Nat /\ f.dwidth \in Nat \ {0}
  BY <1>2, <1>5 DEF OperandsInv
<1>9. \A x \in Array, j \in Lane : LaneInv(x, j)'
  BY <1>2, <1>4, <1>5, <1>6, <1>7, Measured
<1> QED
  BY <1>8, <1>9 DEF OperandsInv

\* The single element of an operand that is not a register.
LEMMA ObservedOnce ==
  ASSUME NEW source, NEW dtype, NEW d \in Nat, NEW v \in Nat, Observe(source, dtype, d, 1, v)
  PROVE  elements' = elements \cup
           {[source |-> source, lane |-> 0, dtype |-> dtype, dwidth |-> d, bits |-> v % Pow2[d]]}
<1> DEFINE el(j) == [source |-> source, lane |-> j, dtype |-> dtype, dwidth |-> d,
                     bits |-> (v \div Pow2[j * d]) % Pow2[d]]
<1>1. elements' = elements \cup {el(j) : j \in 0 .. 1 - 1}
  BY DEF Observe
<1>2. {el(j) : j \in 0 .. 1 - 1} = {el(0)}
  <2>1. 0 .. 1 - 1 = {0}
    OBVIOUS
  <2> HIDE DEF el
  <2> QED
    BY <2>1
<1>3. (v \div Pow2[0 * d]) = v
  <2>1. 0 * d = 0 /\ v \div 1 = v
    OBVIOUS
  <2> QED
    BY <2>1, Pow2Values
<1> QED
  BY <1>1, <1>2, <1>3

\* case iarg_imm
LEMMA ReadImmediateStep ==
  ASSUME OperandsInv, NEW dtype \in {"UINT", "INT"}, NEW v \in WordValue,
         ReadImmediate(dtype, v)
  PROVE  OperandsInv'
<1> DEFINE e == [source |-> "imm", lane |-> 0, dtype |-> dtype, dwidth |-> W,
                 bits |-> v % Pow2[W]]
<1>1. v \in Nat /\ v \in Int /\ W \in Nat \ {0} /\ W \in Nat /\ v \div 1 = v
  <2>1. v \in Nat
    BY OperandAssumption
  <2> QED
    BY <2>1, WordSize
<1>2. elements' = elements \cup {e}
  BY <1>1, ObservedOnce DEF ReadImmediate
<1>3. e.bits = v % Pow2[e.dwidth] /\ e.dwidth = W /\ e.dtype = dtype
      /\ e.lane = 0 /\ e.source = "imm"
  OBVIOUS
<1>4. Widen(dtype, 1, [j \in {0} |-> v]) /\ UNCHANGED <<rval, beyond>>
  BY DEF ReadImmediate
<1> HIDE DEF e
<1>5. /\ e.bits \in Nat
      /\ \A x \in Array : OwnWidth(x, e) = Measure(x, dtype, v)
  <2>1. e.dwidth \in Nat \ {0} /\ e.dtype \in {"UINT", "INT"} /\ W >= W
    BY <1>1, <1>3
  <2>2. e.bits \in Nat
    BY <1>1, <1>3, ShiftType, Pow2Values
  <2>3. ASSUME NEW x \in Array PROVE OwnWidth(x, e) = Measure(x, dtype, v)
    BY <1>1, <1>3, <2>1, ElementMeasured
  <2> QED
    BY <2>2, <2>3
<1> QED
  BY <1>1, <1>2, <1>3, <1>4, <1>5, MeasuredOnce

\* case iarg_mem: memory of a size with a case is a number without sign.
LEMMA ReadMemoryStep ==
  ASSUME OperandsInv, NEW size, NEW v \in WordValue, ReadMemory(size, v)
  PROVE  OperandsInv'
<1> DEFINE value == memory_getvalue(v, size)
           d == IF size \in NarrowSize THEN BYTE * size ELSE W
           e == [source |-> "mem", lane |-> 0,
                 dtype |-> IF size \in NarrowSize THEN "UINT" ELSE "INT",
                 dwidth |-> d, bits |-> v % Pow2[d]]
<1>1. v \in Nat /\ v \in Int /\ W \in Nat \ {0} /\ W \in Nat /\ v \div 1 = v
  <2>1. v \in Nat
    BY OperandAssumption
  <2> QED
    BY <2>1, WordSize
<1>2. d \in Nat \ {0} /\ d \in Nat /\ (size \in NarrowSize => d < W)
  <2>1. CASE size \in NarrowSize
    <3>1. size \in Nat \ {0} /\ BYTE \in Nat \ {0} /\ BYTE * size < W
      BY <2>1, WordAssumption
    <3>2. BYTE * size \in Nat \ {0}
      BY <3>1
    <3> QED
      BY <2>1, <3>1, <3>2
  <2>2. CASE size \notin NarrowSize
    BY <1>1, <2>2
  <2> QED
    BY <2>1, <2>2
<1> HIDE DEF d
<1>3. value = v % Pow2[d] /\ value \in Nat /\ value < Pow2[d] /\ Pow2[d] \in Nat
  <2>1. value = v % Pow2[d]
    BY DEF memory_getvalue, Wrap, d
  <2>2. Pow2[d] \in Nat \ {0}
    BY <1>2, Pow2Values
  <2> QED
    BY <1>1, <2>1, <2>2, Remainder
<1>4. elements' = elements \cup {e}
  <2>1. CASE size \in NarrowSize
    <3>1. Observe("mem", "UINT", d, 1, v)
      BY <2>1 DEF ReadMemory, d
    <3>2. e = [source |-> "mem", lane |-> 0, dtype |-> "UINT", dwidth |-> d, bits |-> v % Pow2[d]]
      BY <2>1
    <3> QED
      BY <1>1, <1>2, <3>1, <3>2, ObservedOnce
  <2>2. CASE size \notin NarrowSize
    <3>1. Observe("mem", "INT", d, 1, v)
      BY <2>2 DEF ReadMemory, d
    <3>2. e = [source |-> "mem", lane |-> 0, dtype |-> "INT", dwidth |-> d, bits |-> v % Pow2[d]]
      BY <2>2
    <3> QED
      BY <1>1, <1>2, <3>1, <3>2, ObservedOnce
  <2> QED
    BY <2>1, <2>2
<1>5. /\ e.bits = value /\ e.dwidth = d /\ e.lane = 0 /\ e.source = "mem"
      /\ size \in NarrowSize => e.dtype = "UINT"
      /\ size \notin NarrowSize => e.dtype = "INT" /\ d = W
  BY <1>3 DEF d
<1>6. Widen("INT", 1, [j \in {0} |-> value]) /\ UNCHANGED <<rval, beyond>>
  BY DEF ReadMemory
<1> HIDE DEF e
<1>7. ASSUME NEW x \in Array PROVE OwnWidth(x, e) = Measure(x, "INT", value)
  <2>1. CASE size \in NarrowSize
    <3>1. PICK own \in Nat : OwnWidth(x, e) = Measure(x, "UINT", own) /\ own = value
      <4>1. e.bits \in Nat /\ e.dwidth \in Nat \ {0} /\ e.dtype = "UINT"
        BY <1>2, <1>3, <1>5, <2>1
      <4> QED
        BY <1>5, <4>1, OwnWidthIs
    <3>2. CASE x = "int"
      <4>1. value < Pow2[W - 1] /\ value < Pow2[W]
        <5>1. W - 1 \in Nat /\ d <= W - 1 /\ d <= W
          BY <1>1, <1>2, <2>1
        <5>2. Pow2[d] <= Pow2[W - 1] /\ Pow2[d] <= Pow2[W]
          BY <1>1, <1>2, <5>1, Pow2Grows
        <5> QED
          BY <1>1, <1>3, <5>1, <5>2, Pow2Values
      <4>2. Wrap(value) = value
        <5>1. Pow2[W] \in Nat \ {0}
          BY <1>1, Pow2Values
        <5>2. value \in 0 .. Pow2[W] - 1
          BY <1>3, <4>1, <5>1
        <5> QED
          BY <5>1, <5>2, Small DEF Wrap
      <4>3. Signed(Wrap(value)) = value
        BY <4>1, <4>2 DEF Signed
      <4>4. Measure(x, "UINT", value) = Width(Wrap(value))
        BY <1>3, <3>2, MeasureIs
      <4>5. Measure(x, "INT", value) = Width(Signed(Wrap(value)))
        BY <1>3, <3>2, MeasureIs
      <4> QED
        BY <3>1, <4>2, <4>3, <4>4, <4>5
    <3>3. CASE x # "int"
      BY <3>1, <3>3 DEF Measure
    <3> QED
      BY <3>2, <3>3
  <2>2. CASE size \notin NarrowSize
    <3>1. value % Pow2[e.dwidth] = value
      <4>1. Pow2[d] \in Nat \ {0} /\ value \in 0 .. Pow2[d] - 1
        BY <1>2, <1>3, Pow2Values
      <4> QED
        BY <1>5, <4>1, Small
    <3>2. e.dwidth \in Nat \ {0} /\ e.dtype = "INT" /\ e.dwidth = W /\ W >= W
      BY <1>1, <1>5, <2>2
    <3> QED
      BY <1>3, <1>5, <3>1, <3>2, ElementMeasured
  <2> QED
    BY <2>1, <2>2
<1>8. e.bits \in Nat /\ e.dwidth \in Nat \ {0} /\ e.source # "reg"
  BY <1>2, <1>3, <1>5
<1> QED
  BY <1>3, <1>4, <1>5, <1>6, <1>7, <1>8, MeasuredOnce

\* Every reachable state.
LEMMA OperandsInvariant == Spec => []OperandsInv
<1>1. Init => OperandsInv
  <2> SUFFICES ASSUME Init PROVE OperandsInv
    OBVIOUS
  <2>1. rval \in Nat /\ beyond \in Nat
    BY OperandAssumption DEF Init
  <2>2. \A j \in Lane : In(j) = {}
    BY DEF Init, In
  <2>3. \A x \in Array, j \in Lane : width[x][j] = -1
    BY DEF Init, Unmeasured
  <2>4. \A x \in Array, j \in Lane : LaneInv(x, j)
    BY <2>2, <2>3, WordSize DEF LaneInv
  <2> QED
    BY <2>1, <2>4 DEF OperandsInv, Init
<1>2. OperandsInv /\ [Next]_vars => OperandsInv'
  <2> SUFFICES ASSUME OperandsInv, [Next]_vars PROVE OperandsInv'
    OBVIOUS
  <2>1. ASSUME NEW o \in Reg, NEW v \in RegValue[o.size], ReadRegister(o, v)
        PROVE  OperandsInv'
    BY <2>1, ReadRegisterStep
  <2>2. ASSUME NEW dtype \in {"UINT", "INT"}, NEW v \in WordValue, ReadImmediate(dtype, v)
        PROVE  OperandsInv'
    BY <2>2, ReadImmediateStep
  <2>3. ASSUME NEW size \in MemSize, NEW v \in WordValue, ReadMemory(size, v)
        PROVE  OperandsInv'
    BY <2>3, ReadMemoryStep
  <2>4. CASE Drain
    <3>1. \A x \in Array, j \in Lane : width'[x][j] = -1
      <4> SUFFICES ASSUME NEW x \in Array, NEW j \in Lane PROVE width'[x][j] = -1
        OBVIOUS
      <4>1. width'[x][j] = IF \A k \in 0 .. j : width[x][k] >= 0 THEN -1 ELSE width[x][j]
        BY <2>4 DEF Drain
      <4>2. /\ width[x][j] \in Int /\ width[x][j] >= -1
            /\ width[x][j] >= 0 => \A k \in 0 .. j - 1 : width[x][k] >= 0
        BY DEF OperandsInv, LaneInv
      <4>3. j \in Nat /\ \A k \in 0 .. j : k \in 0 .. j - 1 \/ k = j
        <5>1. RVAL \div BYTE \in Int
          BY LaneType
        <5> QED
          BY <5>1 DEF Lane
      <4>4. CASE width[x][j] >= 0
        BY <4>1, <4>2, <4>3, <4>4
      <4>5. CASE ~(width[x][j] >= 0)
        BY <4>1, <4>2, <4>3, <4>5
      <4> QED
        BY <4>4, <4>5
    <3>2. elements' = {} /\ \A j \in Lane : In(j)' = {}
      BY <2>4 DEF Drain, In
    <3>3. \A x \in Array, j \in Lane : LaneInv(x, j)'
      BY <3>1, <3>2, WordSize DEF LaneInv
    <3> QED
      BY <2>4, <3>2, <3>3 DEF OperandsInv, Drain
  <2>5. CASE UNCHANGED vars
    <3>1. \A x \in Array, j \in Lane : LaneInv(x, j)' <=> LaneInv(x, j)
      BY <2>5 DEF vars, LaneInv, In
    <3> QED
      BY <2>5, <3>1 DEF vars, OperandsInv
  <2> QED
    BY <2>1, <2>2, <2>3, <2>4, <2>5 DEF Next
<1> QED
  BY <1>1, <1>2, PTL DEF Spec

\* The lanes of an array without short integers, by name.
LEMMA IsWidestOf ==
  ASSUME OperandsInv, NEW x \in Array, NEW j \in Lane,
         x # "int" \/ \A e \in In(j) : ~IsShort(e)
  PROVE  IsWidest(x, j)
<1> DEFINE S == OwnWidths(x, j) \cup {-1}
           a == width[x][j]
<1>1. LaneInv(x, j) /\ \A e \in elements : e.bits \in Nat /\ e.dwidth \in Nat \ {0}
  BY DEF OperandsInv
<1>2. \A e \in In(j) : OwnWidth(x, e) \in Int
  BY <1>1, OwnWidthIs, MeasureIs DEF In
<1>3. \A w \in S : w \in Int
  BY <1>2 DEF OwnWidths
<1>4. a \in Int /\ a \in S /\ \A w \in S : w <= a
  BY <1>1 DEF LaneInv, OwnWidths
<1> HIDE DEF S, a
<1>5. \A b \in S : (\A w \in S : b >= w) => b = a
  BY <1>3, <1>4
<1>6. \A w \in S : a >= w
  BY <1>3, <1>4
<1>7. Max(S) = a
  BY <1>4, <1>5, <1>6 DEF Max
<1> QED
  BY <1>7 DEF IsWidest, S, a

\* A lane has the width of its widest element, and of nothing else.
THEOREM WidestElementTheorem == Spec => []WidestElement
<1>1. OperandsInv => WidestElement
  BY IsWidestOf DEF WidestElement
<1> QED
  BY <1>1, OperandsInvariant, PTL

\* A lane is never narrower than one of its elements, short integers included.
THEOREM NeverTooNarrowTheorem == Spec => []NeverTooNarrow
<1>1. OperandsInv => NeverTooNarrow
  <2> SUFFICES ASSUME OperandsInv, NEW x \in Array, NEW j \in Lane, NEW e \in In(j)
               PROVE  width[x][j] >= OwnWidth(x, e)
    BY DEF NeverTooNarrow, OwnWidths
  <2>1. LaneInv(x, j) /\ e.bits \in Nat /\ e.dwidth \in Nat \ {0}
    BY DEF OperandsInv, In
  <2>2. OwnWidth(x, e) \in Int
    BY <2>1, OwnWidthIs, MeasureIs
  <2> QED
    BY <2>1, <2>2 DEF LaneInv
<1> QED
  BY <1>1, OperandsInvariant, PTL

\* A width is the index of an entry, whatever the operands, where the
\* significands are shorter than their histogram.
THEOREM WithinHistogramTheorem == Spec => []WithinHistogram
<1>1. OperandsInv => WithinHistogram
  <2> SUFFICES ASSUME OperandsInv, NEW x \in Array, NEW j \in Lane,
                      x \in {"sig_l", "sig_m"} =>
                        \A e \in In(j) : e.dtype \in DOMAIN Format => Format[e.dtype].sig < ROWS[x]
               PROVE  width[x][j] < ROWS[x]
    BY DEF WithinHistogram
  <2>1. LaneInv(x, j) /\ \A e \in elements : e.bits \in Nat /\ e.dwidth \in Nat \ {0}
    BY DEF OperandsInv
  <2>2. width[x][j] \in Int /\ ROWS[x] \in Nat /\ W \in Nat /\ ROWS["int"] \in Nat
    BY <2>1, HistogramAssumption, WordSize DEF LaneInv, Array
  <2>3. CASE x = "int"
    BY <2>1, <2>2, <2>3, HistogramAssumption DEF LaneInv
  <2>4. CASE x # "int" /\ width[x][j] = -1
    BY <2>2, <2>4
  <2>5. CASE x # "int" /\ width[x][j] # -1
    <3>1. PICK e \in In(j) : width[x][j] = OwnWidth(x, e)
      BY <2>1, <2>5 DEF LaneInv
    <3>2. e.bits \in Nat /\ e.dwidth \in Nat \ {0}
      BY <2>1 DEF In
    <3>3. PICK loc \in Nat : OwnWidth(x, e) = Measure(x, e.dtype, loc)
      BY <3>2, OwnWidthIs
    <3>4. HasWidth(x, e.dtype) /\ e.dtype \in DOMAIN Format
      BY <2>5, <3>1, <3>3, MeasureIs DEF HasWidth
    <3>5. /\ x \in {"sig_l", "sig_m"} => width[x][j] <= Format[e.dtype].sig
          /\ x = "exp" => width[x][j] <= Format[e.dtype].exp
      BY <3>1, <3>3, <3>4, MeasureIs
    <3>6. Format[e.dtype].sig \in Nat /\ Format[e.dtype].exp \in Nat
      BY <3>4, FormatSize
    <3>7. x \in {"sig_l", "sig_m", "exp"}
      BY <2>5 DEF Array
    <3> QED
      BY <2>2, <3>4, <3>5, <3>6, <3>7, HistogramAssumption
  <2> QED
    BY <2>3, <2>4, <2>5
<1> QED
  BY <1>1, OperandsInvariant, PTL
=============================================================================
