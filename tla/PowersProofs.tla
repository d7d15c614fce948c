---------------------------- MODULE PowersProofs ----------------------------
(***************************************************************************)
(* Induction over the naturals in a form that needs no operator parameter, *)
(* what a recursive function computes, and the laws of powers that follow; *)
(* and the quotients and remainders of shifts.                             *)
(***************************************************************************)
EXTENDS Powers, WellFoundedInduction, TLAPS

\* The naturals are well ordered.
LEMMA LeastNatural ==
  ASSUME NEW S \in SUBSET Nat, S # {}
  PROVE  \E n \in S : \A m \in S : n <= m
<1>1. PICK n \in S : \A m \in S : ~ (<<m, n>> \in OpToRel(<, Nat))
  BY WFMin, NatLessThanWellFounded, Zenon
<1>2. \A m \in S : ~ (m < n)
  BY <1>1, Zenon DEF OpToRel
<1> QED
  BY <1>2

\* A set that holds 0 and the successor of each of its numbers holds them all.
LEMMA NaturalsByInduction ==
  ASSUME NEW S, 0 \in S, \A n \in Nat : n \in S => n + 1 \in S
  PROVE  Nat \subseteq S
<1> DEFINE missing == Nat \ S
<1>1. SUFFICES ASSUME missing # {} PROVE FALSE
  OBVIOUS
<1>2. PICK n \in missing : \A m \in missing : n <= m
  BY <1>1, LeastNatural
<1>3. n # 0 /\ n - 1 \in Nat /\ n - 1 \notin missing
  BY <1>2
<1> QED
  BY <1>3

\* g is the function that starts with v0 and takes a step for every number.
Computes(g, V, v0, step) ==
  /\ g \in [Nat -> V] /\ g[0] = v0
  /\ \A n \in Nat : g[n + 1] = step[n + 1][g[n]]

(***************************************************************************)
(* Every start and step define a function on the naturals: it is pieced    *)
(* together from its finite parts, which agree with each other.            *)
(***************************************************************************)
LEMMA RecursiveFunction ==
  ASSUME NEW V, NEW v0 \in V, NEW step \in [Nat -> [V -> V]]
  PROVE  \E g : Computes(g, V, v0, step)
<1> DEFINE Approx(n, h) ==
      /\ h \in [0 .. n -> V] /\ h[0] = v0
      /\ \A i \in 0 .. n - 1 : h[i + 1] = step[i + 1][h[i]]
<1>1. \A n \in Nat : \E h : Approx(n, h)
  <2> DEFINE S == {n \in Nat : \E h : Approx(n, h)}
  <2>1. 0 \in S
    <3>1. Approx(0, [i \in 0 .. 0 |-> v0])
      OBVIOUS
    <3> QED
      BY <3>1
  <2>2. ASSUME NEW n \in Nat, n \in S  PROVE n + 1 \in S
    <3>1. PICK h : Approx(n, h)
      BY <2>2
    <3> DEFINE last == step[n + 1][h[n]]
               k == [i \in 0 .. n + 1 |-> IF i <= n THEN h[i] ELSE last]
    <3>2. n \in 0 .. n /\ h[n] \in V /\ n + 1 \in Nat
      BY <3>1
    <3>3. last \in V
      BY <3>2
    <3> HIDE DEF last
    <3>4. k \in [0 .. n + 1 -> V] /\ k[0] = v0
      BY <3>1, <3>3
    <3>5. ASSUME NEW i \in 0 .. (n + 1) - 1  PROVE k[i + 1] = step[i + 1][k[i]]
      <4>1. k[i] = h[i] /\ i \in 0 .. n /\ i + 1 \in 0 .. n + 1
        OBVIOUS
      <4>2. CASE i = n
        <5>1. k[i + 1] = last
          BY <4>1, <4>2
        <5> QED
          BY <4>1, <4>2, <5>1 DEF last
      <4>3. CASE i # n
        <5>1. i \in 0 .. n - 1 /\ k[i + 1] = h[i + 1]
          BY <4>3
        <5> QED
          BY <4>1, <5>1, <3>1
      <4> QED
        BY <4>2, <4>3
    <3> HIDE DEF k
    <3>6. Approx(n + 1, k)
      BY <3>4, <3>5
    <3>7. n + 1 \in Nat
      OBVIOUS
    <3> QED
      BY <3>6, <3>7
  <2> HIDE DEF S
  <2>3. Nat \subseteq S
    BY <2>1, <2>2, NaturalsByInduction
  <2> QED
    BY <2>3 DEF S
<1>2. ASSUME NEW n \in Nat, NEW h, NEW k, Approx(n, h), Approx(n + 1, k)
      PROVE  \A i \in 0 .. n : h[i] = k[i]
  <2> DEFINE S == {i \in Nat : i <= n => h[i] = k[i]}
  <2>1. 0 \in S
    BY <1>2
  <2>2. ASSUME NEW i \in Nat, i \in S  PROVE i + 1 \in S
    <3>1. CASE i + 1 <= n
      <4>1. i \in 0 .. n - 1 /\ i \in 0 .. (n + 1) - 1 /\ h[i] = k[i]
        BY <3>1, <2>2
      <4>2. h[i + 1] = step[i + 1][h[i]]
        BY <4>1, <1>2
      <4>3. k[i + 1] = step[i + 1][k[i]]
        BY <4>1, <1>2
      <4> QED
        BY <4>1, <4>2, <4>3
    <3>2. CASE ~(i + 1 <= n)
      BY <3>2
    <3> QED
      BY <3>1, <3>2
  <2> HIDE DEF S
  <2>3. Nat \subseteq S
    BY <2>1, <2>2, NaturalsByInduction
  <2> QED
    BY <2>3 DEF S
<1> DEFINE a == [n \in Nat |-> CHOOSE h : Approx(n, h)]
           g == [n \in Nat |-> a[n][n]]
<1>3. \A n \in Nat : Approx(n, a[n])
  BY <1>1
<1> HIDE DEF a
<1>4. g \in [Nat -> V] /\ g[0] = v0
  BY <1>3
<1>5. ASSUME NEW n \in Nat  PROVE g[n + 1] = step[n + 1][g[n]]
  <2>1. n + 1 \in Nat /\ n \in 0 .. n /\ n \in 0 .. (n + 1) - 1
    OBVIOUS
  <2>2. Approx(n, a[n]) /\ Approx(n + 1, a[n + 1])
    BY <2>1, <1>3
  <2>3. a[n + 1][n + 1] = step[n + 1][a[n + 1][n]]
    BY <2>1, <2>2
  <2> HIDE DEF Approx
  <2>4. a[n][n] = a[n + 1][n]
    BY <2>1, <2>2, <1>2
  <2> QED
    BY <2>1, <2>3, <2>4
<1> HIDE DEF g
<1>6. Computes(g, V, v0, step)
  BY <1>4, <1>5 DEF Computes
<1> QED
  BY <1>6

-----------------------------------------------------------------------------
\* What the recursion of Pow computes.
LEMMA PowRecursion ==
  ASSUME NEW b \in Nat
  PROVE  /\ Pow(b, 0) = 1
         /\ \A n \in Nat : Pow(b, n + 1) = b * Pow(b, n) /\ Pow(b, n) \in Nat
<1> DEFINE step == [i \in Nat |-> [v \in Nat |-> b * v]]
           F(g) == [i \in Nat |-> IF i = 0 THEN 1 ELSE b * g[i - 1]]
           power == CHOOSE g : g = F(g)
<1>0. PICK g : Computes(g, Nat, 1, step)
  <2>1. step \in [Nat -> [Nat -> Nat]] /\ 1 \in Nat
    OBVIOUS
  <2> HIDE DEF step
  <2> QED
    BY <2>1, RecursiveFunction
<1>1. g \in [Nat -> Nat] /\ g[0] = 1 /\ \A n \in Nat : g[n + 1] = step[n + 1][g[n]]
  BY <1>0 DEF Computes
<1>2. ASSUME NEW n \in Nat  PROVE g[n + 1] = b * g[n]
  <2>1. n + 1 \in Nat /\ g[n] \in Nat
    BY <1>1
  <2>2. g[n + 1] = step[n + 1][g[n]]
    BY <1>1
  <2> QED
    BY <2>1, <2>2
<1>3. \A n \in Nat : n # 0 => g[n] = b * g[n - 1]
  <2>1. ASSUME NEW n \in Nat, n # 0  PROVE g[n] = b * g[n - 1]
    <3>1. n - 1 \in Nat /\ n = (n - 1) + 1
      BY <2>1
    <3> QED
      BY <3>1, <1>2
  <2> QED
    BY <2>1
<1>4. g = F(g)
  BY <1>1, <1>3
<1>5. power = F(power)
  BY <1>4
<1>6. \A n \in Nat : Pow(b, n) = power[n]
  BY DEF Pow
<1> HIDE DEF power
<1>7. \A n \in Nat : power[n] = IF n = 0 THEN 1 ELSE b * power[n - 1]
  BY <1>5
<1>8. \A n \in Nat : power[n + 1] = b * power[n]
  BY <1>7
<1> DEFINE S == {n \in Nat : power[n] \in Nat}
<1>9. 0 \in S /\ \A n \in Nat : n \in S => n + 1 \in S
  BY <1>7, <1>8
<1> HIDE DEF S
<1>10. Nat \subseteq S
  BY <1>9, NaturalsByInduction
<1>11. \A n \in Nat : power[n] \in Nat
  BY <1>10 DEF S
<1>12. Pow(b, 0) = 1
  BY <1>6, <1>7
<1>13. ASSUME NEW n \in Nat  PROVE Pow(b, n + 1) = b * Pow(b, n) /\ Pow(b, n) \in Nat
  <2>1. n + 1 \in Nat
    OBVIOUS
  <2> QED
    BY <2>1, <1>6, <1>8, <1>11
<1> QED
  BY <1>12, <1>13

\* A power of a positive base is positive.
LEMMA PowPositive ==
  ASSUME NEW b \in Nat \ {0}, NEW n \in Nat
  PROVE  Pow(b, n) \in Nat \ {0}
<1> DEFINE S == {i \in Nat : Pow(b, i) >= 1}
<1>1. 0 \in S
  BY PowRecursion
<1>2. ASSUME NEW i \in Nat, i \in S  PROVE i + 1 \in S
  <2>1. Pow(b, i) \in Nat /\ Pow(b, i) >= 1 /\ Pow(b, i + 1) = b * Pow(b, i)
    BY <1>2, PowRecursion
  <2>2. Pow(b, i + 1) >= 1
    BY <2>1
  <2> QED
    BY <2>2
<1> HIDE DEF S
<1>3. Nat \subseteq S
  BY <1>1, <1>2, NaturalsByInduction
<1> QED
  BY <1>3, PowRecursion DEF S

\* Shifting by m and then by n is shifting by m + n.
LEMMA PowSum ==
  ASSUME NEW b \in Nat, NEW m \in Nat, NEW n \in Nat
  PROVE  Pow(b, m + n) = Pow(b, m) * Pow(b, n)
<1> DEFINE S == {i \in Nat : Pow(b, m + i) = Pow(b, m) * Pow(b, i)}
<1>1. 0 \in S
  BY PowRecursion
<1>2. ASSUME NEW i \in Nat, i \in S  PROVE i + 1 \in S
  <2> DEFINE x == Pow(b, m)  y == Pow(b, i)
  <2>1. Pow(b, m + i) = x * y /\ x \in Nat /\ y \in Nat
    BY <1>2, PowRecursion
  <2>2. m + i \in Nat /\ m + (i + 1) = (m + i) + 1
    OBVIOUS
  <2>3. Pow(b, m + (i + 1)) = b * (x * y) /\ Pow(b, i + 1) = b * y
    BY <2>1, <2>2, PowRecursion
  <2> HIDE DEF x, y
  <2>4. b * (x * y) = x * (b * y)
    BY <2>1
  <2> QED
    BY <2>3, <2>4 DEF x, y
<1> HIDE DEF S
<1>3. Nat \subseteq S
  BY <1>1, <1>2, NaturalsByInduction
<1> QED
  BY <1>3 DEF S

-----------------------------------------------------------------------------
(***************************************************************************)
(* Quotients and remainders.                                               *)
(***************************************************************************)
LEMMA Product ==
  ASSUME NEW p \in Nat, NEW q \in Nat
  PROVE  p * q \in Nat /\ p * q = q * p /\ (q >= 1 => p * q >= p)
<1>1. CASE q = 0
  BY <1>1
<1>2. CASE q >= 1
  BY <1>2
<1> QED
  BY <1>1, <1>2

LEMMA Division ==
  ASSUME NEW x \in Nat, NEW p \in Nat \ {0}
  PROVE  /\ x \div p \in Nat /\ x % p \in 0 .. p - 1
         /\ x = p * (x \div p) + (x % p)
OBVIOUS

\* There is one way to write a number as a multiple and a remainder.
LEMMA OneWay ==
  ASSUME NEW p \in Nat \ {0}, NEW q \in Nat, NEW r \in 0 .. p - 1,
         NEW y \in Nat, NEW z \in 0 .. p - 1, p * q + r = p * y + z
  PROVE  q = y /\ r = z
<1>1. ~ (q < y)
  <2>1. SUFFICES ASSUME q + 1 <= y PROVE FALSE
    OBVIOUS
  <2>2. p * (q + 1) <= p * y /\ p * (q + 1) = p * q + p
    BY <2>1
  <2> QED
    BY <2>2, Product
<1>2. ~ (y < q)
  <2>1. SUFFICES ASSUME y + 1 <= q PROVE FALSE
    OBVIOUS
  <2>2. p * (y + 1) <= p * q /\ p * (y + 1) = p * y + p
    BY <2>1
  <2> QED
    BY <2>2, Product
<1>3. q = y
  BY <1>1, <1>2
<1> QED
  BY <1>3, Product

\* The next digit: what is left below p * b is below p, and a digit times p.
LEMMA Digit ==
  ASSUME NEW x \in Nat, NEW p \in Nat \ {0}, NEW b \in Nat \ {0}
  PROVE  x % (p * b) = (x % p) + (((x \div p) % b) * p)
<1> DEFINE y == x \div p  r == x % p  z == y \div b  d == y % b
<1>1. y \in Nat /\ r \in 0 .. p - 1 /\ x = p * y + r
  BY Division
<1> HIDE DEF y, r
<1>2. z \in Nat /\ d \in 0 .. b - 1 /\ y = b * z + d
  BY <1>1, Division
<1> HIDE DEF z, d
<1>3. p * b \in Nat \ {0} /\ p * z \in Nat /\ p * d \in Nat /\ (p * b) * z \in Nat
  BY <1>2, Product
<1>4. x = (p * b) * z + (p * d + r)
  <2>1. p * (b * z + d) = p * (b * z) + p * d
    BY <1>2
  <2>2. p * (b * z) = (p * b) * z
    BY <1>2
  <2> QED
    BY <1>1, <1>2, <2>1, <2>2
<1>5. p * d + r \in 0 .. (p * b) - 1
  <2>1. p * d + p <= p * b
    <3>1. p * (d + 1) <= p * b /\ p * (d + 1) = p * d + p
      BY <1>2
    <3> QED
      BY <3>1
  <2> QED
    BY <1>1, <1>3, <2>1
<1>6. x % (p * b) \in 0 .. (p * b) - 1 /\ x = (p * b) * (x \div (p * b)) + (x % (p * b))
      /\ x \div (p * b) \in Nat
  BY <1>3, Division
<1>7. x % (p * b) = p * d + r
  <2> DEFINE n == p * b  q == x \div n  s == x % n  t == p * d + r
  <2>1. n \in Nat \ {0} /\ q \in Nat /\ s \in 0 .. n - 1 /\ t \in 0 .. n - 1
        /\ n * z + t = n * q + s
    BY <1>3, <1>4, <1>5, <1>6
  <2> HIDE DEF n, q, s, t
  <2>2. s = t
    BY <1>2, <2>1, OneWay
  <2> QED
    BY <2>2 DEF n, s, t
<1> QED
  BY <1>1, <1>2, <1>7 DEF y, r, d
=============================================================================
