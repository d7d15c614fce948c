------------------------- MODULE TrickleConfigProofs --------------------------
(***************************************************************************)
(* mtk_trickle_timer_config for every width of the clock: the longest      *)
(* interval it computes fits half the clock; the generic count of leading  *)
(* zeros gives the largest Imax that does, the counts for one width one    *)
(* whose interval is a quarter of the clock at least.                      *)
(***************************************************************************)
EXTENDS TrickleConfig, PowersProofs, TLAPS

\* The laws of the powers of two below the width.
LEMMA PowersOfTwo ==
  \A m, n \in 0 .. Width :
    /\ Pow(2, m) \in Nat \ {0} /\ Pow(2, 0) = 1 /\ Pow(2, 1) = 2
    /\ m + n <= Width => Pow(2, m + n) = Pow(2, m) * Pow(2, n)
<1>1. Pow(2, 0) = 1 /\ Pow(2, 1) = 2
  <2>1. Pow(2, 0 + 1) = 2 * Pow(2, 0) /\ Pow(2, 0) = 1
    BY PowRecursion
  <2> QED
    BY <2>1
<1> QED
  BY <1>1, PowPositive, PowSum

\* Powers of two up to the clock's width, one at a time.
LEMMA PowerRange ==
  ASSUME NEW n \in 0 .. Width
  PROVE  Pow(2, n) \in Nat /\ Pow(2, n) >= 1 /\ Pow(2, Width - n) \in Nat /\ Pow(2, Width - n) >= 1
<1>1. n \in 0 .. Width /\ Width - n \in 0 .. Width
  BY ClockAssumption
<1>2. Pow(2, n) \in Nat \ {0} /\ Pow(2, Width - n) \in Nat \ {0}
  BY <1>1, PowersOfTwo
<1> QED
  BY <1>2

\* The clock holds n bits above the Width - n lower ones.
LEMMA PowerSplit ==
  ASSUME NEW n \in 0 .. Width
  PROVE  Pow(2, n) * Pow(2, Width - n) = ClockMod
<1>1. Width - n \in 0 .. Width /\ n + (Width - n) = Width
  BY ClockAssumption
<1>2. Pow(2, n + (Width - n)) = Pow(2, n) * Pow(2, Width - n)
  BY <1>1, PowersOfTwo
<1> QED
  BY <1>1, <1>2, ClockAssumption

\* One doubling is one power more.
LEMMA PowerDoubles ==
  ASSUME NEW n \in 0 .. Width - 1
  PROVE  Pow(2, n + 1) = 2 * Pow(2, n) /\ Pow(2, n) \in Nat
<1>1. n \in 0 .. Width /\ 1 \in 0 .. Width /\ n + 1 <= Width
  BY ClockAssumption
<1>2. Pow(2, n + 1) = Pow(2, n) * Pow(2, 1) /\ Pow(2, 1) = 2 /\ Pow(2, n) \in Nat
  BY <1>1, PowersOfTwo
<1> QED
  BY <1>2

\* The clock is twice its half, and CLOCK_MAX >> 1 is just below it.
LEMMA ClockHalves ==
  /\ ClockMod >= 2
  /\ Pow(2, Width - 1) \in Nat /\ ClockMod = 2 * Pow(2, Width - 1)
  /\ HalfMax = Pow(2, Width - 1) - 1
<1>1. Pow(2, Width - 1) \in Nat /\ Pow(2, Width - 1) >= 1
  BY PowerRange, ClockAssumption
<1>2. Width - 1 \in 0 .. Width - 1 /\ (Width - 1) + 1 = Width
  BY ClockAssumption
<1>4. ClockMod = 2 * Pow(2, Width - 1)
  BY <1>2, PowerDoubles, ClockAssumption
<1> QED
  BY <1>1, <1>4 DEF HalfMax

\* Order is kept, and reflected, by a positive factor.
LEMMA Monotone ==
  ASSUME NEW a \in Nat, NEW b \in Nat, NEW p \in Nat, p >= 1
  PROVE  (a < b => a * p < b * p) /\ (a <= b => a * p <= b * p)
         /\ (a * p < b * p => a < b) /\ a * p >= a /\ a * p \in Nat
<1>1. a <= b => a * p <= b * p
  OBVIOUS
<1>2. a + 1 <= b => (a + 1) * p <= b * p
  OBVIOUS
<1>3. (a + 1) * p = a * p + p /\ a * p \in Nat /\ b * p \in Nat
  OBVIOUS
<1>4. b <= a => b * p <= a * p
  OBVIOUS
<1>5. a * p >= a
  OBVIOUS
<1> QED
  BY <1>1, <1>2, <1>3, <1>4, <1>5

\* Shifting left is multiplication, as long as no bit is lost.
LEMMA ShlMultiplies ==
  ASSUME NEW x \in Nat, NEW n \in 0 .. Width, x * Pow(2, n) < ClockMod
  PROVE  Shl(x, n) = x * Pow(2, n)
<1>1. x * Pow(2, n) \in Nat
  BY PowerRange, Monotone
<1> DEFINE y == x * Pow(2, n)
<1>2. y \in Nat /\ y < ClockMod
  BY <1>1
<1> HIDE DEF y
<1>3. y % ClockMod = y
  BY <1>2, ClockAssumption
<1> QED
  BY <1>3 DEF Shl, y

(***************************************************************************)
(* What the count of leading zeros of v has established when the upper i   *)
(* bits were looked at: no more than Width - i zeros were shifted out, and *)
(* they were not more than there are.                                      *)
(***************************************************************************)
Counted(v, i, s) ==
  /\ s = [zeros |-> s.zeros, value |-> s.value]
  /\ s.zeros \in 0 .. Width - i
  /\ s.value = v * Pow(2, s.zeros)
  /\ s.value \in Nat /\ s.value < ClockMod /\ Pow(2, Width - i) <= s.value

LEMMA ShiftOutCounts ==
  ASSUME NEW v \in Nat, NEW i \in 1 .. Width, 2 * i <= Width, NEW s,
         Counted(v, 2 * i, s)
  PROVE  Counted(v, i, ShiftOut(i, s))
<1> DEFINE lower == Pow(2, Width - 2 * i)  p == Pow(2, i)  upper == Pow(2, Width - i)
           z == s.zeros  x == s.value
<1>1. /\ z \in Nat /\ z + i <= Width - i /\ z \in 0 .. Width /\ i \in 0 .. Width
      /\ x \in Nat /\ x < ClockMod /\ lower <= x /\ x = v * Pow(2, z)
  BY ClockAssumption DEF Counted
<1>2. lower \in Nat /\ p \in Nat /\ upper \in Nat /\ p >= 1
  BY PowerRange, 2 * i \in 0 .. Width, ClockAssumption
<1>3. lower * p = upper
  <2>1. Width - 2 * i \in 0 .. Width /\ (Width - 2 * i) + i = Width - i
    BY ClockAssumption
  <2> QED
    BY <2>1, PowersOfTwo, ClockAssumption
<1>4. upper * p = ClockMod
  <2>1. p * upper = ClockMod
    BY <1>1, PowerSplit
  <2> QED
    BY <1>2, <2>1
<1>5. CASE x < upper
  <2>1. x * p < ClockMod
    BY <1>1, <1>2, <1>4, <1>5, Monotone
  <2>2. upper <= x * p
    BY <1>1, <1>2, <1>3, Monotone
  <2>3. Shl(x, i) = x * p /\ x * p \in Nat
    BY <1>1, <1>2, <2>1, ShlMultiplies, Monotone
  <2>4. x * p = v * Pow(2, z + i)
    <3>1. z + i <= Width /\ Width \in Nat
      BY <1>1, ClockAssumption
    <3>2. Pow(2, z + i) = Pow(2, z) * p /\ Pow(2, z) \in Nat
      BY <1>1, <3>1, PowersOfTwo
    <3> QED
      BY <1>1, <1>2, <3>2
  <2>5. ShiftOut(i, s) = [zeros |-> z + i, value |-> x * p]
    BY <1>1, <1>5, <2>3, ClockAssumption DEF ShiftOut
  <2> HIDE DEF lower, p, upper, z, x
  <2>6. z + i \in 0 .. Width - i
    BY <1>1
  <2> QED
    BY <2>1, <2>2, <2>3, <2>4, <2>5, <2>6 DEF Counted, upper
<1>6. CASE upper <= x
  <2>1. ShiftOut(i, s) = s
    BY <1>1, <1>2, <1>6 DEF ShiftOut
  <2>2. s = [zeros |-> z, value |-> x] /\ z \in 0 .. Width - i
    BY <1>1, ClockAssumption DEF Counted
  <2> HIDE DEF lower, p, z, x
  <2>3. Counted(v, i, s)
    BY <1>1, <1>6, <2>2 DEF Counted, z, x
  <2> QED
    BY <2>1, <2>3
<1> QED
  BY <1>1, <1>2, <1>5, <1>6

\* A step for bits that the clock does not have does nothing.
LEMMA ShiftOutNothing ==
  ASSUME NEW i \in Nat, i >= Width, NEW s
  PROVE  ShiftOut(i, s) = s
BY ClockAssumption DEF ShiftOut

\* After the last step the upper bit is set: the zeros were all counted.
LEMMA CountsAll ==
  ASSUME NEW v \in Nat, v >= 1, v <= HalfMax
  PROVE  /\ LeadingZeros(v) \in 1 .. Width - 1
         /\ v * Pow(2, LeadingZeros(v)) < ClockMod
         /\ Pow(2, Width - 1) <= v * Pow(2, LeadingZeros(v))
<1> DEFINE s0 == [zeros |-> 0, value |-> v]
           s1 == ShiftOut(16, s0)
           s2 == ShiftOut(8, s1)
           s3 == ShiftOut(4, s2)
           s4 == ShiftOut(2, s3)
           s5 == ShiftOut(1, s4)
<1>1. Counted(v, Width, s0)
  <2>1. Width - Width = 0 /\ 0 \in 0 .. Width /\ v < ClockMod
    BY ClockAssumption DEF HalfMax
  <2>2. Pow(2, Width - Width) = 1 /\ Pow(2, s0.zeros) = 1
    BY <2>1, PowersOfTwo
  <2> QED
    BY <2>1, <2>2 DEF Counted
<1> HIDE DEF s0
<1>2. Width = 32 => Counted(v, 16, s1)
  BY <1>1, ShiftOutCounts
<1>3. Width \in {4, 8, 16} => s1 = s0
  BY ShiftOutNothing
<1> HIDE DEF s1
<1>4. Width \in {16, 32} => Counted(v, 8, s2)
  BY <1>1, <1>2, <1>3, ShiftOutCounts
<1>5. Width \in {4, 8} => s2 = s0
  BY <1>3, ShiftOutNothing
<1> HIDE DEF s2
<1>6. Width \in {8, 16, 32} => Counted(v, 4, s3)
  BY <1>1, <1>4, <1>5, ShiftOutCounts
<1>7. Width = 4 => s3 = s0
  BY <1>5, ShiftOutNothing
<1> HIDE DEF s3
<1>8. Counted(v, 2, s4)
  BY <1>1, <1>6, <1>7, ShiftOutCounts, ClockAssumption
<1> HIDE DEF s4
<1>9. Counted(v, 1, s5)
  BY <1>8, ShiftOutCounts, ClockAssumption
<1> HIDE DEF s5
<1>10. LeadingZeros(v) = s5.zeros
  BY DEF LeadingZeros, s0, s1, s2, s3, s4, s5
<1>11. s5.zeros # 0
  <2>1. SUFFICES ASSUME s5.zeros = 0 PROVE FALSE
    OBVIOUS
  <2>2. s5.value = v
    BY <1>9, <2>1, PowersOfTwo, ClockAssumption DEF Counted
  <2> QED
    BY <1>9, <2>2, ClockHalves DEF Counted
<1> QED
  BY <1>9, <1>10, <1>11, ClockAssumption DEF Counted

-----------------------------------------------------------------------------
\* A pair that is not bad fits half the clock.
LEMMA KeptFits ==
  ASSUME NEW i \in Nat, i >= 2, NEW m \in 1 .. Width - 2, ~IpairIsBad(i, m)
  PROVE  2 * (i * Pow(2, m)) <= ClockMod
<1> DEFINE p == Pow(2, m + 1)  q == Pow(2, Width - (m + 1))
<1>1. m \in 0 .. Width /\ m + 1 \in 0 .. Width /\ 1 \in 0 .. Width
  BY ClockAssumption
<1>2. p \in Nat /\ p >= 1 /\ q \in Nat /\ p * q = ClockMod
  BY <1>1, PowerRange, PowerSplit
<1>3. p = 2 * Pow(2, m) /\ Pow(2, m) \in Nat
  <2>1. m \in 0 .. Width - 1
    BY ClockAssumption
  <2> QED
    BY <2>1, PowerDoubles
<1>4. i - 1 <= Shr(ClockMod - 1, m + 1)
  <2>1. Shr(ClockMod - 1, m + 1) \in Int
    BY <1>2, ClockAssumption DEF Shr
  <2> QED
    BY <2>1 DEF IpairIsBad
<1> HIDE DEF p, q
<1>5. (i - 1) * p <= ClockMod - 1
  <2> DEFINE d == (ClockMod - 1) \div p
  <2>1. d \in Int /\ d * p <= ClockMod - 1 /\ i - 1 <= d
    BY <1>2, <1>4, ClockAssumption DEF Shr, p
  <2> HIDE DEF d
  <2>2. (i - 1) * p <= d * p
    BY <1>2, <2>1
  <2> QED
    BY <1>2, <2>1, <2>2, ClockAssumption
<1>6. i - 1 < q
  BY <1>2, <1>5, Monotone, ClockAssumption
<1>7. i * p <= ClockMod
  BY <1>2, <1>6
<1> QED
  BY <1>3, <1>7

\* A pair that is bad does not fit half the clock.
LEMMA BadDoesNotFit ==
  ASSUME NEW i \in Nat, i >= 2, NEW m \in 1 .. Width - 2, IpairIsBad(i, m)
  PROVE  2 * (i * Pow(2, m)) > ClockMod
<1> DEFINE p == Pow(2, m + 1)  d == (ClockMod - 1) \div p
<1>1. m + 1 \in 0 .. Width /\ m \in 0 .. Width - 1
  BY ClockAssumption
<1>2. p \in Nat /\ p >= 1
  BY <1>1, PowerRange
<1>3. p = 2 * Pow(2, m) /\ Pow(2, m) \in Nat
  BY <1>1, PowerDoubles
<1>4. d < i - 1
  BY DEF IpairIsBad, Shr
<1> HIDE DEF p
<1>5. d \in Int /\ ClockMod - 1 < (d + 1) * p
  BY <1>2, ClockAssumption
<1> HIDE DEF d
<1>6. (d + 1) * p <= (i - 1) * p
  BY <1>2, <1>4, <1>5
<1>7. i * p = (i - 1) * p + p /\ (i - 1) * p \in Int /\ (d + 1) * p \in Int
  BY <1>2, <1>5
<1>8. i * p > ClockMod
  BY <1>2, <1>5, <1>6, <1>7, ClockAssumption
<1> QED
  BY <1>3, <1>8

\* Imax lowered by the count of leading zeros fits half the clock; the generic
\* count gives the largest that does, the others the largest or the next one.
LEMMA AdjustedFits ==
  ASSUME NEW generic \in BOOLEAN, NEW i \in Nat, ~IminIsBad(i)
  PROVE  /\ MaxImax(generic, i) \in 0 .. Width - 2
         /\ 2 * (i * Pow(2, MaxImax(generic, i))) <= ClockMod
         /\ IF generic
            THEN 4 * (i * Pow(2, MaxImax(generic, i))) > ClockMod
            ELSE 4 * (i * Pow(2, MaxImax(generic, i))) >= ClockMod
<1> DEFINE v == IF generic THEN i - 1 ELSE i
           z == LeadingZeros(v)
           m == MaxImax(generic, i)
           p == Pow(2, z)
           q == Pow(2, Width - z)
<1>1. v \in Nat /\ v >= 1 /\ v <= HalfMax /\ v <= i /\ i <= v + 1
  BY ClockHalves, ClockAssumption DEF IminIsBad
<1>2. /\ z \in 1 .. Width - 1 /\ z \in 0 .. Width
      /\ v * p < ClockMod /\ Pow(2, Width - 1) <= v * p
  BY <1>1, CountsAll, ClockAssumption
<1>3. m = z - 1 /\ m \in 0 .. Width - 2
  BY <1>2, ClockAssumption DEF MaxImax
<1>4. p \in Nat /\ p >= 1 /\ q \in Nat /\ p * q = ClockMod
  BY <1>2, PowerRange, PowerSplit
<1>5. p = 2 * Pow(2, m) /\ Pow(2, m) \in Nat
  <2>1. m \in 0 .. Width - 1 /\ z = m + 1
    BY <1>2, <1>3, ClockAssumption
  <2> HIDE DEF m, z
  <2> QED
    BY <2>1, PowerDoubles
<1> HIDE DEF p, q, m, z
<1>6. v < q
  BY <1>1, <1>2, <1>4, Monotone
<1>7. i * p <= ClockMod
  BY <1>1, <1>2, <1>4, <1>6
<1>8. generic => 2 * (i * p) > ClockMod
  <2>1. generic => i * p = v * p + p
    BY <1>1, <1>4
  <2> QED
    BY <1>1, <1>2, <1>4, <2>1, ClockHalves
<1>9. ~generic => 2 * (i * p) >= ClockMod
  BY <1>2, <1>4, ClockHalves
<1>10. 4 * (i * Pow(2, m)) = 2 * (i * p)
  BY <1>5
<1> QED
  BY <1>3, <1>5, <1>7, <1>8, <1>9, <1>10 DEF m

(***************************************************************************)
(* For every Imin and Imax that is accepted and every flavour of max_imax, *)
(* the configured timer's longest interval is Imin doubled, without a lost *)
(* bit, and fits half the clock; when Imax was lowered, one doubling more  *)
(* would not fit or, in the flavours for one width, would fit exactly.     *)
(***************************************************************************)
THEOREM ConfigFits ==
  ASSUME NEW generic \in BOOLEAN, NEW i \in Nat, NEW imax \in 0 .. Width - 2, NEW k,
         Accepts(i, imax, k)
  PROVE  /\ Doublings(generic, i, imax) \in 0 .. Width - 2
         /\ Longest(generic, i, imax) = i * Pow(2, Doublings(generic, i, imax))
         /\ Longest(generic, i, imax) \in Nat
         /\ i <= Longest(generic, i, imax) /\ 2 * Longest(generic, i, imax) <= ClockMod
         /\ IF 2 * (i * Pow(2, imax)) <= ClockMod
            THEN Doublings(generic, i, imax) = imax
            ELSE IF generic
                 THEN 4 * Longest(generic, i, imax) > ClockMod
                 ELSE 4 * Longest(generic, i, imax) >= ClockMod
<1> DEFINE m == Doublings(generic, i, imax)
<1>1. imax \in 1 .. Width - 2 /\ i >= 2
  BY ClockAssumption DEF Accepts, IminIsBad
<1>2. m \in 0 .. Width - 2 /\ 2 * (i * Pow(2, m)) <= ClockMod
  BY <1>1, KeptFits, AdjustedFits DEF Accepts, Doublings
<1>3. IF 2 * (i * Pow(2, imax)) <= ClockMod
      THEN m = imax
      ELSE IF generic
           THEN 4 * (i * Pow(2, m)) > ClockMod
           ELSE 4 * (i * Pow(2, m)) >= ClockMod
  <2>1. CASE IpairIsBad(i, imax)
    <3>1. 2 * (i * Pow(2, imax)) > ClockMod
      BY <1>1, <2>1, BadDoesNotFit
    <3>2. imax \in 0 .. Width
      BY ClockAssumption
    <3>3. ~(2 * (i * Pow(2, imax)) <= ClockMod)
      BY <3>1, <3>2, PowersOfTwo, ClockAssumption
    <3> QED
      BY <2>1, <3>3, AdjustedFits DEF Accepts, Doublings
  <2>2. CASE ~IpairIsBad(i, imax)
    BY <1>1, <2>2, KeptFits DEF Doublings
  <2> QED
    BY <2>1, <2>2
<1>4. m \in 0 .. Width /\ Pow(2, m) \in Nat /\ Pow(2, m) >= 1
  BY <1>2, PowersOfTwo, ClockAssumption
<1> HIDE DEF m
<1>5. i * Pow(2, m) \in Nat /\ i <= i * Pow(2, m)
  BY <1>4, Monotone
<1>6. Shl(i, m) = i * Pow(2, m)
  BY <1>1, <1>2, <1>4, <1>5, ShlMultiplies, ClockAssumption
<1> QED
  BY <1>2, <1>3, <1>5, <1>6 DEF Longest, m
=============================================================================
