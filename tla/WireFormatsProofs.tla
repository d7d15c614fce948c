-------------------------- MODULE WireFormatsProofs --------------------------
(***************************************************************************)
(* Packing and unpacking are inverse to each other, for bytes and fields   *)
(* of any width.                                                           *)
(***************************************************************************)
EXTENDS WireFormats, PowersProofs, SequenceTheorems, TLAPS

-----------------------------------------------------------------------------
LEMMA BaseIsPositive == ByteMod \in Nat \ {0} /\ Byte = 0 .. ByteMod - 1 /\ Byte \subseteq Nat
BY WireAssumption DEF Byte

LEMMA ShiftIsPositive ==
  ASSUME NEW n \in Nat
  PROVE  Pow(ByteMod, n) \in Nat \ {0} /\ Pow(ByteMod, n + 1) = Pow(ByteMod, n) * ByteMod
<1>1. Pow(ByteMod, n) \in Nat \ {0}
  BY BaseIsPositive, PowPositive
<1>2. Pow(ByteMod, n + 1) = ByteMod * Pow(ByteMod, n)
  BY BaseIsPositive, PowRecursion
<1> QED
  BY <1>1, <1>2, BaseIsPositive, Product

\* A field is stored as bytes, as many as it is wide.
LEMMA StoreIsBytes ==
  ASSUME NEW v \in Nat, NEW w \in Nat
  PROVE  Store(v, w) \in [1 .. w -> Byte]
<1>1. ASSUME NEW i \in 1 .. w  PROVE (v \div Pow(ByteMod, i - 1)) % ByteMod \in Byte
  <2>1. i - 1 \in Nat
    OBVIOUS
  <2>2. Pow(ByteMod, i - 1) \in Nat \ {0}
    BY <2>1, ShiftIsPositive
  <2>3. v \div Pow(ByteMod, i - 1) \in Nat
    BY <2>2, Division
  <2> QED
    BY <2>3, Division, BaseIsPositive
<1> QED
  BY <1>1 DEF Store

\* What has been loaded after the first i bytes.
Loads(f, bytes, n) ==
  /\ f \in [0 .. n -> Nat] /\ f[0] = 0
  /\ \A i \in 1 .. n : f[i] = f[i - 1] + bytes[i] * Pow(ByteMod, i - 1)

LEMMA LoadRecursion ==
  ASSUME NEW n \in Nat, NEW bytes \in [1 .. n -> Nat]
  PROVE  \E f : Loads(f, bytes, n) /\ Load(bytes) = f[n]
<1> DEFINE step == [i \in Nat |-> [v \in Nat |->
             IF i \in 1 .. n THEN v + bytes[i] * Pow(ByteMod, i - 1) ELSE v]]
<1>1. step \in [Nat -> [Nat -> Nat]]
  <2>1. ASSUME NEW i \in Nat, NEW v \in Nat, i \in 1 .. n
        PROVE  v + bytes[i] * Pow(ByteMod, i - 1) \in Nat
    <3>1. i - 1 \in Nat /\ bytes[i] \in Nat
      BY <2>1
    <3>2. Pow(ByteMod, i - 1) \in Nat
      BY <3>1, ShiftIsPositive
    <3> DEFINE d == bytes[i]  p == Pow(ByteMod, i - 1)
    <3>3. d \in Nat /\ p \in Nat
      BY <3>1, <3>2
    <3> HIDE DEF d, p
    <3>4. d * p \in Nat
      BY <3>3, Product
    <3>5. v + d * p \in Nat
      BY <3>4
    <3> QED
      BY <3>5 DEF d, p
  <2> QED
    BY <2>1
<1>2. PICK g : Computes(g, Nat, 0, step)
  <2> HIDE DEF step
  <2> QED
    BY <1>1, RecursiveFunction
<1> DEFINE h == [i \in 0 .. n |-> g[i]]
<1>3. ASSUME NEW i \in 1 .. n  PROVE h[i] = h[i - 1] + bytes[i] * Pow(ByteMod, i - 1)
  <2>1. i - 1 \in Nat /\ i \in Nat /\ (i - 1) + 1 = i /\ i - 1 \in 0 .. n /\ i \in 0 .. n
    OBVIOUS
  <2>2. g[(i - 1) + 1] = step[(i - 1) + 1][g[i - 1]] /\ g[i - 1] \in Nat
    BY <1>2, <2>1 DEF Computes
  <2>3. g[i] = g[i - 1] + bytes[i] * Pow(ByteMod, i - 1)
    BY <2>1, <2>2
  <2> QED
    BY <2>1, <2>3
<1>4. h \in [0 .. n -> Nat] /\ h[0] = 0
  <2>1. g \in [Nat -> Nat] /\ g[0] = 0
    BY <1>2 DEF Computes
  <2> QED
    BY <2>1
<1> HIDE DEF step, h
<1> DEFINE F(f) == [i \in 0 .. Len(bytes) |->
             IF i = 0 THEN 0 ELSE f[i - 1] + bytes[i] * Pow(ByteMod, i - 1)]
           loaded == CHOOSE f : f = F(f)
<1>5. Len(bytes) = n
  BY LenProperties
<1>6. h = F(h)
  BY <1>3, <1>4, <1>5
<1>7. loaded = F(loaded)
  BY <1>6
<1>8. Load(bytes) = loaded[n]
  BY <1>5 DEF Load
<1> HIDE DEF loaded
<1>9. \A i \in 0 .. n : loaded[i] = h[i]
  <2> DEFINE S == {i \in Nat : i <= n => loaded[i] = h[i]}
  <2>1. 0 \in S
    BY <1>4, <1>5, <1>7
  <2>2. ASSUME NEW i \in Nat, i \in S  PROVE i + 1 \in S
    <3>1. CASE i + 1 <= n
      <4>1. i + 1 \in 0 .. n /\ i + 1 \in 1 .. n /\ i + 1 # 0 /\ (i + 1) - 1 = i
        BY <3>1
      <4>2. loaded[i + 1] = loaded[i] + bytes[i + 1] * Pow(ByteMod, i)
        BY <4>1, <1>5, <1>7
      <4>3. h[i + 1] = h[i] + bytes[i + 1] * Pow(ByteMod, i)
        BY <4>1, <1>3
      <4>4. loaded[i] = h[i]
        BY <2>2, <3>1
      <4> QED
        BY <4>2, <4>3, <4>4
    <3>2. CASE ~(i + 1 <= n)
      BY <3>2
    <3> QED
      BY <3>1, <3>2
  <2> HIDE DEF S
  <2>3. Nat \subseteq S
    BY <2>1, <2>2, NaturalsByInduction
  <2> QED
    BY <2>3 DEF S
<1>10. Loads(h, bytes, n)
  BY <1>3, <1>4 DEF Loads
<1>11. Load(bytes) = h[n]
  BY <1>8, <1>9
<1> QED
  BY <1>10, <1>11

(***************************************************************************)
(* Loading what was stored gives the field back, when it fits its width:   *)
(* after i bytes its lowest i digits are loaded.                           *)
(***************************************************************************)
LEMMA LoadOfStore ==
  ASSUME NEW w \in Nat, NEW v \in Values(w)
  PROVE  Load(Store(v, w)) = v
<1> DEFINE bytes == Store(v, w)
<1>1. v \in Nat /\ v < Pow(ByteMod, w) /\ Pow(ByteMod, w) \in Nat \ {0}
  BY ShiftIsPositive DEF Values
<1>2. bytes \in [1 .. w -> Byte]
  BY <1>1, StoreIsBytes
<1>3. \A i \in 1 .. w : bytes[i] = (v \div Pow(ByteMod, i - 1)) % ByteMod
  BY DEF Store
<1> HIDE DEF bytes
<1>4. PICK f : Loads(f, bytes, w) /\ Load(bytes) = f[w]
  <2>1. bytes \in [1 .. w -> Nat]
    BY <1>2, BaseIsPositive
  <2> QED
    BY <2>1, LoadRecursion
<1> DEFINE S == {i \in Nat : i <= w => f[i] = v % Pow(ByteMod, i)}
<1>5. 0 \in S
  <2>1. Pow(ByteMod, 0) = 1 /\ f[0] = 0
    BY <1>4, PowRecursion, BaseIsPositive DEF Loads
  <2> QED
    BY <1>1, <2>1
<1>6. ASSUME NEW i \in Nat, i \in S, i + 1 <= w  PROVE f[i + 1] = v % Pow(ByteMod, i + 1)
  <2> DEFINE p == Pow(ByteMod, i)
  <2>1. i + 1 \in 1 .. w /\ (i + 1) - 1 = i
    BY <1>6
  <2>2. f[i] = v % p
    BY <1>6
  <2>3. f[i + 1] = f[i] + bytes[i + 1] * p
    BY <1>4, <2>1 DEF Loads
  <2>4. bytes[i + 1] = (v \div p) % ByteMod
    BY <1>3, <2>1
  <2>5. p \in Nat \ {0} /\ Pow(ByteMod, i + 1) = p * ByteMod
    BY ShiftIsPositive
  <2> HIDE DEF p
  <2>6. v % (p * ByteMod) = (v % p) + (((v \div p) % ByteMod) * p)
    BY <1>1, <2>5, BaseIsPositive, Digit
  <2> QED
    BY <2>2, <2>3, <2>4, <2>5, <2>6
<1>7. \A i \in Nat : i \in S => i + 1 \in S
  BY <1>6
<1>8. f[w] = v % Pow(ByteMod, w)
  <2> HIDE DEF S
  <2>1. w \in S
    BY <1>5, <1>7, NaturalsByInduction
  <2> QED
    BY <2>1 DEF S
<1>9. v % Pow(ByteMod, w) = v
  <2> DEFINE p == Pow(ByteMod, w)
  <2>1. p \in Nat \ {0} /\ v < p
    BY <1>1
  <2> HIDE DEF p
  <2>2. v % p = v
    BY <1>1, <2>1
  <2> QED
    BY <2>2 DEF p
<1> QED
  BY <1>4, <1>8, <1>9 DEF bytes

(***************************************************************************)
(* Storing what was loaded gives the bytes back: what is loaded after i    *)
(* bytes has no digit beyond, and its digits are these bytes.              *)
(***************************************************************************)
LEMMA StoreOfLoad ==
  ASSUME NEW w \in Nat, NEW bytes \in [1 .. w -> Byte]
  PROVE  Load(bytes) \in Values(w) /\ Store(Load(bytes), w) = bytes
<1>1. bytes \in [1 .. w -> Nat] /\ \A i \in 1 .. w : bytes[i] \in 0 .. ByteMod - 1
  BY BaseIsPositive
<1>2. PICK f : Loads(f, bytes, w) /\ Load(bytes) = f[w]
  BY <1>1, LoadRecursion
<1>3. /\ f \in [0 .. w -> Nat] /\ f[0] = 0
      /\ \A i \in 1 .. w : f[i] = f[i - 1] + bytes[i] * Pow(ByteMod, i - 1)
  BY <1>2 DEF Loads
<1>4. \A i \in 0 .. w : f[i] < Pow(ByteMod, i)
  <2> DEFINE S == {i \in Nat : i <= w => f[i] < Pow(ByteMod, i)}
  <2>1. 0 \in S
    BY <1>3, PowRecursion, BaseIsPositive
  <2>2. ASSUME NEW i \in Nat, i \in S, i + 1 <= w  PROVE f[i + 1] < Pow(ByteMod, i + 1)
    <3> DEFINE p == Pow(ByteMod, i)  d == bytes[i + 1]
    <3>1. i + 1 \in 1 .. w /\ i \in 0 .. w /\ (i + 1) - 1 = i
      BY <2>2
    <3>2. f[i] < p /\ f[i] \in Nat
      BY <1>3, <2>2, <3>1
    <3>3. f[i + 1] = f[i] + d * p /\ d \in 0 .. ByteMod - 1
      BY <1>1, <1>3, <3>1
    <3>4. p \in Nat \ {0} /\ Pow(ByteMod, i + 1) = p * ByteMod
      BY ShiftIsPositive
    <3> HIDE DEF p, d
    <3>5. (d + 1) * p <= ByteMod * p /\ (d + 1) * p = d * p + p
      BY <3>3, <3>4, BaseIsPositive
    <3>6. d * p \in Nat /\ ByteMod * p = p * ByteMod /\ ByteMod * p \in Nat
      BY <3>3, <3>4, BaseIsPositive, Product
    <3> QED
      BY <3>2, <3>3, <3>4, <3>5, <3>6
  <2>3. \A i \in Nat : i \in S => i + 1 \in S
    BY <2>2
  <2> HIDE DEF S
  <2>4. Nat \subseteq S
    BY <2>1, <2>3, NaturalsByInduction
  <2> QED
    BY <2>4 DEF S
<1> DEFINE v == Load(bytes)
<1>5. v = f[w] /\ v \in Nat /\ v < Pow(ByteMod, w)
  BY <1>2, <1>3, <1>4
<1> HIDE DEF v
<1>6. ASSUME NEW i \in 1 .. w, f[i] = v % Pow(ByteMod, i)
      PROVE  /\ f[i - 1] = v % Pow(ByteMod, i - 1)
             /\ bytes[i] = (v \div Pow(ByteMod, i - 1)) % ByteMod
  <2> DEFINE p == Pow(ByteMod, i - 1)  d == (v \div p) % ByteMod
  <2>1. i - 1 \in Nat /\ (i - 1) + 1 = i /\ i - 1 \in 0 .. w
    OBVIOUS
  <2>2. p \in Nat \ {0} /\ Pow(ByteMod, i) = p * ByteMod
    BY <2>1, ShiftIsPositive
  <2>3. f[i - 1] \in 0 .. p - 1 /\ f[i] = f[i - 1] + bytes[i] * p /\ bytes[i] \in Nat
    BY <1>1, <1>3, <1>4, <2>1, <2>2
  <2> HIDE DEF p
  <2>4. f[i] = (v % p) + (d * p) /\ v % p \in 0 .. p - 1 /\ d \in Nat
    <3>1. v % (p * ByteMod) = (v % p) + (((v \div p) % ByteMod) * p)
      BY <1>5, <2>2, BaseIsPositive, Digit
    <3>2. v \div p \in Nat /\ v % p \in 0 .. p - 1
      BY <1>5, <2>2, Division
    <3>3. d \in Nat
      BY <3>2, BaseIsPositive, Division
    <3> QED
      BY <1>6, <2>2, <3>1, <3>2, <3>3
  <2> HIDE DEF d
  <2>5. p * bytes[i] + f[i - 1] = p * d + (v % p)
    <3>1. p * bytes[i] = bytes[i] * p /\ p * d = d * p /\ p * d \in Nat /\ p * bytes[i] \in Nat
      BY <2>2, <2>3, <2>4, Product
    <3> QED
      BY <2>3, <2>4, <3>1
  <2> DEFINE q == bytes[i]  r == f[i - 1]  z == v % p
  <2>6. q \in Nat /\ r \in 0 .. p - 1 /\ z \in 0 .. p - 1 /\ p * q + r = p * d + z
    BY <2>3, <2>4, <2>5
  <2> HIDE DEF q, r, z
  <2>7. q = d /\ r = z
    BY <2>2, <2>4, <2>6, OneWay
  <2> QED
    BY <2>7 DEF p, d, q, r, z
<1>7. \A i \in 0 .. w : f[i] = v % Pow(ByteMod, i)
  <2> DEFINE S == {k \in Nat : k <= w => f[w - k] = v % Pow(ByteMod, w - k)}
  <2>1. 0 \in S
    <3> DEFINE p == Pow(ByteMod, w)
    <3>1. p \in Nat \ {0} /\ v < p
      BY <1>5, ShiftIsPositive
    <3> HIDE DEF p
    <3>2. v % p = v
      BY <1>5, <3>1
    <3> QED
      BY <1>5, <3>2 DEF p
  <2>2. ASSUME NEW k \in Nat, k \in S, k + 1 <= w
        PROVE  f[w - (k + 1)] = v % Pow(ByteMod, w - (k + 1))
    <3>1. w - k \in 1 .. w /\ (w - k) - 1 = w - (k + 1)
      BY <2>2
    <3>2. f[w - k] = v % Pow(ByteMod, w - k)
      BY <2>2
    <3> QED
      BY <1>6, <3>1, <3>2
  <2>3. \A k \in Nat : k \in S => k + 1 \in S
    BY <2>2
  <2> HIDE DEF S
  <2>4. Nat \subseteq S
    BY <2>1, <2>3, NaturalsByInduction
  <2>5. ASSUME NEW i \in 0 .. w  PROVE f[i] = v % Pow(ByteMod, i)
    <3>1. w - i \in Nat /\ w - i <= w /\ w - (w - i) = i
      OBVIOUS
    <3>2. w - i \in S
      BY <2>4, <3>1
    <3>3. f[w - (w - i)] = v % Pow(ByteMod, w - (w - i))
      BY <3>1, <3>2 DEF S
    <3> QED
      BY <3>1, <3>3
  <2> QED
    BY <2>5
<1>8. \A i \in 1 .. w : bytes[i] = (v \div Pow(ByteMod, i - 1)) % ByteMod
  BY <1>6, <1>7
<1>9. Store(v, w) = bytes
  BY <1>8 DEF Store
<1>10. v \in Values(w)
  <2>1. Pow(ByteMod, w) \in Nat
    BY ShiftIsPositive
  <2> QED
    BY <1>5, <2>1 DEF Values
<1> QED
  BY <1>9, <1>10 DEF v

-----------------------------------------------------------------------------
\* Every sequence of bytes is a function on its positions.
LEMMA SeqAsFunction ==
  ASSUME NEW S, NEW s \in Seq(S)
  PROVE  Len(s) \in Nat /\ s \in [1 .. Len(s) -> S] /\ DOMAIN s = 1 .. Len(s)
BY LenProperties

LEMMA FunctionAsSeq ==
  ASSUME NEW S, NEW n \in Nat, NEW s \in [1 .. n -> S]
  PROVE  s \in Seq(S) /\ Len(s) = n
<1>1. s \in Seq(S)
  BY IsASeq
<1>2. DOMAIN s = 1 .. Len(s) /\ Len(s) \in Nat /\ DOMAIN s = 1 .. n
  BY <1>1, LenProperties
<1> QED
  BY <1>1, <1>2

LEMMA Concat ==
  ASSUME NEW S, NEW s \in Seq(S), NEW t \in Seq(S)
  PROVE  /\ s \o t \in Seq(S) /\ Len(s \o t) = Len(s) + Len(t)
         /\ \A i \in 1 .. Len(s) : (s \o t)[i] = s[i]
         /\ \A i \in 1 .. Len(t) : (s \o t)[Len(s) + i] = t[i]
<1>1. s \o t \in Seq(S) /\ Len(s \o t) = Len(s) + Len(t)
  BY ConcatProperties
<1>2. \A i \in 1 .. Len(s) + Len(t) : (s \o t)[i] = IF i <= Len(s) THEN s[i] ELSE t[i - Len(s)]
  BY ConcatProperties
<1>3. Len(s) \in Nat /\ Len(t) \in Nat
  BY LenProperties
<1>4. ASSUME NEW i \in 1 .. Len(t)  PROVE (s \o t)[Len(s) + i] = t[i]
  <2>1. Len(s) + i \in 1 .. Len(s) + Len(t) /\ ~(Len(s) + i <= Len(s)) /\ (Len(s) + i) - Len(s) = i
    BY <1>3
  <2> QED
    BY <1>2, <2>1
<1> QED
  BY <1>1, <1>2, <1>3, <1>4

\* A part of a sequence.
LEMMA Cut ==
  ASSUME NEW s \in Seq(Byte), NEW a \in Nat, NEW c \in Nat, a <= c, c <= Len(s)
  PROVE  /\ SubSeq(s, a + 1, c) \in Seq(Byte) /\ Len(SubSeq(s, a + 1, c)) = c - a
         /\ \A j \in 1 .. c - a : SubSeq(s, a + 1, c)[j] = s[a + j]
<1> DEFINE u == SubSeq(s, a + 1, c)
<1>1. Len(s) \in Nat
  BY LenProperties
<1>2. \A i \in a + 1 .. c : s[i] \in Byte
  <2>1. ASSUME NEW i \in a + 1 .. c  PROVE s[i] \in Byte
    <3>1. i \in 1 .. Len(s)
      BY <1>1
    <3> QED
      BY <3>1, ElementOfSeq
  <2> QED
    BY <2>1
<1>3. /\ u \in Seq(Byte)
      /\ Len(u) = IF a + 1 <= c THEN c - (a + 1) + 1 ELSE 0
      /\ \A j \in 1 .. c - (a + 1) + 1 : u[j] = s[(a + 1) + j - 1]
  <2>1. a + 1 \in Int /\ c \in Int
    OBVIOUS
  <2> QED
    BY <1>2, <2>1, SubSeqProperties
<1> HIDE DEF u
<1>4. Len(u) = c - a /\ \A j \in 1 .. c - a : u[j] = s[a + j]
  BY <1>3
<1> QED
  BY <1>3, <1>4 DEF u

\* Pieces that lie side by side between the positions at.
Adjacent(at, n) ==
  /\ at \in [1 .. n + 1 -> Nat]
  /\ \A i \in 1 .. n : at[i] <= at[i + 1]

Pieces(s, at, n) ==
  /\ s = [i \in 1 .. n |-> s[i]]
  /\ \A i \in 1 .. n : s[i] \in [1 .. at[i + 1] - at[i] -> Byte]

LEMMA FlattenRecursion ==
  ASSUME NEW n \in Nat \ {0}, NEW s \in [1 .. n -> Seq(Byte)]
  PROVE  \E f \in [1 .. n -> Seq(Byte)] :
           /\ f[1] = s[1] /\ FlattenSeq(s) = f[n]
           /\ \A i \in 1 .. n - 1 : f[i + 1] = f[i] \o s[i + 1]
<1> DEFINE step == [i \in Nat |-> [v \in Seq(Byte) |->
             IF i \in 1 .. n - 1 THEN v \o s[i + 1] ELSE v]]
<1>1. step \in [Nat -> [Seq(Byte) -> Seq(Byte)]]
  <2>1. ASSUME NEW i \in Nat, NEW v \in Seq(Byte), i \in 1 .. n - 1
        PROVE  v \o s[i + 1] \in Seq(Byte)
    <3>1. s[i + 1] \in Seq(Byte)
      BY <2>1
    <3> QED
      BY <3>1, ConcatProperties
  <2> QED
    BY <2>1
<1>2. PICK g : Computes(g, Seq(Byte), s[1], step)
  <2>1. s[1] \in Seq(Byte)
    OBVIOUS
  <2> HIDE DEF step
  <2> QED
    BY <1>1, <2>1, RecursiveFunction
<1>3. g \in [Nat -> Seq(Byte)] /\ g[0] = s[1] /\ \A i \in Nat : g[i + 1] = step[i + 1][g[i]]
  <2> HIDE DEF step
  <2> QED
    BY <1>2 DEF Computes
<1>4. ASSUME NEW i \in 1 .. n - 1  PROVE g[i] = g[i - 1] \o s[i + 1]
  <2>1. i - 1 \in Nat /\ i \in Nat /\ (i - 1) + 1 = i
    OBVIOUS
  <2>2. g[i] = step[i][g[i - 1]] /\ g[i - 1] \in Seq(Byte)
    <3> HIDE DEF step
    <3> QED
      BY <1>3, <2>1
  <2> QED
    BY <2>1, <2>2
<1> HIDE DEF step
<1> DEFINE h == [i \in 1 .. n |-> g[i - 1]]
<1>5. h \in [1 .. n -> Seq(Byte)] /\ h[1] = s[1]
  BY <1>3
<1>6. ASSUME NEW i \in 1 .. n - 1  PROVE h[i + 1] = h[i] \o s[i + 1]
  <2>1. i \in 1 .. n /\ i + 1 \in 1 .. n /\ (i + 1) - 1 = i
    OBVIOUS
  <2> QED
    BY <1>4, <2>1
<1> HIDE DEF h
<1> DEFINE F(f) == [i \in 1 .. Len(s) |-> IF i = 1 THEN s[i] ELSE f[i - 1] \o s[i]]
           flatten == CHOOSE f : f = F(f)
<1>7. Len(s) = n
  BY FunctionAsSeq
<1>8. h = F(h)
  <2>1. ASSUME NEW i \in 1 .. n, i # 1  PROVE h[i] = h[i - 1] \o s[i]
    <3>1. i - 1 \in 1 .. n - 1 /\ (i - 1) + 1 = i
      BY <2>1
    <3> QED
      BY <1>6, <3>1
  <2> QED
    BY <1>5, <1>7, <2>1
<1>9. flatten = F(flatten)
  BY <1>8
<1>10. FlattenSeq(s) = flatten[n]
  BY <1>7 DEF FlattenSeq
<1> HIDE DEF flatten
<1>11. \A i \in 1 .. n : flatten[i] = h[i]
  <2> DEFINE S == {i \in Nat : i + 1 <= n => flatten[i + 1] = h[i + 1]}
  <2>1. 0 \in S
    BY <1>5, <1>7, <1>9
  <2>2. ASSUME NEW i \in Nat, i \in S, (i + 1) + 1 <= n
        PROVE  flatten[(i + 1) + 1] = h[(i + 1) + 1]
    <3>1. i + 1 \in 1 .. n - 1 /\ (i + 1) + 1 \in 1 .. n /\ (i + 1) + 1 # 1
          /\ ((i + 1) + 1) - 1 = i + 1
      BY <2>2
    <3>2. flatten[i + 1] = h[i + 1]
      BY <2>2
    <3>3. flatten[(i + 1) + 1] = flatten[i + 1] \o s[(i + 1) + 1]
      BY <1>7, <1>9, <3>1
    <3>4. h[(i + 1) + 1] = h[i + 1] \o s[(i + 1) + 1]
      BY <1>6, <3>1
    <3> QED
      BY <3>2, <3>3, <3>4
  <2>3. \A i \in Nat : i \in S => i + 1 \in S
    BY <2>2
  <2> HIDE DEF S
  <2>4. Nat \subseteq S
    BY <2>1, <2>3, NaturalsByInduction
  <2>5. ASSUME NEW i \in 1 .. n  PROVE flatten[i] = h[i]
    <3>1. i - 1 \in Nat /\ (i - 1) + 1 = i /\ i <= n
      OBVIOUS
    <3>2. i - 1 \in S
      BY <2>4, <3>1
    <3>3. (i - 1) + 1 <= n => flatten[(i - 1) + 1] = h[(i - 1) + 1]
      BY <3>2 DEF S
    <3> QED
      BY <3>1, <3>3
  <2> QED
    BY <2>5
<1>12. FlattenSeq(s) = h[n]
  BY <1>10, <1>11
<1> QED
  BY <1>5, <1>6, <1>12

(***************************************************************************)
(* Pieces that lie side by side are flattened to a sequence in which each  *)
(* is found at its position.                                               *)
(***************************************************************************)
LEMMA FlattenPieces ==
  ASSUME NEW n \in Nat \ {0}, NEW at, Adjacent(at, n), NEW s, Pieces(s, at, n)
  PROVE  /\ FlattenSeq(s) \in Seq(Byte)
         /\ Len(FlattenSeq(s)) = at[n + 1] - at[1]
         /\ \A k \in 1 .. n : /\ at[1] <= at[k]
                             /\ \A j \in 1 .. at[k + 1] - at[k] :
                                  FlattenSeq(s)[(at[k] - at[1]) + j] = s[k][j]
<1>1. /\ at \in [1 .. n + 1 -> Nat]
      /\ \A i \in 1 .. n : at[i] <= at[i + 1] /\ at[i] \in Nat /\ at[i + 1] \in Nat
  BY DEF Adjacent
<1>2. ASSUME NEW i \in 1 .. n  PROVE s[i] \in Seq(Byte) /\ Len(s[i]) = at[i + 1] - at[i]
  <2>1. at[i + 1] - at[i] \in Nat /\ s[i] \in [1 .. at[i + 1] - at[i] -> Byte]
    BY <1>1 DEF Pieces
  <2> QED
    BY <2>1, FunctionAsSeq
<1>3. s \in [1 .. n -> Seq(Byte)]
  BY <1>2 DEF Pieces
<1>4. PICK f \in [1 .. n -> Seq(Byte)] :
        /\ f[1] = s[1] /\ FlattenSeq(s) = f[n]
        /\ \A i \in 1 .. n - 1 : f[i + 1] = f[i] \o s[i + 1]
  BY <1>3, FlattenRecursion
<1> DEFINE Laid(i) ==
      /\ at[1] <= at[i] /\ Len(f[i]) = at[i + 1] - at[1]
      /\ \A k \in 1 .. i : at[k + 1] <= at[i + 1]
      /\ \A k \in 1 .. i : \A j \in 1 .. at[k + 1] - at[k] : f[i][(at[k] - at[1]) + j] = s[k][j]
    S == {i \in Nat : i + 1 <= n => Laid(i + 1) /\ \A k \in 1 .. i + 1 : at[1] <= at[k]}
<1>5. 0 \in S
  <2>1. 1 \in 1 .. n
    OBVIOUS
  <2>2. Laid(1)
    BY <1>1, <1>2, <1>4, <2>1
  <2> QED
    BY <1>1, <2>1, <2>2
<1>6. ASSUME NEW i \in Nat, i \in S, (i + 1) + 1 <= n
      PROVE  Laid((i + 1) + 1) /\ \A k \in 1 .. (i + 1) + 1 : at[1] <= at[k]
  <2> DEFINE m == i + 1
  <2>1. m \in 1 .. n /\ m + 1 \in 1 .. n /\ m \in 1 .. n - 1 /\ m \in Nat
    BY <1>6
  <2>2. Laid(m) /\ \A k \in 1 .. m : at[1] <= at[k]
    BY <1>6
  <2> HIDE DEF m, S
  <2>3. f[m + 1] = f[m] \o s[m + 1] /\ f[m] \in Seq(Byte)
    BY <1>4, <2>1
  <2>4. s[m + 1] \in Seq(Byte) /\ Len(s[m + 1]) = at[(m + 1) + 1] - at[m + 1]
    BY <1>2, <2>1
  <2>5. at[1] \in Nat /\ at[m] \in Nat /\ at[m + 1] \in Nat /\ at[(m + 1) + 1] \in Nat
        /\ at[m] <= at[m + 1] /\ at[m + 1] <= at[(m + 1) + 1] /\ at[1] <= at[m]
    <3>1. 1 \in 1 .. n
      OBVIOUS
    <3> QED
      BY <1>1, <2>1, <2>2, <3>1
  <2>6. /\ Len(f[m + 1]) = Len(f[m]) + Len(s[m + 1])
        /\ \A j \in 1 .. Len(f[m]) : f[m + 1][j] = f[m][j]
        /\ \A j \in 1 .. Len(s[m + 1]) : f[m + 1][Len(f[m]) + j] = s[m + 1][j]
    <3> DEFINE u == f[m]  t == s[m + 1]
    <3>1. u \in Seq(Byte) /\ t \in Seq(Byte)
      BY <2>3, <2>4
    <3> HIDE DEF u, t
    <3>2. /\ Len(u \o t) = Len(u) + Len(t)
          /\ \A j \in 1 .. Len(u) : (u \o t)[j] = u[j]
          /\ \A j \in 1 .. Len(t) : (u \o t)[Len(u) + j] = t[j]
      BY <3>1, Concat
    <3> QED
      BY <2>3, <3>2 DEF u, t
  <2>7. Len(f[m + 1]) = at[(m + 1) + 1] - at[1] /\ at[1] <= at[m + 1]
    BY <2>2, <2>4, <2>5, <2>6
  <2>8. ASSUME NEW k \in 1 .. m, NEW j \in 1 .. at[k + 1] - at[k]
        PROVE  f[m + 1][(at[k] - at[1]) + j] = s[k][j]
    <3>1. k \in 1 .. n /\ k \in 1 .. m
      BY <2>1
    <3>2. at[k] \in Nat /\ at[k + 1] \in Nat /\ at[1] <= at[k]
      BY <1>1, <2>2, <3>1
    <3>3. at[k + 1] <= at[m + 1]
      BY <2>2, <3>1
    <3>4. (at[k] - at[1]) + j \in 1 .. Len(f[m])
      <4>1. Len(f[m]) = at[m + 1] - at[1]
        BY <2>2
      <4> DEFINE a == at[1]  b == at[k]  c == at[k + 1]  d == at[m + 1]
      <4>2. a \in Nat /\ b \in Nat /\ c \in Nat /\ d \in Nat /\ a <= b /\ c <= d /\ j \in 1 .. c - b
        BY <2>5, <3>2, <3>3
      <4> HIDE DEF a, b, c, d
      <4>3. (b - a) + j \in 1 .. d - a
        BY <4>2
      <4> QED
        BY <4>1, <4>3 DEF a, b, d
    <3>5. f[m][(at[k] - at[1]) + j] = s[k][j]
      BY <2>2, <3>1
    <3> QED
      BY <2>6, <3>4, <3>5
  <2>9. ASSUME NEW j \in 1 .. at[(m + 1) + 1] - at[m + 1]
        PROVE  f[m + 1][(at[m + 1] - at[1]) + j] = s[m + 1][j]
    BY <2>2, <2>4, <2>6
  <2>10. \A k \in 1 .. m + 1 : k \in 1 .. m \/ k = m + 1
    BY <2>1
  <2>11. ASSUME NEW k \in 1 .. m + 1  PROVE at[k + 1] <= at[(m + 1) + 1]
    <3>1. CASE k \in 1 .. m
      <4>1. k \in 1 .. n
        BY <2>1, <3>1
      <4>2. at[k + 1] \in Nat
        BY <1>1, <4>1
      <4>3. at[k + 1] <= at[m + 1]
        BY <2>2, <3>1
      <4> QED
        BY <2>5, <4>2, <4>3
    <3>2. CASE k = m + 1
      BY <2>5, <3>2
    <3> QED
      BY <2>10, <3>1, <3>2
  <2>12. Laid(m + 1)
    BY <2>7, <2>8, <2>9, <2>10, <2>11
  <2>13. \A k \in 1 .. m + 1 : at[1] <= at[k]
    BY <2>2, <2>7, <2>10
  <2> HIDE DEF Laid
  <2> QED
    BY <2>12, <2>13 DEF m
<1>7. \A i \in Nat : i \in S => i + 1 \in S
  <2> HIDE DEF Laid
  <2> QED
    BY <1>6
<1>8. Laid(n) /\ \A k \in 1 .. n : at[1] <= at[k]
  <2> HIDE DEF S
  <2>1. Nat \subseteq S
    BY <1>5, <1>7, NaturalsByInduction
  <2>2. n - 1 \in Nat /\ (n - 1) + 1 = n /\ n <= n
    OBVIOUS
  <2>3. n - 1 \in S
    BY <2>1, <2>2
  <2> HIDE DEF Laid
  <2>4. (n - 1) + 1 <= n => Laid((n - 1) + 1) /\ \A k \in 1 .. (n - 1) + 1 : at[1] <= at[k]
    BY <2>3 DEF S
  <2> QED
    BY <2>2, <2>4
<1>9. n \in 1 .. n
  OBVIOUS
<1> QED
  BY <1>4, <1>8, <1>9

-----------------------------------------------------------------------------
Kinds == BulkKinds \cup {"broadcast"}
Count(kind) == Len(Offsets(kind)) - 1
Width(kind, k) == Offsets(kind)[k + 1] - Offsets(kind)[k]

\* The two bytes of a header; a broadcast has none.
LEMMA HeaderIsShort ==
  ASSUME NEW kind \in Kinds
  PROVE  /\ HeaderOf(kind) \in Seq(Byte)
         /\ Len(HeaderOf(kind)) = IF kind = "broadcast" THEN 0 ELSE 2
<1>1. CASE kind \in BulkKinds
  <2>1. HeaderOf(kind) = Header[kind] /\ kind # "broadcast"
    BY <1>1 DEF BulkKinds, HeaderOf
  <2>2. Header[kind] \in Seq(Byte) /\ Len(Header[kind]) = 2
    BY <1>1, WireAssumption
  <2> QED
    BY <2>1, <2>2
<1>2. CASE kind = "broadcast"
  <2>1. HeaderOf(kind) = <<>>
    BY <1>2 DEF HeaderOf
  <2> QED
    BY <1>2, <2>1, EmptySeq
<1> QED
  BY <1>1, <1>2 DEF Kinds

\* Two to four fields lie side by side.
LEMMA Rising ==
  ASSUME NEW a \in Nat, NEW b \in Nat, NEW c \in Nat, a <= b, b <= c
  PROVE  Adjacent(<<a, b, c>>, 2)
BY DEF Adjacent

LEMMA RisingFour ==
  ASSUME NEW a \in Nat, NEW b \in Nat, NEW c \in Nat, NEW d \in Nat, a <= b, b <= c, c <= d
  PROVE  Adjacent(<<a, b, c, d>>, 3)
BY DEF Adjacent

\* The fields of every message lie side by side behind its header.
LEMMA OffsetsGrow ==
  ASSUME NEW kind \in Kinds
  PROVE  /\ Count(kind) \in Nat \ {0} /\ Adjacent(Offsets(kind), Count(kind))
         /\ HeaderOf(kind) \in Seq(Byte) /\ Offsets(kind)[1] = Len(HeaderOf(kind))
         /\ Size(kind) = Offsets(kind)[Count(kind) + 1] /\ Size(kind) \in Nat
<1>1. HeaderOf(kind) \in Seq(Byte) /\ Len(HeaderOf(kind)) = IF kind = "broadcast" THEN 0 ELSE 2
  BY HeaderIsShort
<1>2. CASE kind = "signal"
  <2>1. Offsets(kind) = <<2, 4, 5>>
    BY <1>2 DEF Offsets
  <2>2. Count(kind) = 2 /\ Size(kind) = Offsets(kind)[3] /\ Size(kind) = 5
    BY <2>1 DEF Count, Size, Last
  <2> QED
    BY <1>1, <1>2, <2>1, <2>2, Rising
<1>3. CASE kind = "request"
  <2>1. Offsets(kind) = <<2, 4, 4 + MaskBytes, 6 + MaskBytes>> /\ MaskBytes \in Nat
    BY <1>3, WireAssumption DEF Offsets
  <2>2. Count(kind) = 3 /\ Size(kind) = Offsets(kind)[4] /\ Size(kind) = 6 + MaskBytes
    BY <2>1 DEF Count, Size, Last
  <2>3. Adjacent(Offsets(kind), 3)
    BY <2>1, RisingFour
  <2> QED
    BY <1>1, <1>3, <2>1, <2>2, <2>3
<1>4. CASE kind = "sub"
  <2>1. Offsets(kind) = <<2, 4, 5, 6, 8>>
    BY <1>4 DEF Offsets
  <2>2. Count(kind) = 4 /\ Size(kind) = Offsets(kind)[5] /\ Size(kind) = 8
    BY <2>1 DEF Count, Size, Last
  <2>3. Adjacent(Offsets(kind), 4)
    BY <2>1 DEF Adjacent
  <2> QED
    BY <1>1, <1>4, <2>1, <2>2, <2>3
<1>5. CASE kind = "broadcast"
  <2>1. Offsets(kind) = <<0, WordBytes, 2 * WordBytes>> /\ WordBytes \in Nat
    BY <1>5, WireAssumption DEF Offsets
  <2>2. Count(kind) = 2 /\ Size(kind) = Offsets(kind)[3] /\ Size(kind) = 2 * WordBytes
    BY <2>1 DEF Count, Size, Last
  <2>3. Adjacent(Offsets(kind), 2)
    BY <2>1, Rising
  <2> QED
    BY <1>1, <1>5, <2>1, <2>2, <2>3
<1> QED
  BY <1>2, <1>3, <1>4, <1>5 DEF Kinds, BulkKinds

\* Every position between the first and the last of at is in some field.
LEMMA Covered ==
  ASSUME NEW n \in Nat \ {0}, NEW at, Adjacent(at, n), NEW x \in at[1] + 1 .. at[n + 1]
  PROVE  \E k \in 1 .. n : \E j \in 1 .. at[k + 1] - at[k] : x = at[k] + j
<1>1. /\ at \in [1 .. n + 1 -> Nat] /\ at[1] \in Nat /\ at[n + 1] \in Nat
      /\ \A i \in 1 .. n : at[i] \in Nat /\ at[i + 1] \in Nat
  BY DEF Adjacent
<1> DEFINE later == {k \in Nat : k \in 1 .. n /\ x <= at[k + 1]}
<1>2. n \in later
  BY <1>1
<1>3. PICK k \in later : \A m \in later : k <= m
  BY <1>2, LeastNatural
<1>4. k \in 1 .. n /\ x <= at[k + 1]
  BY <1>3
<1>5. at[k] < x
  <2>1. CASE k = 1
    BY <1>1, <2>1
  <2>2. CASE k # 1
    <3>1. k - 1 \in 1 .. n /\ k - 1 \in Nat /\ (k - 1) + 1 = k /\ ~(k <= k - 1)
      BY <1>4, <2>2
    <3>2. k - 1 \notin later
      BY <1>3, <3>1
    <3>3. ~(x <= at[k])
      BY <3>1, <3>2
    <3> QED
      BY <1>1, <1>4, <3>3
  <2> QED
    BY <2>1, <2>2
<1>6. x - at[k] \in 1 .. at[k + 1] - at[k] /\ x = at[k] + (x - at[k])
  BY <1>1, <1>4, <1>5
<1> QED
  BY <1>4, <1>6

LEMMA Monotone ==
  ASSUME NEW n \in Nat \ {0}, NEW at, Adjacent(at, n), NEW k \in 1 .. n + 1
  PROVE  at[k] <= at[n + 1]
<1>1. /\ at \in [1 .. n + 1 -> Nat]
      /\ \A i \in 1 .. n : at[i] <= at[i + 1] /\ at[i] \in Nat /\ at[i + 1] \in Nat
  BY DEF Adjacent
<1> DEFINE S == {d \in Nat : \A i \in 1 .. n + 1 : i + d = n + 1 => at[i] <= at[n + 1]}
<1>2. 0 \in S
  BY <1>1
<1>3. ASSUME NEW d \in Nat, d \in S, NEW i \in 1 .. n + 1, i + (d + 1) = n + 1
      PROVE  at[i] <= at[n + 1]
  <2>1. i \in 1 .. n /\ i + 1 \in 1 .. n + 1 /\ (i + 1) + d = n + 1
    BY <1>3
  <2>2. at[i + 1] <= at[n + 1] /\ at[n + 1] \in Nat
    BY <1>1, <1>3, <2>1
  <2> QED
    BY <1>1, <2>1, <2>2
<1>4. \A d \in Nat : d \in S => d + 1 \in S
  BY <1>3
<1> HIDE DEF S
<1>5. Nat \subseteq S
  BY <1>2, <1>4, NaturalsByInduction
<1>6. (n + 1) - k \in Nat /\ k + ((n + 1) - k) = n + 1
  OBVIOUS
<1> QED
  BY <1>5, <1>6 DEF S

\* Where the parts of a message are in a buffer.
Encodes(buffer, m) ==
  /\ \A i \in 1 .. Offsets(m.kind)[1] : buffer[i] = HeaderOf(m.kind)[i]
  /\ \A k \in 1 .. Count(m.kind) : \A j \in 1 .. Width(m.kind, k) :
       buffer[Offsets(m.kind)[k] + j] = Store(m.fields[k], Width(m.kind, k))[j]
  /\ \A j \in 1 .. Len(m.payload) : buffer[Size(m.kind) + j] = m.payload[j]

IsMessage(m) ==
  /\ m.kind \in Kinds /\ m.fields \in [1 .. Count(m.kind) -> Nat] /\ m.payload \in Seq(Byte)

\* Packing a message puts its parts where they belong, and nothing else.
LEMMA PackEncodes ==
  ASSUME NEW m, IsMessage(m)
  PROVE  /\ Pack(m) \in Seq(Byte) /\ Len(Pack(m)) = Size(m.kind) + Len(m.payload)
         /\ Encodes(Pack(m), m)
<1> DEFINE at == Offsets(m.kind)  n == Count(m.kind)  header == HeaderOf(m.kind)
           stored == [i \in 1 .. n |-> Store(m.fields[i], at[i + 1] - at[i])]
           body == FlattenSeq(stored)
<1>1. /\ m.kind \in Kinds /\ m.fields \in [1 .. n -> Nat] /\ m.payload \in Seq(Byte)
  BY DEF IsMessage
<1>2. /\ n \in Nat \ {0} /\ Adjacent(at, n) /\ header \in Seq(Byte) /\ at[1] = Len(header)
      /\ Size(m.kind) = at[n + 1] /\ Size(m.kind) \in Nat
  BY <1>1, OffsetsGrow
<1>3. Pack(m) = (header \o body) \o m.payload
  BY DEF Pack, Count
<1> HIDE DEF at, n, header
<1>4. Pieces(stored, at, n)
  <2>1. ASSUME NEW i \in 1 .. n  PROVE stored[i] \in [1 .. at[i + 1] - at[i] -> Byte]
    <3>1. at[i + 1] - at[i] \in Nat
      BY <1>2 DEF Adjacent
    <3>2. m.fields[i] \in Nat
      BY <1>1
    <3> QED
      BY <3>1, <3>2, StoreIsBytes
  <2> QED
    BY <2>1 DEF Pieces
<1>5. /\ body \in Seq(Byte) /\ Len(body) = at[n + 1] - at[1]
      /\ \A k \in 1 .. n : at[1] <= at[k] /\ \A j \in 1 .. at[k + 1] - at[k] :
                             body[(at[k] - at[1]) + j] = stored[k][j]
  <2> HIDE DEF stored
  <2> QED
    BY <1>2, <1>4, FlattenPieces
<1> HIDE DEF body
<1> DEFINE front == header \o body
<1>6. /\ front \in Seq(Byte) /\ Len(front) = Len(header) + Len(body)
      /\ \A i \in 1 .. Len(header) : front[i] = header[i]
      /\ \A i \in 1 .. Len(body) : front[Len(header) + i] = body[i]
  <2>1. header \in Seq(Byte) /\ body \in Seq(Byte)
    BY <1>2, <1>5
  <2> QED
    BY <2>1, Concat
<1> HIDE DEF front
<1>7. /\ front \o m.payload \in Seq(Byte)
      /\ Len(front \o m.payload) = Len(front) + Len(m.payload)
      /\ \A i \in 1 .. Len(front) : (front \o m.payload)[i] = front[i]
      /\ \A i \in 1 .. Len(m.payload) : (front \o m.payload)[Len(front) + i] = m.payload[i]
  <2> DEFINE rest == m.payload
  <2>1. front \in Seq(Byte) /\ rest \in Seq(Byte)
    BY <1>1, <1>6
  <2> HIDE DEF rest
  <2>2. /\ front \o rest \in Seq(Byte) /\ Len(front \o rest) = Len(front) + Len(rest)
        /\ \A i \in 1 .. Len(front) : (front \o rest)[i] = front[i]
        /\ \A i \in 1 .. Len(rest) : (front \o rest)[Len(front) + i] = rest[i]
    BY <2>1, Concat
  <2> QED
    BY <2>2 DEF rest
<1>8. Pack(m) = front \o m.payload
  BY <1>3 DEF front
<1>9. /\ at[1] \in Nat /\ at[n + 1] \in Nat /\ Len(header) = at[1] /\ at[1] <= at[n + 1]
      /\ Len(body) = at[n + 1] - at[1] /\ Len(front) = at[n + 1]
  <2>1. at[1] \in Nat /\ at[n] \in Nat /\ at[n + 1] \in Nat /\ at[n] <= at[n + 1] /\ n \in 1 .. n
    BY <1>2 DEF Adjacent
  <2>2. at[1] <= at[n]
    BY <1>5, <2>1
  <2> QED
    BY <1>2, <1>5, <1>6, <2>1, <2>2
<1>10. ASSUME NEW i \in 1 .. at[1]  PROVE Pack(m)[i] = header[i]
  <2>1. i \in 1 .. Len(header) /\ i \in 1 .. Len(front)
    BY <1>9
  <2> QED
    BY <2>1, <1>6, <1>7, <1>8
<1>11. ASSUME NEW k \in 1 .. n, NEW j \in 1 .. at[k + 1] - at[k]
       PROVE  Pack(m)[at[k] + j] = Store(m.fields[k], at[k + 1] - at[k])[j]
  <2> DEFINE x == (at[k] - at[1]) + j
  <2>1. at[k] \in Nat /\ at[k + 1] \in Nat /\ at[1] <= at[k] /\ at[k + 1] <= at[n + 1]
    <3>1. at[k] \in Nat /\ at[k + 1] \in Nat /\ k + 1 \in 1 .. n + 1
      BY <1>2 DEF Adjacent
    <3>2. at[k + 1] <= at[n + 1]
      BY <1>2, <3>1, Monotone
    <3> QED
      BY <1>5, <3>1, <3>2
  <2>2. x \in 1 .. Len(body) /\ at[k] + j = Len(header) + x /\ at[k] + j \in 1 .. Len(front)
    <3> DEFINE a == at[1]  b == at[k]  c == at[k + 1]  d == at[n + 1]
    <3>1. /\ a \in Nat /\ b \in Nat /\ c \in Nat /\ d \in Nat /\ a <= b /\ c <= d /\ j \in 1 .. c - b
          /\ Len(body) = d - a /\ Len(header) = a /\ Len(front) = d /\ x = (b - a) + j
      BY <1>9, <2>1
    <3> HIDE DEF a, b, c, d, x
    <3>2. x \in 1 .. d - a /\ b + j = a + x /\ b + j \in 1 .. d
      BY <3>1
    <3> QED
      BY <3>1, <3>2 DEF b
  <2>3. body[x] = stored[k][j]
    BY <1>5
  <2> HIDE DEF x
  <2> QED
    BY <2>2, <2>3, <1>6, <1>7, <1>8
<1>12. ASSUME NEW j \in 1 .. Len(m.payload)  PROVE Pack(m)[Size(m.kind) + j] = m.payload[j]
  BY <1>2, <1>7, <1>8, <1>9
<1>13. Encodes(Pack(m), m)
  BY <1>10, <1>11, <1>12 DEF Encodes, Width, at, n, header
<1> QED
  BY <1>2, <1>7, <1>8, <1>9, <1>13

-----------------------------------------------------------------------------
\* The parts of a message leave no byte open.
LEMMA EncodesOnce ==
  ASSUME NEW m, IsMessage(m), NEW b, NEW c, Encodes(b, m), Encodes(c, m)
  PROVE  \A i \in 1 .. Size(m.kind) + Len(m.payload) : b[i] = c[i]
<1> DEFINE at == Offsets(m.kind)  n == Count(m.kind)  rest == m.payload  size == Size(m.kind)
<1>1. m.kind \in Kinds /\ rest \in Seq(Byte) /\ Len(rest) \in Nat
  BY LenProperties DEF IsMessage
<1>2. /\ n \in Nat \ {0} /\ Adjacent(at, n) /\ at[1] \in Nat
      /\ size = at[n + 1] /\ size \in Nat
  BY <1>1, OffsetsGrow DEF Adjacent
<1> SUFFICES ASSUME NEW i \in 1 .. size + Len(rest)  PROVE b[i] = c[i]
  OBVIOUS
<1>3. CASE i \in 1 .. at[1]
  BY <1>3 DEF Encodes
<1>4. CASE i \in at[1] + 1 .. at[n + 1]
  <2> HIDE DEF at, n
  <2>1. PICK k \in 1 .. n : \E j \in 1 .. at[k + 1] - at[k] : i = at[k] + j
    BY <1>2, <1>4, Covered
  <2>2. PICK j \in 1 .. at[k + 1] - at[k] : i = at[k] + j
    BY <2>1
  <2>3. b[at[k] + j] = c[at[k] + j]
    BY DEF Encodes, Width, at, n
  <2> QED
    BY <2>2, <2>3
<1>5. CASE i \in size + 1 .. size + Len(rest)
  <2> HIDE DEF size, rest
  <2>1. i - size \in 1 .. Len(rest) /\ size + (i - size) = i
    BY <1>1, <1>2, <1>5
  <2>2. b[size + (i - size)] = c[size + (i - size)]
    BY <2>1 DEF Encodes, size, rest
  <2> QED
    BY <2>1, <2>2
<1> QED
  <2> HIDE DEF size, rest, at, n
  <2> QED
    BY <1>1, <1>2, <1>3, <1>4, <1>5

\* The bytes of a field, as the handlers cut them out.
LEMMA FieldBytes ==
  ASSUME NEW kind \in Kinds, NEW buffer \in Seq(Byte), Len(buffer) >= Size(kind),
         NEW k \in 1 .. Count(kind)
  PROVE  LET bytes == SubSeq(buffer, Offsets(kind)[k] + 1, Offsets(kind)[k + 1])
         IN  /\ Width(kind, k) \in Nat /\ bytes \in [1 .. Width(kind, k) -> Byte]
             /\ \A j \in 1 .. Width(kind, k) : bytes[j] = buffer[Offsets(kind)[k] + j]
<1> DEFINE at == Offsets(kind)  n == Count(kind)  a == at[k]  c == at[k + 1]
           bytes == SubSeq(buffer, a + 1, c)
<1>1. a \in Nat /\ c \in Nat /\ a <= c /\ c <= Len(buffer) /\ Len(buffer) \in Nat
  <2>1. n \in Nat \ {0} /\ Adjacent(at, n) /\ Size(kind) = at[n + 1]
    BY OffsetsGrow
  <2> HIDE DEF at, n
  <2>2. k \in 1 .. n /\ k + 1 \in 1 .. n + 1
    BY <2>1 DEF n
  <2>3. at[k + 1] <= at[n + 1]
    BY <2>1, <2>2, Monotone
  <2>4. at[k] \in Nat /\ at[k + 1] \in Nat /\ at[k] <= at[k + 1] /\ at[n + 1] \in Nat
    BY <2>1, <2>2 DEF Adjacent
  <2>5. Len(buffer) \in Nat /\ Len(buffer) >= at[n + 1]
    BY <2>1, LenProperties
  <2> QED
    BY <2>3, <2>4, <2>5
<1> HIDE DEF a, c
<1>2. bytes \in Seq(Byte) /\ Len(bytes) = c - a /\ \A j \in 1 .. c - a : bytes[j] = buffer[a + j]
  BY <1>1, Cut
<1> HIDE DEF bytes
<1>3. bytes \in [1 .. c - a -> Byte]
  BY <1>2, SeqAsFunction
<1>4. c - a \in Nat
  BY <1>1
<1> QED
  BY <1>2, <1>3, <1>4 DEF bytes, a, c, Width

\* What the handlers load from a message's bytes are its fields.
LEMMA FieldsRead ==
  ASSUME NEW m, IsMessage(m), NEW buffer \in Seq(Byte), Len(buffer) >= Size(m.kind),
         Encodes(buffer, m), \A k \in 1 .. Count(m.kind) : m.fields[k] \in Values(Width(m.kind, k))
  PROVE  Fields(m.kind, buffer) = m.fields
<1>1. m.kind \in Kinds /\ m.fields = [k \in 1 .. Count(m.kind) |-> m.fields[k]]
  BY DEF IsMessage
<1>2. ASSUME NEW k \in 1 .. Count(m.kind)
      PROVE  Load(SubSeq(buffer, Offsets(m.kind)[k] + 1, Offsets(m.kind)[k + 1])) = m.fields[k]
  <2> DEFINE bytes == SubSeq(buffer, Offsets(m.kind)[k] + 1, Offsets(m.kind)[k + 1])
             w == Width(m.kind, k)
  <2>1. /\ w \in Nat /\ bytes \in [1 .. w -> Byte]
        /\ \A j \in 1 .. w : bytes[j] = buffer[Offsets(m.kind)[k] + j]
    BY <1>1, FieldBytes
  <2>2. \A j \in 1 .. w : buffer[Offsets(m.kind)[k] + j] = Store(m.fields[k], w)[j]
    BY DEF Encodes
  <2> HIDE DEF bytes, w
  <2>3. m.fields[k] \in Values(w) /\ m.fields[k] \in Nat
    BY DEF w, IsMessage
  <2>4. Store(m.fields[k], w) \in [1 .. w -> Byte]
    BY <2>1, <2>3, StoreIsBytes
  <2>5. bytes = Store(m.fields[k], w)
    BY <2>1, <2>2, <2>4
  <2>6. Load(bytes) = m.fields[k]
    BY <2>1, <2>3, <2>5, LoadOfStore
  <2> QED
    BY <2>6 DEF bytes
<1> QED
  BY <1>1, <1>2 DEF Fields, Count

\* What the handlers load from any bytes, are the fields these bytes encode.
LEMMA FieldsMade ==
  ASSUME NEW kind \in Kinds, NEW buffer \in Seq(Byte), Len(buffer) >= Size(kind)
  PROVE  /\ Fields(kind, buffer) \in [1 .. Count(kind) -> Nat]
         /\ \A k \in 1 .. Count(kind) : \A j \in 1 .. Width(kind, k) :
              buffer[Offsets(kind)[k] + j] = Store(Fields(kind, buffer)[k], Width(kind, k))[j]
<1> DEFINE field(k) == Load(SubSeq(buffer, Offsets(kind)[k] + 1, Offsets(kind)[k + 1]))
<1>1. Fields(kind, buffer) = [k \in 1 .. Count(kind) |-> field(k)]
  BY DEF Fields, Count
<1>2. ASSUME NEW k \in 1 .. Count(kind)
      PROVE  /\ field(k) \in Nat
             /\ \A j \in 1 .. Width(kind, k) :
                  buffer[Offsets(kind)[k] + j] = Store(field(k), Width(kind, k))[j]
  <2> DEFINE bytes == SubSeq(buffer, Offsets(kind)[k] + 1, Offsets(kind)[k + 1])
             w == Width(kind, k)
  <2>1. /\ w \in Nat /\ bytes \in [1 .. w -> Byte]
        /\ \A j \in 1 .. w : bytes[j] = buffer[Offsets(kind)[k] + j]
    BY FieldBytes
  <2> HIDE DEF bytes, w
  <2>2. Load(bytes) \in Values(w) /\ Store(Load(bytes), w) = bytes
    BY <2>1, StoreOfLoad
  <2>3. Load(bytes) \in Nat
    BY <2>1, <2>2, ShiftIsPositive DEF Values
  <2> QED
    BY <2>1, <2>2, <2>3 DEF bytes, w
<1> HIDE DEF field
<1> QED
  BY <1>1, <1>2

\* A part of a sequence that is another.
LEMMA CutMiddle ==
  ASSUME NEW s \in Seq(Byte), NEW t \in Seq(Byte), NEW n \in Nat, Len(s) >= n + Len(t),
         \A j \in 1 .. Len(t) : s[n + j] = t[j]
  PROVE  SubSeq(s, n + 1, n + Len(t)) = t
<1> DEFINE c == n + Len(t)  u == SubSeq(s, n + 1, c)
<1>1. Len(t) \in Nat /\ c \in Nat /\ n <= c /\ c <= Len(s) /\ c - n = Len(t)
  BY LenProperties
<1>2. u \in Seq(Byte) /\ Len(u) = c - n /\ \A j \in 1 .. c - n : u[j] = s[n + j]
  <2> HIDE DEF c
  <2> QED
    BY <1>1, Cut
<1> HIDE DEF u
<1>3. u = t
  BY <1>1, <1>2, SeqEqual
<1> QED
  BY <1>3 DEF u

LEMMA CutFront ==
  ASSUME NEW s \in Seq(Byte), NEW t \in Seq(Byte), Len(s) >= Len(t),
         \A i \in 1 .. Len(t) : s[i] = t[i]
  PROVE  SubSeq(s, 1, Len(t)) = t
<1>1. Len(t) \in Nat /\ 0 \in Nat /\ 0 + Len(t) = Len(t) /\ 0 + 1 = 1
  BY LenProperties
<1>2. \A i \in 1 .. Len(t) : s[0 + i] = t[i]
  OBVIOUS
<1> QED
  BY <1>1, <1>2, CutMiddle

\* The parts of a message are within its length.
LEMMA EncodesWithin ==
  ASSUME NEW m, IsMessage(m), NEW b, NEW c, Encodes(b, m),
         \A i \in 1 .. Size(m.kind) + Len(m.payload) : c[i] = b[i]
  PROVE  Encodes(c, m)
<1> DEFINE at == Offsets(m.kind)  n == Count(m.kind)  rest == m.payload  size == Size(m.kind)
           header == HeaderOf(m.kind)
<1>1. m.kind \in Kinds /\ rest \in Seq(Byte) /\ Len(rest) \in Nat
  BY LenProperties DEF IsMessage
<1>2. /\ n \in Nat \ {0} /\ Adjacent(at, n) /\ at[1] \in Nat /\ 1 \in 1 .. n + 1
      /\ size = at[n + 1] /\ size \in Nat
  BY <1>1, OffsetsGrow DEF Adjacent
<1>3. /\ \A i \in 1 .. at[1] : b[i] = header[i]
      /\ \A k \in 1 .. n : \A j \in 1 .. at[k + 1] - at[k] :
           b[at[k] + j] = Store(m.fields[k], at[k + 1] - at[k])[j]
      /\ \A j \in 1 .. Len(rest) : b[size + j] = rest[j]
  BY DEF Encodes, Width
<1>4. \A i \in 1 .. size + Len(rest) : c[i] = b[i]
  OBVIOUS
<1>5. SUFFICES
        /\ \A i \in 1 .. at[1] : c[i] = header[i]
        /\ \A k \in 1 .. n : \A j \in 1 .. at[k + 1] - at[k] :
             c[at[k] + j] = Store(m.fields[k], at[k + 1] - at[k])[j]
        /\ \A j \in 1 .. Len(rest) : c[size + j] = rest[j]
  BY DEF Encodes, Width
<1> HIDE DEF at, n, rest, size, header
<1>6. at[1] <= size
  BY <1>2, Monotone
<1>7. ASSUME NEW i \in 1 .. at[1]  PROVE c[i] = header[i]
  <2>1. i \in 1 .. size + Len(rest)
    BY <1>1, <1>2, <1>6
  <2> QED
    BY <2>1, <1>3, <1>4
<1>8. ASSUME NEW k \in 1 .. n, NEW j \in 1 .. at[k + 1] - at[k]
      PROVE  c[at[k] + j] = Store(m.fields[k], at[k + 1] - at[k])[j]
  <2>1. k + 1 \in 1 .. n + 1 /\ at[k] \in Nat /\ at[k + 1] \in Nat
    BY <1>2 DEF Adjacent
  <2>2. at[k + 1] <= size
    BY <1>2, <2>1, Monotone
  <2>3. at[k] + j \in 1 .. size + Len(rest)
    <3> DEFINE x == at[k]  y == at[k + 1]
    <3>1. x \in Nat /\ y \in Nat /\ y <= size /\ j \in 1 .. y - x
      BY <2>1, <2>2
    <3> HIDE DEF x, y
    <3>2. x + j \in 1 .. size + Len(rest)
      BY <3>1, <1>1, <1>2
    <3> QED
      BY <3>2 DEF x
  <2> QED
    BY <2>3, <1>3, <1>4
<1>9. ASSUME NEW j \in 1 .. Len(rest)  PROVE c[size + j] = rest[j]
  <2>1. size + j \in 1 .. size + Len(rest)
    BY <1>1, <1>2
  <2> QED
    BY <2>1, <1>3, <1>4
<1> QED
  BY <1>7, <1>8, <1>9

-----------------------------------------------------------------------------
\* A message that a node sends.
WellFormed(m) ==
  /\ m = Msg(m.kind, m.fields, m.payload)
  /\ IsMessage(m)
  /\ \A k \in 1 .. Count(m.kind) : m.fields[k] \in Values(Width(m.kind, k))
  /\ m.kind \in {"signal", "request"} => m.payload = <<>>
  /\ m.kind = "sub" => Last(m.fields) = Len(m.payload)
  /\ Fits(m)

\* What a handler reads: the datagram, and the memory behind it.
Padded(kind, bytes, beyond) == bytes \o [i \in 1 .. Size(kind) |-> beyond]

LEMMA PaddedIsLonger ==
  ASSUME NEW kind \in Kinds, NEW bytes \in Seq(Byte), NEW beyond \in Byte
  PROVE  /\ Padded(kind, bytes, beyond) \in Seq(Byte) /\ Len(bytes) \in Nat
         /\ Len(Padded(kind, bytes, beyond)) = Len(bytes) + Size(kind)
         /\ \A i \in 1 .. Len(bytes) : Padded(kind, bytes, beyond)[i] = bytes[i]
<1> DEFINE pad == [i \in 1 .. Size(kind) |-> beyond]
<1>1. Size(kind) \in Nat /\ pad \in [1 .. Size(kind) -> Byte]
  BY OffsetsGrow
<1> HIDE DEF pad
<1>2. pad \in Seq(Byte) /\ Len(pad) = Size(kind)
  BY <1>1, FunctionAsSeq
<1>3. Padded(kind, bytes, beyond) = bytes \o pad
  BY DEF Padded, pad
<1>4. /\ bytes \o pad \in Seq(Byte) /\ Len(bytes \o pad) = Len(bytes) + Len(pad)
      /\ \A i \in 1 .. Len(bytes) : (bytes \o pad)[i] = bytes[i]
  BY <1>2, Concat
<1>5. Len(bytes) \in Nat
  BY LenProperties
<1> QED
  BY <1>2, <1>3, <1>4, <1>5

\* The sizes that unpack compares a uint8_t with.
LEMMA SmallSize ==
  ASSUME NEW kind \in {"signal", "request"}
  PROVE  LenMod \in Nat \ {0} /\ Size(kind) \in Nat /\ Size(kind) < LenMod
<1>1. LenMod \in Nat /\ MaskBytes \in Nat /\ LenMod > 6 + MaskBytes
  BY WireAssumption
<1>2. CASE kind = "signal"
  <2>1. Offsets(kind) = <<2, 4, 5>>
    BY <1>2 DEF Offsets
  <2>2. Size(kind) = 5
    BY <2>1 DEF Size, Last
  <2> QED
    BY <1>1, <2>2
<1>3. CASE kind = "request"
  <2>1. Offsets(kind) = <<2, 4, 4 + MaskBytes, 6 + MaskBytes>>
    BY <1>3 DEF Offsets
  <2>2. Size(kind) = 6 + MaskBytes
    BY <1>1, <2>1 DEF Size, Last
  <2> QED
    BY <1>1, <2>2
<1> QED
  BY <1>2, <1>3

\* Of the bytes that a message was packed into, its handler makes it again.
LEMMA HandleSent ==
  ASSUME NEW m, WellFormed(m), NEW beyond \in Byte
  PROVE  Handle(m.kind, Pack(m), beyond) = {m}
<1> DEFINE bytes == Pack(m)  buffer == Padded(m.kind, bytes, beyond)
           size == Size(m.kind)  header == HeaderOf(m.kind)  rest == m.payload
           fields == Fields(m.kind, buffer)
<1>1. IsMessage(m) /\ m.kind \in Kinds /\ rest \in Seq(Byte) /\ Len(rest) \in Nat
  BY LenProperties DEF WellFormed, IsMessage
<1>2. /\ bytes \in Seq(Byte) /\ Len(bytes) = size + Len(rest) /\ Encodes(bytes, m)
      /\ size \in Nat
  BY <1>1, PackEncodes, OffsetsGrow
<1>3. /\ buffer \in Seq(Byte) /\ Len(buffer) = Len(bytes) + size
      /\ \A i \in 1 .. Len(bytes) : buffer[i] = bytes[i]
  <2> HIDE DEF bytes, size
  <2> QED
    BY <1>1, <1>2, PaddedIsLonger DEF size
<1>4. Encodes(buffer, m)
  <2> HIDE DEF bytes, buffer
  <2> QED
    BY <1>1, <1>2, <1>3, EncodesWithin
<1>5. fields = m.fields
  <2>1. Len(buffer) >= size
    BY <1>1, <1>2, <1>3
  <2> HIDE DEF buffer
  <2> QED
    BY <1>1, <1>3, <1>4, <2>1, FieldsRead DEF WellFormed
<1>6. Handle(m.kind, bytes, beyond) =
        IF SubSeq(bytes, 1, Len(header)) = header /\ LengthIsRight(m.kind, fields, Len(bytes))
        THEN {Msg(m.kind, fields, SubSeq(buffer, size + 1, PayloadEnd(m.kind, fields, Len(bytes))))}
        ELSE {}
  BY DEF Handle, Padded
<1>7. SubSeq(bytes, 1, Len(header)) = header
  <2>1. /\ header \in Seq(Byte) /\ Len(header) = Offsets(m.kind)[1] /\ Len(header) \in Nat
        /\ Len(header) <= size
    <3>1. /\ Count(m.kind) \in Nat \ {0} /\ Adjacent(Offsets(m.kind), Count(m.kind))
          /\ header \in Seq(Byte) /\ Len(header) = Offsets(m.kind)[1]
          /\ size = Offsets(m.kind)[Count(m.kind) + 1] /\ 1 \in 1 .. Count(m.kind) + 1
      BY <1>1, OffsetsGrow
    <3>2. Offsets(m.kind)[1] <= size
      BY <3>1, Monotone
    <3> QED
      BY <3>1, <3>2, LenProperties
  <2>2. \A i \in 1 .. Len(header) : bytes[i] = header[i]
    BY <1>2, <2>1 DEF Encodes
  <2> HIDE DEF bytes, header, size
  <2> QED
    BY <1>1, <1>2, <2>1, <2>2, CutFront
<1>8. CASE m.kind \in {"signal", "request"}
  <2>1. Len(bytes) = size
    BY <1>2, <1>8, EmptySeq DEF WellFormed
  <2>2. LengthIsRight(m.kind, fields, Len(bytes)) <=> Len(bytes) % LenMod = size
    BY <1>8 DEF LengthIsRight
  <2>3. size % LenMod = size
    <3> HIDE DEF size
    <3>1. LenMod \in Nat \ {0} /\ size \in Nat /\ size < LenMod
      BY <1>8, SmallSize DEF size
    <3> QED
      BY <3>1
  <2>4. PayloadEnd(m.kind, fields, Len(bytes)) = 0
    BY <1>8 DEF PayloadEnd
  <2>5. SubSeq(buffer, size + 1, 0) = <<>> /\ m.payload = <<>>
    BY <1>2, <1>8, SubSeqEmpty DEF WellFormed
  <2> HIDE DEF bytes, header, size, buffer, fields
  <2> QED
    <3>1. Handle(m.kind, bytes, beyond) = {Msg(m.kind, m.fields, m.payload)}
      BY <1>5, <1>6, <1>7, <2>1, <2>2, <2>3, <2>4, <2>5
    <3>2. m = Msg(m.kind, m.fields, m.payload)
      BY DEF WellFormed
    <3> QED
      BY <3>1, <3>2 DEF bytes
<1>9. CASE m.kind \in {"sub", "broadcast"}
  <2>1. PayloadEnd(m.kind, fields, Len(bytes)) = size + Len(rest)
    BY <1>2, <1>5, <1>9 DEF PayloadEnd, WellFormed
  <2>2. LengthIsRight(m.kind, fields, Len(bytes))
    <3> HIDE DEF bytes, fields
    <3>1. m.kind = "sub" => Len(bytes) = size + Last(fields)
      BY <1>2, <1>5 DEF WellFormed
    <3>2. Len(bytes) >= size
      BY <1>1, <1>2
    <3> QED
      BY <1>9, <3>1, <3>2 DEF LengthIsRight
  <2>3. SubSeq(buffer, size + 1, size + Len(rest)) = rest
    <3>1. \A j \in 1 .. Len(rest) : buffer[size + j] = rest[j]
      BY <1>4 DEF Encodes
    <3>2. Len(buffer) >= size + Len(rest)
      BY <1>1, <1>2, <1>3
    <3> HIDE DEF buffer, size, rest
    <3> QED
      BY <1>1, <1>2, <1>3, <3>1, <3>2, CutMiddle
  <2> HIDE DEF bytes, header, size, buffer, fields, rest
  <2>4. Handle(m.kind, bytes, beyond) = {Msg(m.kind, m.fields, rest)}
    BY <1>5, <1>6, <1>7, <2>1, <2>2, <2>3
  <2> QED
    BY <2>4 DEF WellFormed, bytes, rest
<1> QED
  BY <1>1, <1>8, <1>9 DEF Kinds, BulkKinds

\* A number is no less than its remainder.
LEMMA WholeIsMore ==
  ASSUME NEW x \in Nat, NEW p \in Nat \ {0}
  PROVE  x >= x % p
<1> DEFINE q == x \div p  r == x % p
<1>1. q \in Nat /\ r \in 0 .. p - 1 /\ x = p * q + r
  BY Division
<1> HIDE DEF q, r
<1>2. p * q \in Nat
  BY <1>1, Product
<1> QED
  BY <1>1, <1>2 DEF r

\* The last field is one of them.
LEMMA LastField ==
  ASSUME NEW n \in Nat \ {0}, NEW f \in [1 .. n -> Nat]
  PROVE  Last(f) \in Nat
<1>1. Len(f) = n
  BY FunctionAsSeq
<1> QED
  BY <1>1 DEF Last

\* Every message of the bulk port starts with two bytes.
LEMMA HeaderFits ==
  ASSUME NEW kind \in BulkKinds
  PROVE  Offsets(kind)[1] = 2 /\ Size(kind) \in Nat /\ Size(kind) >= 2
<1>1. kind \in Kinds /\ Len(HeaderOf(kind)) = 2
  BY HeaderIsShort DEF Kinds, BulkKinds
<1>2. /\ Count(kind) \in Nat \ {0} /\ Adjacent(Offsets(kind), Count(kind))
      /\ Offsets(kind)[1] = 2
      /\ Size(kind) = Offsets(kind)[Count(kind) + 1] /\ Size(kind) \in Nat
  BY <1>1, OffsetsGrow
<1>3. 1 \in 1 .. Count(kind) + 1
  BY <1>2
<1>4. Offsets(kind)[1] <= Size(kind)
  BY <1>2, <1>3, Monotone
<1> QED
  BY <1>2, <1>4

\* No other handler of the port makes anything of them.
LEMMA HandleOthers ==
  ASSUME NEW m, WellFormed(m), m.kind \in BulkKinds, NEW beyond \in Byte,
         NEW kind \in BulkKinds, kind # m.kind
  PROVE  Handle(kind, Pack(m), beyond) = {}
<1> DEFINE bytes == Pack(m)  header == Header[m.kind]
<1>1. /\ bytes \in Seq(Byte) /\ Encodes(bytes, m) /\ Len(bytes) = Size(m.kind) + Len(m.payload)
  BY PackEncodes DEF WellFormed
<1>2. m.kind \in Kinds /\ kind \in Kinds /\ HeaderOf(m.kind) = header /\ HeaderOf(kind) = Header[kind]
  BY DEF Kinds, BulkKinds, HeaderOf
<1>3. header \in Seq(Byte) /\ Len(header) = 2 /\ Len(Header[kind]) = 2 /\ header # Header[kind]
  BY WireAssumption DEF IsInjective
<1>4. Offsets(m.kind)[1] = 2 /\ Size(m.kind) \in Nat /\ Size(m.kind) >= 2
  BY HeaderFits
<1>5. \A i \in 1 .. 2 : bytes[i] = header[i]
  BY <1>1, <1>2, <1>4 DEF Encodes
<1>6. Len(m.payload) \in Nat
  BY LenProperties DEF WellFormed, IsMessage
<1>7. SubSeq(bytes, 1, 2) = header
  <2>1. Len(bytes) >= Len(header)
    BY <1>1, <1>3, <1>4, <1>6
  <2> HIDE DEF bytes, header
  <2> QED
    BY <1>1, <1>3, <1>5, <2>1, CutFront
<1>8. ~(SubSeq(bytes, 1, Len(HeaderOf(kind))) = HeaderOf(kind))
  BY <1>2, <1>3, <1>7
<1> QED
  BY <1>8 DEF Handle

(***************************************************************************)
(* Whatever the bytes, a record that a handler makes of them is encoded by *)
(* them, and they are as long as its kind allows; the memory behind them   *)
(* has no part in it.                                                      *)
(***************************************************************************)
LEMMA HandleMade ==
  ASSUME NEW kind \in Kinds, NEW bytes \in Seq(Byte), NEW beyond \in Byte,
         NEW r \in Handle(kind, bytes, beyond)
  PROVE  /\ IsMessage(r) /\ r.kind = kind /\ Encodes(bytes, r)
         /\ r = Msg(r.kind, r.fields, r.payload)
         /\ IF kind \in {"signal", "request"}
            THEN /\ r.payload = <<>> /\ Len(bytes) >= Size(kind)
                 /\ Len(bytes) % LenMod = Size(kind)
            ELSE Len(bytes) = Size(kind) + Len(r.payload)
<1> DEFINE buffer == Padded(kind, bytes, beyond)  fields == Fields(kind, buffer)
           size == Size(kind)  header == HeaderOf(kind)  end == PayloadEnd(kind, fields, Len(bytes))
           rest == SubSeq(buffer, size + 1, end)
<1>1. /\ SubSeq(bytes, 1, Len(header)) = header /\ LengthIsRight(kind, fields, Len(bytes))
      /\ r = Msg(kind, fields, rest)
  BY DEF Handle, Padded
<1>2. r.kind = kind /\ r.fields = fields /\ r.payload = rest
  BY <1>1 DEF Msg
<1>3. /\ buffer \in Seq(Byte) /\ Len(bytes) \in Nat /\ Len(buffer) = Len(bytes) + size
      /\ \A i \in 1 .. Len(bytes) : buffer[i] = bytes[i]
  BY PaddedIsLonger
<1>4. /\ Count(kind) \in Nat \ {0} /\ Adjacent(Offsets(kind), Count(kind))
      /\ header \in Seq(Byte) /\ Len(header) = Offsets(kind)[1] /\ Len(header) \in Nat
      /\ size = Offsets(kind)[Count(kind) + 1] /\ size \in Nat /\ 1 \in 1 .. Count(kind) + 1
  BY OffsetsGrow, LenProperties
<1>5. Len(header) <= size
  <2>1. Offsets(kind)[1] <= Offsets(kind)[Count(kind) + 1]
    BY <1>4, Monotone
  <2> QED
    BY <1>4, <2>1
<1>6. /\ fields \in [1 .. Count(kind) -> Nat]
      /\ \A k \in 1 .. Count(kind) : \A j \in 1 .. Width(kind, k) :
           buffer[Offsets(kind)[k] + j] = Store(fields[k], Width(kind, k))[j]
  <2>1. Len(buffer) >= size
    BY <1>3, <1>4
  <2> HIDE DEF buffer
  <2> QED
    BY <1>3, <2>1, FieldsMade
<1> HIDE DEF buffer, fields
<1>7. Len(bytes) >= size
  <2>1. CASE kind \in {"signal", "request"}
    <3>1. Len(bytes) % LenMod = size
      BY <1>1, <2>1 DEF LengthIsRight
    <3>2. LenMod \in Nat \ {0}
      BY <2>1, SmallSize
    <3>3. Len(bytes) >= Len(bytes) % LenMod
      BY <1>3, <3>2, WholeIsMore
    <3> QED
      BY <3>1, <3>3
  <2>2. CASE kind = "sub"
    <3>1. Len(bytes) = size + Last(fields)
      BY <1>1, <2>2 DEF LengthIsRight
    <3>2. Last(fields) \in Nat
      BY <1>4, <1>6, LastField
    <3> QED
      BY <1>4, <3>1, <3>2
  <2>3. CASE kind = "broadcast"
    BY <1>1, <2>3 DEF LengthIsRight
  <2> QED
    BY <2>1, <2>2, <2>3 DEF Kinds, BulkKinds
<1>8. IF kind \in {"signal", "request"}
      THEN rest = <<>> /\ Len(bytes) % LenMod = size
      ELSE end = Len(bytes)
  <2>1. CASE kind \in {"signal", "request"}
    <3>1. end = 0 /\ Len(bytes) % LenMod = size
      BY <1>1, <2>1 DEF LengthIsRight, PayloadEnd
    <3>2. rest = <<>>
      BY <1>4, <3>1, SubSeqEmpty
    <3> QED
      BY <2>1, <3>1, <3>2
  <2>2. CASE kind = "sub"
    BY <1>1, <2>2 DEF LengthIsRight, PayloadEnd
  <2>3. CASE kind = "broadcast"
    BY <2>3 DEF PayloadEnd
  <2> QED
    BY <2>1, <2>2, <2>3 DEF Kinds, BulkKinds
<1> HIDE DEF end, size
<1>9. /\ rest \in Seq(Byte) /\ Len(rest) \in Nat /\ size + Len(rest) <= Len(bytes)
      /\ kind \notin {"signal", "request"} => size + Len(rest) = Len(bytes)
      /\ \A j \in 1 .. Len(rest) : buffer[size + j] = rest[j]
  <2>1. CASE kind \in {"signal", "request"}
    <3>1. rest \in Seq(Byte) /\ Len(rest) = 0
      BY <1>8, <2>1, EmptySeq
    <3> QED
      BY <1>4, <1>7, <2>1, <3>1
  <2>2. CASE kind \notin {"signal", "request"}
    <3>1. end = Len(bytes) /\ end \in Nat /\ size <= end /\ end <= Len(buffer)
      BY <1>3, <1>4, <1>7, <1>8, <2>2
    <3>2. /\ rest \in Seq(Byte) /\ Len(rest) = end - size
          /\ \A j \in 1 .. end - size : rest[j] = buffer[size + j]
      <4>1. /\ buffer \in Seq(Byte) /\ size \in Nat /\ end \in Nat
            /\ size <= end /\ end <= Len(buffer)
        BY <1>3, <1>4, <3>1
      <4> QED
        BY <4>1, Cut
    <3> HIDE DEF rest
    <3> QED
      BY <1>4, <3>1, <3>2
  <2> QED
    BY <2>1, <2>2
<1> HIDE DEF rest
<1>10. IsMessage(r)
  BY <1>2, <1>6, <1>9 DEF IsMessage
<1>11. Encodes(buffer, r)
  <2>1. ASSUME NEW i \in 1 .. Len(header)  PROVE buffer[i] = header[i]
    <3>1. Len(header) <= Len(bytes) /\ i \in 1 .. Len(bytes)
      BY <1>3, <1>4, <1>5, <1>7
    <3>2. bytes[i] = header[i]
      <4>1. SubSeq(bytes, 0 + 1, Len(header))[i] = bytes[0 + i]
        <5>1. 0 \in Nat /\ 0 <= Len(header) /\ i \in 1 .. Len(header) - 0
          BY <1>4
        <5> HIDE DEF header
        <5> QED
          BY <1>4, <3>1, <5>1, Cut
      <4> QED
        BY <1>1, <4>1
    <3> QED
      BY <1>3, <3>1, <3>2
  <2> QED
    BY <1>2, <1>4, <1>6, <1>9, <2>1 DEF Encodes, size
<1>12. Encodes(bytes, r)
  <2>1. ASSUME NEW i \in 1 .. Size(r.kind) + Len(r.payload)  PROVE bytes[i] = buffer[i]
    <3>1. i \in 1 .. Len(bytes)
      BY <1>2, <1>3, <1>4, <1>9 DEF size
    <3> QED
      BY <1>3, <3>1
  <2> QED
    BY <1>10, <1>11, <2>1, EncodesWithin
<1> QED
  <2>1. kind \in {"signal", "request"} =>
          r.payload = <<>> /\ Len(bytes) >= size /\ Len(bytes) % LenMod = size
    BY <1>2, <1>7, <1>8
  <2>2. kind \notin {"signal", "request"} => Len(bytes) = size + Len(r.payload)
    BY <1>2, <1>9
  <2>3. r = Msg(r.kind, r.fields, r.payload)
    BY <1>1 DEF Msg
  <2> QED
    BY <1>2, <1>10, <1>12, <2>1, <2>2, <2>3 DEF size

-----------------------------------------------------------------------------
(***************************************************************************)
(* The inductive invariant: what is in flight is a message that was packed *)
(* and goes to the port of its kind, or the bytes of another program.      *)
(***************************************************************************)
InFlight ==
  /\ datagram \in Seq(Byte)
  /\ sent # None => /\ WellFormed(sent) /\ datagram = Pack(sent)
                    /\ port = "bulk" => sent.kind \in BulkKinds
                    /\ port = "broadcast" => sent.kind = "broadcast"

WireInv == InFlight /\ (port # "read" => events = {}) /\ ReceivedAsSent /\ OnlyFormats

\* One byte.
LEMMA OneByte == Values(1) = Byte /\ Pow(ByteMod, 2) \in Nat
<1>1. Pow(ByteMod, 0) = 1 /\ Pow(ByteMod, 0 + 1) = ByteMod * Pow(ByteMod, 0)
  BY BaseIsPositive, PowRecursion
<1>2. Pow(ByteMod, 1) = ByteMod
  BY <1>1, BaseIsPositive
<1> QED
  BY <1>2, ShiftIsPositive, BaseIsPositive DEF Values

LEMMA ValuesAreNatural ==
  ASSUME NEW w \in Nat
  PROVE  Values(w) \subseteq Nat
BY ShiftIsPositive DEF Values

LEMMA PayloadIsBytes ==
  ASSUME NEW kind \in {"sub", "broadcast"}, NEW payload \in Payloads(kind)
  PROVE  /\ payload \in Seq(Byte) /\ Len(payload) \in 0 .. Room[kind]
         /\ kind = "sub" => Len(payload) \in Values(2)
<1>1. PICK n \in 0 .. Room[kind] : payload \in [1 .. n -> Byte]
  BY DEF Payloads
<1>2. Room[kind] \in Nat /\ (kind = "sub" => Room[kind] < Pow(ByteMod, 2))
  BY WireAssumption
<1>3. n \in Nat /\ (kind = "sub" => n < Pow(ByteMod, 2)) /\ Pow(ByteMod, 2) \in Nat
  BY <1>2, OneByte
<1>4. payload \in Seq(Byte) /\ Len(payload) = n
  BY <1>1, <1>3, FunctionAsSeq
<1> QED
  BY <1>3, <1>4 DEF Values

\* What fits its buffer is copied as it is.
LEMMA FittingIsKept ==
  ASSUME NEW m, IsMessage(m), NEW behind, Fits(Copied(m, behind)) \/ Fits(m),
         m = Msg(m.kind, m.fields, m.payload)
  PROVE  Copied(m, behind) = m
<1> DEFINE p == m.payload
           copy == [i \in 1 .. Len(p) |-> IF i <= Room[m.kind] THEN p[i] ELSE behind]
<1>1. p \in Seq(Byte) /\ Len(p) \in Nat /\ DOMAIN p = 1 .. Len(p) /\ p \in [1 .. Len(p) -> Byte]
  BY SeqAsFunction DEF IsMessage
<1>2. Copied(m, behind) = Msg(m.kind, m.fields, copy)
  BY DEF Copied, Msg
<1>3. Len(copy) = Len(p)
  <2> DEFINE n == Len(p)  S == Byte \cup {behind}
  <2>1. copy \in [1 .. n -> S] /\ n \in Nat
    BY <1>1
  <2> HIDE DEF copy, n, S
  <2>2. Len(copy) = n
    BY <2>1, FunctionAsSeq
  <2> QED
    BY <2>2 DEF n
<1>4. \A i \in 1 .. Len(p) : i <= Room[m.kind]
  BY <1>2, <1>3 DEF Fits, Msg
<1>5. copy = p
  BY <1>1, <1>4
<1> QED
  BY <1>2, <1>5

\* What the senders send.
LEMMA SignalWellFormed ==
  ASSUME NEW id \in Ids, NEW n \in Byte
  PROVE  WellFormed(Msg("signal", <<id, n>>, <<>>))
<1>1. Offsets("signal") = <<2, 4, 5>>
  BY DEF Offsets
<1>2. Count("signal") = 2 /\ Width("signal", 1) = 2 /\ Width("signal", 2) = 1
  BY <1>1 DEF Count, Width
<1>3. id \in Values(2) /\ id \in Nat /\ n \in Values(1) /\ n \in Nat
  BY OneByte, ValuesAreNatural, BaseIsPositive DEF Ids
<1>4. <<>> \in Seq(Byte)
  BY EmptySeq
<1> QED
  BY <1>2, <1>3, <1>4, EmptySeq DEF WellFormed, IsMessage, Msg, Kinds, BulkKinds, Fits

LEMMA RequestWellFormed ==
  ASSUME NEW id \in Ids, NEW mask \in Values(MaskBytes), NEW period \in Ids
  PROVE  WellFormed(Msg("request", <<id, mask, period>>, <<>>))
<1>1. Offsets("request") = <<2, 4, 4 + MaskBytes, 6 + MaskBytes>> /\ MaskBytes \in Nat
  BY WireAssumption DEF Offsets
<1>2. /\ Count("request") = 3 /\ Width("request", 1) = 2
      /\ Width("request", 2) = MaskBytes /\ Width("request", 3) = 2
  BY <1>1 DEF Count, Width
<1>3. /\ id \in Values(2) /\ id \in Nat /\ mask \in Nat
      /\ period \in Values(2) /\ period \in Nat
  BY <1>1, ValuesAreNatural DEF Ids
<1>4. <<>> \in Seq(Byte)
  BY EmptySeq
<1> QED
  BY <1>2, <1>3, <1>4, EmptySeq DEF WellFormed, IsMessage, Msg, Kinds, BulkKinds, Fits

LEMMA SubWellFormed ==
  ASSUME NEW id \in Ids, NEW index \in Byte, NEW n \in Byte, NEW payload \in Payloads("sub")
  PROVE  WellFormed(Msg("sub", <<id, index, n, Len(payload)>>, payload))
<1>1. Offsets("sub") = <<2, 4, 5, 6, 8>>
  BY DEF Offsets
<1>2. /\ Count("sub") = 4 /\ Width("sub", 1) = 2 /\ Width("sub", 2) = 1
      /\ Width("sub", 3) = 1 /\ Width("sub", 4) = 2
  BY <1>1 DEF Count, Width
<1>3. /\ id \in Values(2) /\ id \in Nat /\ index \in Values(1) /\ index \in Nat
      /\ n \in Values(1) /\ n \in Nat
  BY OneByte, ValuesAreNatural, BaseIsPositive DEF Ids
<1>4. /\ payload \in Seq(Byte) /\ Len(payload) \in Values(2) /\ Len(payload) \in Nat
      /\ Len(payload) \in 0 .. Room["sub"] /\ Room["sub"] \in Nat
  BY PayloadIsBytes, ValuesAreNatural, WireAssumption
<1>5. Last(<<id, index, n, Len(payload)>>) = Len(payload)
  BY DEF Last
<1> QED
  BY <1>2, <1>3, <1>4, <1>5 DEF WellFormed, IsMessage, Msg, Kinds, BulkKinds, Fits

LEMMA BroadcastWellFormed ==
  ASSUME NEW id \in Words, NEW version \in Words, NEW data \in Payloads("broadcast")
  PROVE  WellFormed(Msg("broadcast", <<id, version>>, data))
<1>1. Offsets("broadcast") = <<0, WordBytes, 2 * WordBytes>> /\ WordBytes \in Nat
  BY WireAssumption DEF Offsets
<1>2. /\ Count("broadcast") = 2 /\ Width("broadcast", 1) = WordBytes
      /\ Width("broadcast", 2) = WordBytes
  BY <1>1 DEF Count, Width
<1>3. /\ id \in Values(WordBytes) /\ id \in Nat
      /\ version \in Values(WordBytes) /\ version \in Nat
  BY <1>1, ValuesAreNatural DEF Words
<1>4. /\ data \in Seq(Byte) /\ Len(data) \in 0 .. Room["broadcast"]
      /\ Room["broadcast"] \in Nat
  BY PayloadIsBytes, WireAssumption
<1> QED
  BY <1>2, <1>3, <1>4 DEF WellFormed, IsMessage, Msg, Kinds, BulkKinds, Fits

\* What is left over a multiple can be taken from the front.
LEMMA TailIsMultiple ==
  ASSUME NEW x \in Nat, NEW p \in Nat \ {0}, NEW r \in Nat, r = x % p, x >= r
  PROVE  (x - r) % p = 0
<1> DEFINE q == x \div p  y == x - r  z == y \div p  t == y % p
<1>1. q \in Nat /\ x = p * q + r /\ y \in Nat
  BY Division
<1>2. y = p * q + 0
  BY <1>1, Product
<1> HIDE DEF q, y
<1>3. y \in Nat
  BY <1>1
<1>4. y \div p \in Nat /\ y % p \in 0 .. p - 1 /\ y = p * (y \div p) + (y % p)
  BY <1>3, Division
<1> HIDE DEF z, t
<1>5. t = 0
  <2> DEFINE o == 0
  <2>1. z \in Nat /\ t \in 0 .. p - 1 /\ o \in 0 .. p - 1 /\ p * z + t = p * q + o
    BY <1>2, <1>4 DEF z, t
  <2> HIDE DEF o
  <2>2. t = o
    BY <1>1, <2>1, OneWay
  <2> QED
    BY <2>2 DEF o
<1> QED
  BY <1>5 DEF t, y

\* A record of bytes is made only of bytes in its format.
LEMMA RecordIsFormat ==
  ASSUME NEW kind \in Kinds, NEW bytes \in Seq(Byte), NEW beyond \in Byte, NEW behind,
         NEW m \in Handle(kind, bytes, beyond), NEW r, r = Copied(m, behind), Fits(r)
  PROVE  /\ IsPrefix(Pack(r), bytes)
         /\ IF r.kind \in {"signal", "request"}
            THEN (Len(bytes) - Len(Pack(r))) % LenMod = 0
            ELSE bytes = Pack(r)
<1> DEFINE packed == Pack(r)  size == Size(kind)
<1>0. r = m
  BY HandleMade, FittingIsKept
<1>1. /\ IsMessage(r) /\ r.kind = kind /\ Encodes(bytes, r)
      /\ IF kind \in {"signal", "request"}
         THEN r.payload = <<>> /\ Len(bytes) >= size /\ Len(bytes) % LenMod = size
         ELSE Len(bytes) = size + Len(r.payload)
  BY <1>0, HandleMade
<1>2. /\ packed \in Seq(Byte) /\ Len(packed) = size + Len(r.payload) /\ Encodes(packed, r)
  BY <1>1, PackEncodes
<1>3. \A i \in 1 .. Len(packed) : bytes[i] = packed[i]
  <2> HIDE DEF packed, size
  <2>1. \A i \in 1 .. Size(r.kind) + Len(r.payload) : bytes[i] = packed[i]
    BY <1>1, <1>2, EncodesOnce
  <2> QED
    BY <1>1, <1>2, <2>1 DEF size
<1>4. size \in Nat /\ Len(bytes) \in Nat /\ Len(packed) \in Nat /\ Len(r.payload) \in Nat
  BY <1>1, <1>2, OffsetsGrow, LenProperties DEF IsMessage
<1> HIDE DEF packed, size
<1>5. Len(packed) <= Len(bytes) /\ (kind \in {"signal", "request"} => Len(packed) = size)
  <2>1. CASE kind \in {"signal", "request"}
    BY <1>1, <1>2, <1>4, <2>1, EmptySeq
  <2>2. CASE kind \notin {"signal", "request"}
    BY <1>1, <1>2, <1>4, <2>2
  <2> QED
    BY <2>1, <2>2
<1>6. IsPrefix(packed, bytes)
  <2>1. SubSeq(bytes, 1, Len(packed)) = packed
    BY <1>2, <1>3, <1>4, <1>5, CutFront
  <2>2. SubSeq(packed, 1, Len(packed)) = packed
    BY <1>2, SubSeqFull
  <2> QED
    BY <1>5, <2>1, <2>2 DEF IsPrefix
<1>7. CASE kind \in {"signal", "request"}
  <2> DEFINE n == Len(bytes)
  <2>1. n \in Nat /\ n >= size /\ n % LenMod = size /\ LenMod \in Nat \ {0}
    BY <1>1, <1>4, <1>7, SmallSize
  <2> HIDE DEF n
  <2>2. (n - size) % LenMod = 0
    BY <1>4, <2>1, TailIsMultiple
  <2> QED
    BY <1>1, <1>5, <1>6, <1>7, <2>2 DEF packed, n
<1>8. CASE kind \notin {"signal", "request"}
  <2>1. Len(bytes) = Len(packed)
    BY <1>1, <1>2, <1>8
  <2>2. bytes = packed
    BY <1>2, <1>3, <2>1, SeqEqual
  <2> QED
    BY <1>1, <1>6, <1>8, <2>2 DEF packed
<1> QED
  BY <1>7, <1>8

-----------------------------------------------------------------------------
LEMMA InitEstablishes == Init => WireInv
<1> SUFFICES ASSUME Init PROVE WireInv
  OBVIOUS
<1>1. port = "none" /\ datagram = <<>> /\ sent = None /\ events = {}
  BY DEF Init
<1>2. <<>> \in Seq(Byte)
  BY EmptySeq
<1> QED
  BY <1>1, <1>2 DEF WireInv, InFlight, ReceivedAsSent, OnlyFormats

\* A datagram that no toolkit sends keeps the invariant, and so does one that a sender packed.
LEMMA NoiseKeeps ==
  ASSUME NEW p \in {"bulk", "broadcast"}, NEW bytes \in Seq(Byte), Transmit(p, bytes, None)
  PROVE  WireInv'
<1>1. port' = p /\ datagram' = bytes /\ sent' = None /\ events' = {}
  BY DEF Transmit
<1> QED
  BY <1>1 DEF WireInv, InFlight, ReceivedAsSent, OnlyFormats

LEMMA SendKeeps ==
  ASSUME NEW p \in {"bulk", "broadcast"}, NEW m, WellFormed(m), Transmit(p, Pack(m), m),
         p = "bulk" => m.kind \in BulkKinds, p = "broadcast" => m.kind = "broadcast"
  PROVE  WireInv'
<1>1. port' = p /\ datagram' = Pack(m) /\ sent' = m /\ events' = {}
  BY DEF Transmit
<1>2. Pack(m) \in Seq(Byte)
  BY PackEncodes DEF WellFormed
<1>3. InFlight'
  BY <1>1, <1>2 DEF InFlight
<1> QED
  BY <1>1, <1>3 DEF WireInv, ReceivedAsSent, OnlyFormats

LEMMA ReceiveBulkKeeps ==
  ASSUME WireInv, ReceiveBulk
  PROVE  WireInv'
<1>1. /\ port = "bulk" /\ port' = "read" /\ datagram' = datagram /\ sent' = sent
      /\ overrun' = overrun
      /\ datagram \in Seq(Byte)
      /\ sent # None => WellFormed(sent) /\ datagram = Pack(sent) /\ sent.kind \in BulkKinds
  BY DEF ReceiveBulk, WireInv, InFlight
<1>2. PICK beyond \in Byte, behind \in Byte :
        events' = IF Len(datagram) < 2
                  THEN {}
                  ELSE {Copied(m, behind) :
                          m \in UNION {Handle(kind, datagram, beyond) : kind \in BulkKinds}}
  BY DEF ReceiveBulk
<1>3. InFlight'
  BY <1>1 DEF InFlight
<1>4. OnlyFormats'
  <2>1. ASSUME NEW r \in events', Fits(r)
        PROVE  /\ IsPrefix(Pack(r), datagram)
               /\ IF r.kind \in {"signal", "request"}
                  THEN (Len(datagram) - Len(Pack(r))) % LenMod = 0
                  ELSE datagram = Pack(r)
    <3>1. PICK kind \in BulkKinds : \E m \in Handle(kind, datagram, beyond) : r = Copied(m, behind)
      BY <1>2
    <3>3. PICK m \in Handle(kind, datagram, beyond) : r = Copied(m, behind)
      BY <3>1
    <3>2. kind \in Kinds
      BY DEF Kinds
    <3> QED
      BY <1>1, <2>1, <3>2, <3>3, RecordIsFormat
  <2> QED
    BY <1>1, <2>1 DEF OnlyFormats, Fits
<1>5. ASSUME sent # None  PROVE events' = {sent}
  <2>1. WellFormed(sent) /\ datagram = Pack(sent) /\ sent.kind \in BulkKinds
    BY <1>1, <1>5
  <2>2. Handle(sent.kind, datagram, beyond) = {sent}
    BY <2>1, HandleSent
  <2>3. \A kind \in BulkKinds : kind # sent.kind => Handle(kind, datagram, beyond) = {}
    BY <2>1, HandleOthers
  <2>4. ~(Len(datagram) < 2)
    <3>1. Len(datagram) = Size(sent.kind) + Len(sent.payload) /\ Len(sent.payload) \in Nat
      BY <2>1, PackEncodes, LenProperties DEF WellFormed, IsMessage
    <3>2. Size(sent.kind) \in Nat /\ Size(sent.kind) >= 2
      BY <2>1, HeaderFits
    <3> QED
      BY <3>1, <3>2
  <2>5. UNION {Handle(kind, datagram, beyond) : kind \in BulkKinds} = {sent}
    BY <2>1, <2>2, <2>3
  <2>6. Copied(sent, behind) = sent
    BY <2>1, FittingIsKept DEF WellFormed
  <2> QED
    BY <1>2, <2>4, <2>5, <2>6
<1>6. ReceivedAsSent'
  BY <1>1, <1>5 DEF ReceivedAsSent
<1> QED
  BY <1>1, <1>3, <1>4, <1>6 DEF WireInv

LEMMA ReceiveBroadcastKeeps ==
  ASSUME WireInv, ReceiveBroadcast
  PROVE  WireInv'
<1>1. /\ port = "broadcast" /\ port' = "read" /\ datagram' = datagram /\ sent' = sent
      /\ overrun' = overrun
      /\ datagram \in Seq(Byte)
      /\ sent # None => WellFormed(sent) /\ datagram = Pack(sent) /\ sent.kind = "broadcast"
  BY DEF ReceiveBroadcast, WireInv, InFlight
<1>2. 0 \in Byte /\ "broadcast" \in Kinds
  BY BaseIsPositive DEF Kinds
<1>0. PICK behind \in Byte :
        events' = {Copied(m, behind) : m \in Handle("broadcast", datagram, 0)}
  BY DEF ReceiveBroadcast
<1>3. InFlight'
  BY <1>1 DEF InFlight
<1>4. OnlyFormats'
  <2>1. ASSUME NEW r \in events', Fits(r)
        PROVE  /\ IsPrefix(Pack(r), datagram)
               /\ IF r.kind \in {"signal", "request"}
                  THEN (Len(datagram) - Len(Pack(r))) % LenMod = 0
                  ELSE datagram = Pack(r)
    <3>1. PICK m \in Handle("broadcast", datagram, 0) : r = Copied(m, behind)
      BY <1>0
    <3> QED
      BY <1>1, <1>2, <2>1, <3>1, RecordIsFormat
  <2> QED
    BY <1>1, <2>1 DEF OnlyFormats, Fits
<1>5. ASSUME sent # None  PROVE events' = {sent}
  <2>1. Handle("broadcast", datagram, 0) = {sent}
    BY <1>1, <1>2, <1>5, HandleSent
  <2>2. Copied(sent, behind) = sent
    BY <1>1, <1>5, FittingIsKept DEF WellFormed
  <2> QED
    BY <1>0, <2>1, <2>2
<1>6. ReceivedAsSent'
  BY <1>1, <1>5 DEF ReceivedAsSent
<1> QED
  BY <1>1, <1>3, <1>4, <1>6 DEF WireInv

LEMMA StepsKeep == WireInv /\ [Next]_vars => WireInv'
<1> SUFFICES ASSUME WireInv, [Next]_vars PROVE WireInv'
  OBVIOUS
<1>1. CASE SendSignal
  <2>1. PICK id \in Ids, n \in Byte : Bulk("signal", <<id, n>>, <<>>)
    BY <1>1 DEF SendSignal
  <2> DEFINE m == Msg("signal", <<id, n>>, <<>>)
  <2>2. WellFormed(m) /\ Transmit("bulk", Pack(m), m) /\ m.kind \in BulkKinds
    BY <2>1, SignalWellFormed DEF Bulk, Msg, BulkKinds
  <2> HIDE DEF m
  <2> QED
    BY <2>2, SendKeeps
<1>2. CASE SendRequest
  <2>1. PICK id \in Ids, mask \in Values(MaskBytes), period \in Ids :
          Bulk("request", <<id, mask, period>>, <<>>)
    BY <1>2 DEF SendRequest
  <2> DEFINE m == Msg("request", <<id, mask, period>>, <<>>)
  <2>2. WellFormed(m) /\ Transmit("bulk", Pack(m), m) /\ m.kind \in BulkKinds
    BY <2>1, RequestWellFormed DEF Bulk, Msg, BulkKinds
  <2> HIDE DEF m
  <2> QED
    BY <2>2, SendKeeps
<1>3. CASE SendSub
  <2>1. PICK id \in Ids, index \in Byte, n \in Byte, payload \in Payloads("sub") :
          Bulk("sub", <<id, index, n, Len(payload)>>, payload)
    BY <1>3 DEF SendSub
  <2> DEFINE m == Msg("sub", <<id, index, n, Len(payload)>>, payload)
  <2>2. WellFormed(m) /\ Transmit("bulk", Pack(m), m) /\ m.kind \in BulkKinds
    BY <2>1, SubWellFormed DEF Bulk, Msg, BulkKinds
  <2> HIDE DEF m
  <2> QED
    BY <2>2, SendKeeps
<1>4. CASE SendBroadcast
  <2>1. PICK id \in Words, version \in Words, data \in Payloads("broadcast") :
          LET m == Msg("broadcast", <<id, version>>, data) IN Transmit("broadcast", Pack(m), m)
    BY <1>4 DEF SendBroadcast
  <2> DEFINE m == Msg("broadcast", <<id, version>>, data)
  <2>2. WellFormed(m) /\ Transmit("broadcast", Pack(m), m) /\ m.kind = "broadcast"
    BY <2>1, BroadcastWellFormed DEF Msg
  <2> HIDE DEF m
  <2> QED
    BY <2>2, SendKeeps
<1>5. CASE Noise
  <2>1. PICK p \in {"bulk", "broadcast"}, n \in 0 .. MaxNoise :
          \E bytes \in [1 .. n -> Byte] : Transmit(p, bytes, None)
    BY <1>5 DEF Noise
  <2>2. PICK bytes \in [1 .. n -> Byte] : Transmit(p, bytes, None)
    BY <2>1
  <2>3. bytes \in Seq(Byte)
    BY FunctionAsSeq
  <2> QED
    BY <2>2, <2>3, NoiseKeeps
<1>6. CASE LongNoise
  <2>1. PICK id \in Ids, n \in Byte, tail \in 1 .. MaxTail :
          Transmit("bulk", Pack(Msg("signal", <<id, n>>, <<>>)) \o [i \in 1 .. tail |-> 0], None)
    BY <1>6 DEF LongNoise
  <2> DEFINE front == Pack(Msg("signal", <<id, n>>, <<>>))  pad == [i \in 1 .. tail |-> 0]
  <2>2. front \in Seq(Byte)
    BY SignalWellFormed, PackEncodes DEF WellFormed
  <2>3. pad \in [1 .. tail -> Byte] /\ tail \in Nat
    BY BaseIsPositive
  <2>4. Transmit("bulk", front \o pad, None)
    BY <2>1
  <2> HIDE DEF front, pad
  <2>5. front \o pad \in Seq(Byte)
    BY <2>2, <2>3, FunctionAsSeq, Concat
  <2> QED
    BY <2>4, <2>5, NoiseKeeps
<1>7. CASE ReceiveBulk
  BY <1>7, ReceiveBulkKeeps
<1>8. CASE ReceiveBroadcast
  BY <1>8, ReceiveBroadcastKeeps
<1>9. CASE Dispatched
  <2>1. port' = "none" /\ datagram' = <<>> /\ sent' = None /\ events' = {}
    BY <1>9 DEF Dispatched
  <2>2. <<>> \in Seq(Byte)
    BY EmptySeq
  <2> QED
    BY <2>1, <2>2 DEF WireInv, InFlight, ReceivedAsSent, OnlyFormats
<1>10. CASE UNCHANGED vars
  BY <1>10 DEF vars, WireInv, InFlight, ReceivedAsSent, OnlyFormats
<1> QED
  BY <1>1, <1>2, <1>3, <1>4, <1>5, <1>6, <1>7, <1>8, <1>9, <1>10 DEF Next

LEMMA WireInvariant == Spec => []WireInv
<1>1. Init => WireInv
  BY InitEstablishes
<1>2. WireInv /\ [Next]_vars => WireInv'
  BY StepsKeep
<1> QED
  BY <1>1, <1>2, PTL DEF Spec

(***************************************************************************)
(* The pack and unpack functions of the three bulk messages and of the     *)
(* broadcast agree: with bytes and fields of any width and any payload     *)
(* that the sender may send, of what one node packs exactly one handler of *)
(* another makes the same, as long as no payload of another program was    *)
(* longer than the buffer it is copied to.                                 *)
(***************************************************************************)
THEOREM SentIsReceived == Spec => []ReceivedAsSent
<1>1. WireInv => ReceivedAsSent
  BY DEF WireInv
<1> QED
  BY <1>1, WireInvariant, PTL

(***************************************************************************)
(* The callbacks make a record whose payload fits its buffer of no other   *)
(* bytes than those that encode it, however short the datagram and         *)
(* whatever lies behind it, up to the first payload that does not fit:     *)
(* its length is not compared with the buffer's.                           *)
(***************************************************************************)
THEOREM OnlyEncodedBytes == Spec => []OnlyFormats
<1>1. WireInv => OnlyFormats
  BY DEF WireInv
<1> QED
  BY <1>1, WireInvariant, PTL
=============================================================================
