--------------------------- MODULE MqttCodecProofs ---------------------------
(***************************************************************************)
(* What the encoders of MqttCodec write, the decoders read: for every      *)
(* length, message and string, as long as the remaining length has no more *)
(* than four bytes.                                                        *)
(***************************************************************************)
EXTENDS MqttCodec, TLAPS, WellFoundedInduction, SequenceTheorems

-----------------------------------------------------------------------------
(* Numbers, and functions that are defined from one number to the next. *)

\* A set of numbers has a least one.
LEMMA LeastOf ==
  ASSUME NEW S \in SUBSET Nat, S # {}
  PROVE  \E x \in S : \A y \in S : x <= y
<1>1. PICK x \in S : \A y \in S : ~ (<<y, x>> \in OpToRel(<, Nat))
  BY NatLessThanWellFounded, WFMin
<1>2. ASSUME NEW y \in S PROVE x <= y
  <2>1. x \in Nat /\ y \in Nat
    OBVIOUS
  <2>2. ~ (y < x)
    BY <1>1, <2>1 DEF OpToRel
  <2> QED  BY SMT, <2>1, <2>2
<1> QED  BY <1>2

\* What holds of 0, and of each number up to n if of the one before, holds up to n.
LEMMA Upward ==
  ASSUME NEW n \in Nat, NEW T, 0 \in T, \A i \in 1..n : i - 1 \in T => i \in T
  PROVE  \A i \in 0..n : i \in T
<1> DEFINE S == {i \in 0..n : i \notin T}
<1>1. SUFFICES ASSUME S # {} PROVE FALSE
  OBVIOUS
<1>2. S \in SUBSET Nat
  OBVIOUS
<1>3. PICK x \in S : \A y \in S : x <= y
  <2> HIDE DEF S
  <2> QED  BY <1>1, <1>2, LeastOf
<1>4. x \in 0..n /\ x \notin T
  OBVIOUS
<1>5. x \in 1..n /\ x - 1 \in 0..n /\ ~ (x <= x - 1)
  BY <1>4
<1>6. x - 1 \in T
  BY <1>3, <1>5
<1> QED  BY <1>4, <1>5, <1>6


\* The values that steps take a first one through, each in its set.
Stepped(n, T, first, step) ==
  \E f : /\ f = [i \in 0..n |-> IF i = 0 THEN first ELSE step[i][f[i - 1]]]
         /\ \A i \in 0..n : f[i] \in T[i]

LEMMA Steps ==
  ASSUME NEW n \in Nat, NEW T, NEW first \in T[0], NEW step,
         \A i \in 1..n : \A x \in T[i - 1] : step[i][x] \in T[i]
  PROVE  Stepped(n, T, first, step)
<1> DEFINE Made(m, f) == /\ f = [i \in 0..m |-> IF i = 0 THEN first ELSE step[i][f[i - 1]]]
                         /\ \A i \in 0..m : f[i] \in T[i]
           S == {m \in 0..n : \E f : Made(m, f)}
<1>1. 0 \in S
  <2> DEFINE f == [i \in 0..0 |-> first]
  <2>1. \A i \in 0..0 : i = 0
    OBVIOUS
  <2>2. f = [i \in 0..0 |-> IF i = 0 THEN first ELSE step[i][f[i - 1]]]
    BY <2>1
  <2>3. \A i \in 0..0 : f[i] \in T[i]
    BY <2>1
  <2>4. Made(0, f)
    BY <2>2, <2>3
  <2> HIDE DEF Made, f
  <2> QED  BY <2>4
<1>2. ASSUME NEW m \in 1..n, m - 1 \in S PROVE m \in S
  <2>1. PICK g : Made(m - 1, g)
    BY <1>2
  <2> DEFINE f == [i \in 0..m |-> IF i = m THEN step[m][g[m - 1]] ELSE g[i]]
  <2>2. /\ \A i \in 0..m : i # m => i \in 0..m - 1
        /\ \A i \in 1..m : i - 1 \in 0..m /\ i - 1 # m
    OBVIOUS
  <2>3. ASSUME NEW i \in 0..m - 1 PROVE g[i] = (IF i = 0 THEN first ELSE step[i][g[i - 1]]) /\ g[i] \in T[i]
    <3>1. g = [j \in 0..m - 1 |-> IF j = 0 THEN first ELSE step[j][g[j - 1]]] /\ \A j \in 0..m - 1 : g[j] \in T[j]
      BY <2>1
    <3> HIDE DEF Made
    <3> QED  BY <3>1
  <2>4. ASSUME NEW i \in 0..m PROVE f[i] = (IF i = 0 THEN first ELSE step[i][f[i - 1]]) /\ f[i] \in T[i]
    <3>1. CASE i = m
      <4>1. f[i] = step[m][g[m - 1]] /\ m - 1 \in 0..m - 1 /\ i # 0
        BY <3>1
      <4>2. f[m - 1] = g[m - 1]
        BY <2>2
      <4>3. g[m - 1] \in T[m - 1]
        BY <2>3, <4>1
      <4> HIDE DEF f
      <4> QED  BY <3>1, <4>1, <4>2, <4>3
    <3>2. CASE i # m
      <4>1. f[i] = g[i] /\ i \in 0..m - 1
        BY <2>2, <3>2
      <4>2. i # 0 => f[i - 1] = g[i - 1]
        BY <2>2, <4>1
      <4> HIDE DEF f
      <4> QED  BY <2>3, <4>1, <4>2
    <3> QED  BY <3>1, <3>2
  <2>5. f = [i \in 0..m |-> IF i = 0 THEN first ELSE step[i][f[i - 1]]]
    <3>1. f = [i \in 0..m |-> f[i]]
      OBVIOUS
    <3> HIDE DEF f
    <3> QED  BY <2>4, <3>1
  <2>6. Made(m, f)
    <3> HIDE DEF f
    <3> QED  BY <2>4, <2>5
  <2> HIDE DEF Made, f
  <2> QED  BY <2>6
<1>3. n \in S
  <2> HIDE DEF S
  <2>1. \A i \in 0..n : i \in S
    BY <1>1, <1>2, Upward
  <2> QED  BY <2>1
<1> QED  BY <1>3 DEF Stepped

-----------------------------------------------------------------------------
(* The length field. *)

\* LengthBytes is what its definition says: a function from all numbers, found
\* by putting together those on the numbers up to a bound.
LEMMA LengthBytesIs ==
  \A n \in Nat : LengthBytes[n] =
    IF n < 128 THEN <<n>> ELSE <<(n % 128) + 128>> \o LengthBytes[n \div 128]
<1> DEFINE On(f, n) == IF n < 128 THEN <<n>> ELSE <<(n % 128) + 128>> \o f[n \div 128]
           R(f) == f = [n \in Nat |-> On(f, n)]
           Upto(g, k) == g = [n \in 0..k |-> On(g, n)]
           G(k) == CHOOSE g : Upto(g, k)
           whole == [n \in Nat |-> G(n)[n]]
<1>1. ASSUME NEW n \in Nat, n >= 128 PROVE n \div 128 \in 0..n - 1
  BY <1>1
<1>2. ASSUME NEW k \in Nat PROVE \E g : Upto(g, k)
  <2> DEFINE S == {m \in 0..k : \E g : Upto(g, m)}
  <2>1. 0 \in S
    <3> DEFINE f == [n \in 0..0 |-> <<n>>]
    <3>1. \A n \in 0..0 : n = 0
      OBVIOUS
    <3>2. f = [n \in 0..0 |-> On(f, n)]
      BY <3>1
    <3> HIDE DEF f
    <3> QED  BY <3>2
  <2>2. ASSUME NEW m \in 1..k, m - 1 \in S PROVE m \in S
    <3>1. PICK g : Upto(g, m - 1)
      BY <2>2
    <3> DEFINE f == [n \in 0..m |-> On(g, n)]
    <3>2. ASSUME NEW n \in 0..m PROVE f[n] = On(f, n)
      <4>1. CASE n < 128
        BY <4>1
      <4>2. CASE n >= 128
        <5>1. n \div 128 \in 0..m - 1 /\ n \div 128 \in 0..m
          BY <1>1, <4>2
        <5>2. g[n \div 128] = On(g, n \div 128)
          BY <3>1, <5>1
        <5>3. f[n \div 128] = On(g, n \div 128)
          BY <5>1
        <5>4. f[n] = <<(n % 128) + 128>> \o g[n \div 128]
          BY <4>2
        <5> HIDE DEF f
        <5> QED  BY <4>2, <5>2, <5>3, <5>4
      <4> QED  BY <4>1, <4>2
    <3>3. f = [n \in 0..m |-> f[n]]
      OBVIOUS
    <3> HIDE DEF f
    <3>4. Upto(f, m)
      BY <3>2, <3>3
    <3> HIDE DEF Upto
    <3> QED  BY <3>4
  <2> HIDE DEF S
  <2>3. \A m \in 0..k : m \in S
    BY <2>1, <2>2, Upward
  <2>4. k \in S
    BY <2>3
  <2> QED  BY <2>4 DEF S
<1>3. ASSUME NEW k \in Nat PROVE Upto(G(k), k)
  <2> HIDE DEF Upto
  <2> QED  BY <1>2
<1> HIDE DEF G
<1>4. ASSUME NEW k \in Nat, NEW m \in 0..k PROVE G(k)[m] = G(m)[m]
  <2> DEFINE S == {n \in 0..m : G(k)[n] # G(m)[n]}
  <2>1. SUFFICES ASSUME S # {} PROVE FALSE
    OBVIOUS
  <2>2. S \in SUBSET Nat
    OBVIOUS
  <2>3. PICK x \in S : \A y \in S : x <= y
    <3> HIDE DEF S
    <3> QED  BY <2>1, <2>2, LeastOf
  <2>4. x \in 0..m /\ x \in 0..k /\ m \in Nat /\ G(k)[x] # G(m)[x]
    OBVIOUS
  <2>5. G(k)[x] = On(G(k), x) /\ G(m)[x] = On(G(m), x)
    <3>1. Upto(G(k), k) /\ Upto(G(m), m)
      BY <1>3, <2>4
    <3> QED  BY <2>4, <3>1
  <2>6. x >= 128
    BY <2>4, <2>5
  <2>7. x \div 128 \in 0..x - 1
    BY <1>1, <2>4, <2>6
  <2>8. x \div 128 \in 0..m /\ ~ (x <= x \div 128)
    BY <2>4, <2>7
  <2>9. x \div 128 \notin S
    BY <2>3, <2>8
  <2>10. G(k)[x \div 128] = G(m)[x \div 128]
    BY <2>8, <2>9
  <2> QED  BY <2>4, <2>5, <2>10
<1>5. ASSUME NEW n \in Nat PROVE whole[n] = On(whole, n)
  <2>1. whole[n] = On(G(n), n)
    <3>1. Upto(G(n), n) /\ n \in 0..n
      <4>1. n \in 0..n
        OBVIOUS
      <4> HIDE DEF Upto
      <4> QED  BY <1>3, <4>1
    <3>2. G(n)[n] = On(G(n), n)
      BY <3>1
    <3> QED  BY <3>2
  <2>2. CASE n < 128
    BY <2>1, <2>2
  <2>3. CASE n >= 128
    <3>1. n \div 128 \in 0..n /\ n \div 128 \in Nat
      BY <1>1, <2>3
    <3>2. whole[n \div 128] = G(n)[n \div 128]
      BY <1>4, <3>1
    <3> HIDE DEF whole
    <3> QED  BY <2>1, <2>3, <3>2
  <2> QED  BY <2>2, <2>3
<1>6. R(whole)
  <2>1. whole = [n \in Nat |-> whole[n]]
    OBVIOUS
  <2> HIDE DEF whole
  <2> QED  BY <1>5, <2>1
<1>7. R(LengthBytes)
  <2>1. LengthBytes = CHOOSE f : R(f)
    BY Zenon DEF LengthBytes
  <2> HIDE DEF R, whole
  <2> QED  BY <1>6, <2>1
<1> QED  BY <1>7

\* Numbers of two, three and four bytes are less than these.
Two   == 16384
Three == 2097152
Four  == 268435456

LEMMA LengthBytesMore ==
  ASSUME NEW n \in Nat, n >= 128, NEW x, x = n \div 128, NEW u, u = n % 128
  PROVE  LengthBytes[n] = <<u + 128>> \o LengthBytes[x]
<1>1. LengthBytes[n] = IF n < 128 THEN <<n>> ELSE <<(n % 128) + 128>> \o LengthBytes[n \div 128]
  BY LengthBytesIs
<1>2. ~ (n < 128)
  OBVIOUS
<1> QED  BY Zenon, <1>1, <1>2

LEMMA Parts ==
  ASSUME NEW n \in Nat, n < Four
  PROVE  /\ n \div 128 \in Nat /\ n \div Two \in Nat /\ n \div Three \in Nat
         /\ (n \div 128) \div 128 = n \div Two /\ (n \div Two) \div 128 = n \div Three
         /\ n \div Three < 128
         /\ n \div 128 < 128 <=> n < Two
         /\ n \div Two < 128 <=> n < Three
         /\ 128 < Two /\ Two < Three
         /\ n % 128 \in 0..127 /\ (n \div 128) % 128 \in 0..127 /\ (n \div Two) % 128 \in 0..127
         /\ (n < Two => n \div 128 \in 0..127) /\ (n < Three => n \div Two \in 0..127)
         /\ n \div Three \in 0..127
BY SMT DEF Two, Three, Four

\* One before others.
Before(S, x, t, s) ==
  s \in Seq(S) /\ Len(s) = Len(t) + 1 /\ s[1] = x /\ \A i \in 1..Len(t) : s[i + 1] = t[i]

LEMMA Cons ==
  ASSUME NEW S, NEW x \in S, NEW t \in Seq(S)
  PROVE  Before(S, x, t, <<x>> \o t)
<1> DEFINE s == <<x>> \o t
<1>1. <<x>> \in Seq(S) /\ Len(<<x>>) = 1 /\ <<x>>[1] = x
  OBVIOUS
<1>2. /\ <<x>> \o t \in Seq(S) /\ Len(<<x>> \o t) = Len(<<x>>) + Len(t)
      /\ \A i \in 1..Len(<<x>>) + Len(t) : (<<x>> \o t)[i] = IF i <= Len(<<x>>) THEN <<x>>[i] ELSE t[i - Len(<<x>>)]
  BY <1>1, ConcatProperties
<1>3. Len(t) \in Nat
  BY LenProperties
<1>4. s[1] = x
  BY <1>1, <1>2, <1>3
<1>5. ASSUME NEW i \in 1..Len(t) PROVE s[i + 1] = t[i]
  <2>1. i + 1 \in 1..1 + Len(t) /\ ~ (i + 1 <= 1) /\ (i + 1) - 1 = i
    BY <1>3
  <2> QED  BY <1>1, <1>2, <2>1
<1>6. s \in Seq(S) /\ Len(s) = Len(t) + 1
  BY <1>1, <1>2, <1>3
<1> HIDE DEF s
<1>7. Before(S, x, t, s)
  BY <1>4, <1>5, <1>6 DEF Before
<1> QED  BY <1>7 DEF s

Byte == 0..255

LEMMA Longer ==
  ASSUME NEW n \in Nat, n >= 128, NEW u, u = n % 128, NEW x, x = n \div 128,
         NEW t, t = LengthBytes[x], t \in Seq(Byte), NEW s, s = LengthBytes[n]
  PROVE  Before(Byte, u + 128, t, s)
<1>1. s = <<u + 128>> \o t
  BY Zenon, LengthBytesMore
<1>2. u + 128 \in Byte
  BY DEF Byte
<1> QED  BY Zenon, <1>1, <1>2, Cons

\* The bytes of a number, the lowest seven bits first, all but the last with the
\* bit that says there is more.
OneByte(b, n)    == Len(b) = 1 /\ b[1] = n
TwoBytes(b, n)   == Len(b) = 2 /\ b[1] = (n % 128) + 128 /\ b[2] = n \div 128
ThreeBytes(b, n) == Len(b) = 3 /\ b[1] = (n % 128) + 128 /\ b[2] = ((n \div 128) % 128) + 128
                    /\ b[3] = n \div Two
FourBytes(b, n)  == Len(b) = 4 /\ b[1] = (n % 128) + 128 /\ b[2] = ((n \div 128) % 128) + 128
                    /\ b[3] = ((n \div Two) % 128) + 128 /\ b[4] = n \div Three

LEMMA LengthBytesAre ==
  ASSUME NEW n \in Nat, n < Four, NEW b, b = LengthBytes[n]
  PROVE  /\ b \in Seq(Byte)
         /\ n < 128 => OneByte(b, n)
         /\ n >= 128 /\ n < Two => TwoBytes(b, n)
         /\ n >= Two /\ n < Three => ThreeBytes(b, n)
         /\ n >= Three => FourBytes(b, n)
<1>1. PICK x \in Nat, y \in Nat, z \in Nat : x = n \div 128 /\ y = n \div Two /\ z = n \div Three
  BY Parts
<1>2. PICK u \in 0..127, v \in 0..127, w \in 0..127 : u = n % 128 /\ v = x % 128 /\ w = y % 128
  BY <1>1, Parts
<1>3. /\ x \div 128 = y /\ y \div 128 = z /\ z < 128
      /\ x < 128 <=> n < Two
      /\ y < 128 <=> n < Three
      /\ 128 < Two /\ Two < Three /\ Two \in Nat /\ Three \in Nat
  BY <1>1, Parts DEF Two, Three
<1>4. PICK bx : bx = LengthBytes[x]
  OBVIOUS
<1>5. PICK by : by = LengthBytes[y]
  OBVIOUS
<1>6. PICK bz : bz = LengthBytes[z]
  OBVIOUS
<1>7. u + 128 \in Byte /\ v + 128 \in Byte /\ w + 128 \in Byte
  BY DEF Byte
<1>8. ASSUME NEW m \in Nat, m < 128
      PROVE  LengthBytes[m] \in Seq(Byte) /\ Len(LengthBytes[m]) = 1 /\ LengthBytes[m][1] = m
  <2>1. LengthBytes[m] = <<m>>
    BY <1>8, LengthBytesIs
  <2>2. m \in Byte
    BY <1>8 DEF Byte
  <2> QED  BY <2>1, <2>2
<1>9. bz \in Seq(Byte) /\ Len(bz) = 1 /\ bz[1] = z
  BY <1>3, <1>6, <1>8
<1>10. y >= 128 => by \in Seq(Byte) /\ Len(by) = 2 /\ by[1] = w + 128 /\ by[2] = z
  <2>1. SUFFICES ASSUME y >= 128 PROVE by \in Seq(Byte) /\ Len(by) = 2 /\ by[1] = w + 128 /\ by[2] = z
    OBVIOUS
  <2>2. w = y % 128 /\ z = y \div 128
    BY <1>2, <1>3
  <2>3. Before(Byte, w + 128, bz, by)
    BY Zenon, <1>5, <1>6, <1>9, <2>1, <2>2, Longer
  <2> QED  BY <1>9, <2>3 DEF Before
<1>11. y < 128 => by \in Seq(Byte) /\ Len(by) = 1 /\ by[1] = y
  BY <1>5, <1>8
<1>13. x >= 128 => Before(Byte, v + 128, by, bx)
  <2>1. by \in Seq(Byte)
    BY <1>10, <1>11
  <2>2. v = x % 128 /\ y = x \div 128
    BY <1>2, <1>3
  <2> QED  BY Zenon, <1>4, <1>5, <2>1, <2>2, Longer
<1>14. x < 128 => bx \in Seq(Byte) /\ Len(bx) = 1 /\ bx[1] = x
  BY <1>4, <1>8
<1>16. n >= 128 => Before(Byte, u + 128, bx, b)
  <2>1. bx \in Seq(Byte)
    BY <1>13, <1>14 DEF Before
  <2> QED  BY Zenon, <1>1, <1>2, <1>4, <2>1, Longer
<1>17. n < 128 => b \in Seq(Byte) /\ OneByte(b, n)
  BY <1>8 DEF OneByte
<1>18. b \in Seq(Byte)
  BY <1>16, <1>17 DEF Before
<1>19. n >= 128 /\ n < Two => TwoBytes(b, n)
  <2>1. SUFFICES ASSUME n >= 128 /\ n < Two PROVE TwoBytes(b, n)
    OBVIOUS
  <2>2. Len(bx) = 1 /\ bx[1] = x
    BY <1>3, <1>14, <2>1
  <2>3. Len(b) = 2 /\ b[1] = u + 128 /\ b[2] = x
    BY <1>3, <1>16, <2>1, <2>2 DEF Before
  <2> QED  BY <1>1, <1>2, <2>3 DEF TwoBytes
<1>20. n >= Two /\ n < Three => ThreeBytes(b, n)
  <2>1. SUFFICES ASSUME n >= Two /\ n < Three PROVE ThreeBytes(b, n)
    OBVIOUS
  <2>4. Len(by) = 1 /\ by[1] = y /\ x >= 128
    BY <1>3, <1>11, <2>1
  <2>2. Len(bx) = 2 /\ bx[1] = v + 128 /\ bx[2] = y
    BY <1>13, <2>4 DEF Before
  <2>3. Len(b) = 3 /\ b[1] = u + 128 /\ b[2] = v + 128 /\ b[3] = y
    BY <1>3, <1>16, <2>1, <2>2 DEF Before
  <2> QED  BY <1>1, <1>2, <2>3 DEF ThreeBytes
<1>21. n >= Three => FourBytes(b, n)
  <2>1. SUFFICES ASSUME n >= Three PROVE FourBytes(b, n)
    OBVIOUS
  <2>4. Len(by) = 2 /\ by[1] = w + 128 /\ by[2] = z /\ x >= 128
    BY <1>3, <1>10, <2>1
  <2>2. Len(bx) = 3 /\ bx[1] = v + 128 /\ bx[2] = w + 128 /\ bx[3] = z
    BY <1>13, <2>4 DEF Before
  <2>3. Len(b) = 4 /\ b[1] = u + 128 /\ b[2] = v + 128 /\ b[3] = w + 128 /\ b[4] = z
    BY <1>3, <1>16, <2>1, <2>2 DEF Before
  <2> QED  BY <1>1, <1>2, <2>3 DEF FourBytes
<1> QED  BY <1>17, <1>18, <1>19, <1>20, <1>21

-----------------------------------------------------------------------------
(* Reading the length field. *)

LEMMA Powers ==
  /\ 128 ^ 0 = 1 /\ 128 ^ 1 = 128 /\ 128 ^ 2 = Two /\ 128 ^ 3 = Three
  /\ Two \in Nat /\ Three \in Nat
BY SMT DEF Two, Three

Added(h, k, x) == x + (h[k + 1] % 128) * 128 ^ (k - 1)

LEMMA AddedType ==
  ASSUME NEW h \in Seq(Byte), NEW k \in 1..4, k + 1 <= Len(h), NEW x \in Nat
  PROVE  Added(h, k, x) \in Nat
<1>1. k + 1 \in 1..Len(h)
  BY LenProperties
<1>2. PICK b \in Byte : b = h[k + 1]
  BY <1>1, ElementOfSeq
<1>3. PICK d \in Nat : d = b % 128
  BY DEF Byte
<1>4. 128 ^ (k - 1) \in Nat
  <2>1. k - 1 = 0 \/ k - 1 = 1 \/ k - 1 = 2 \/ k - 1 = 3
    OBVIOUS
  <2>2. 128 ^ (k - 1) = 1 \/ 128 ^ (k - 1) = 128 \/ 128 ^ (k - 1) = Two \/ 128 ^ (k - 1) = Three
    BY Zenon, <2>1, Powers
  <2>3. PICK w : w = 128 ^ (k - 1)
    OBVIOUS
  <2>4. w = 1 \/ w = 128 \/ w = Two \/ w = Three
    BY Zenon, <2>2, <2>3
  <2>5. w \in Nat
    BY <2>4, Powers
  <2> QED  BY Zenon, <2>3, <2>5
<1>5. PICK w \in Nat : w = 128 ^ (k - 1)
  BY <1>4
<1>6. x + d * w \in Nat
  OBVIOUS
<1>7. Added(h, k, x) = x + d * w
  BY Zenon, <1>2, <1>3, <1>5 DEF Added
<1> QED  BY <1>6, <1>7

\* The values of the loop in get_size, round by round.
Counted(h, c, v) == v[0] = 0 /\ \A k \in 1..c : v[k] = Added(h, k, v[k - 1])

LEMMA SizeCounted ==
  ASSUME NEW h \in Seq(Byte), NEW c \in 1..4, Len(h) = c + 1
  PROVE  \E v : Counted(h, c, v) /\ GetSize(h) = [ok |-> TRUE, value |-> v[c]]
<1> DEFINE R(v) == v = [k \in 0..c |-> IF k = 0 THEN 0 ELSE Added(h, k, v[k - 1])]
           T == [k \in 0..c |-> Nat]
           step == [k \in 1..c |-> [x \in Nat |-> Added(h, k, x)]]
           value == CHOOSE v : R(v)
<1>1. ASSUME NEW k \in 1..c, NEW x \in Nat PROVE step[k][x] = Added(h, k, x) /\ Added(h, k, x) \in Nat
  <2>1. k \in 1..4 /\ k + 1 <= Len(h)
    OBVIOUS
  <2> QED  BY <2>1, AddedType
<1>2. \A k \in 1..c : k - 1 \in 0..c /\ k \in 0..c
  OBVIOUS
<1>3. \E v : R(v)
  <2> HIDE DEF step
  <2>1. \A k \in 1..c : \A x \in T[k - 1] : step[k][x] \in T[k]
    BY <1>1, <1>2
  <2>2. 0 \in T[0] /\ c \in Nat
    OBVIOUS
  <2>3. \A k \in 0..c : T[k] = Nat
    OBVIOUS
  <2> HIDE DEF T
  <2>4. Stepped(c, T, 0, step)
    BY <2>1, <2>2, Steps
  <2>5. PICK f : /\ f = [k \in 0..c |-> IF k = 0 THEN 0 ELSE step[k][f[k - 1]]]
                 /\ \A k \in 0..c : f[k] \in T[k]
    BY <2>4 DEF Stepped
  <2>6. ASSUME NEW k \in 0..c
        PROVE  (IF k = 0 THEN 0 ELSE step[k][f[k - 1]]) = IF k = 0 THEN 0 ELSE Added(h, k, f[k - 1])
    <3>1. k # 0 => k \in 1..c /\ k - 1 \in 0..c
      OBVIOUS
    <3>2. k # 0 => f[k - 1] \in Nat
      BY <2>3, <2>5, <3>1
    <3> QED  BY <1>1, <3>1, <3>2
  <2>7. R(f)
    BY <2>5, <2>6
  <2> HIDE DEF R
  <2> QED  BY <2>7
<1>4. R(value)
  <2> HIDE DEF R
  <2> QED  BY <1>3
<1>5. GetSize(h) = [ok |-> TRUE, value |-> value[c]]
  <2>1. Len(h) - 1 = c /\ c <= 4
    OBVIOUS
  <2>2. value = CHOOSE v : v = [k \in 0..c |-> IF k = 0 THEN 0 ELSE v[k - 1] + (h[k + 1] % 128) * 128 ^ (k - 1)]
    BY Zenon DEF Added
  <2> HIDE DEF value, R
  <2> QED  BY <2>1, <2>2 DEF GetSize
<1> HIDE DEF value
<1>6. Counted(h, c, value)
  <2>1. ASSUME NEW k \in 0..c PROVE value[k] = IF k = 0 THEN 0 ELSE Added(h, k, value[k - 1])
    BY <1>4
  <2> HIDE DEF R
  <2>2. 0 \in 0..c /\ \A k \in 1..c : k # 0
    OBVIOUS
  <2> QED  BY <1>2, <2>1, <2>2 DEF Counted
<1> QED  BY <1>5, <1>6

LEMMA Digits ==
  ASSUME NEW n \in Nat, n < Four
  PROVE  /\ n = (n % 128) + (n \div 128) * 128
         /\ n = (n % 128) + ((n \div 128) % 128) * 128 + (n \div Two) * Two
         /\ n = (n % 128) + ((n \div 128) % 128) * 128 + ((n \div Two) % 128) * Two + (n \div Three) * Three
BY SMT DEF Two, Three, Four

LEMMA AddedIs ==
  ASSUME NEW h, NEW x
  PROVE  /\ Added(h, 1, x) = x + (h[2] % 128) * 1
         /\ Added(h, 2, x) = x + (h[3] % 128) * 128
         /\ Added(h, 3, x) = x + (h[4] % 128) * Two
         /\ Added(h, 4, x) = x + (h[5] % 128) * Three
<1>1. 1 - 1 = 0 /\ 2 - 1 = 1 /\ 3 - 1 = 2 /\ 4 - 1 = 3 /\ 1 + 1 = 2 /\ 2 + 1 = 3 /\ 3 + 1 = 4 /\ 4 + 1 = 5
  OBVIOUS
<1>2. Added(h, 1, x) = x + (h[2] % 128) * 1
  BY Zenon, <1>1, Powers DEF Added
<1>3. Added(h, 2, x) = x + (h[3] % 128) * 128
  BY Zenon, <1>1, Powers DEF Added
<1>4. Added(h, 3, x) = x + (h[4] % 128) * Two
  BY Zenon, <1>1, Powers DEF Added
<1>5. Added(h, 4, x) = x + (h[5] % 128) * Three
  BY Zenon, <1>1, Powers DEF Added
<1> QED  BY Zenon, <1>2, <1>3, <1>4, <1>5

Sums(h, c, v) ==
  /\ v[1] = 0 + (h[2] % 128) * 1
  /\ c >= 2 => v[2] = v[1] + (h[3] % 128) * 128
  /\ c >= 3 => v[3] = v[2] + (h[4] % 128) * Two
  /\ c >= 4 => v[4] = v[3] + (h[5] % 128) * Three

LEMMA CountedIs ==
  ASSUME NEW h, NEW c \in 1..4, NEW v, Counted(h, c, v)
  PROVE  Sums(h, c, v)
<1>1. /\ 1 - 1 = 0 /\ 2 - 1 = 1 /\ 3 - 1 = 2 /\ 4 - 1 = 3
      /\ 1 \in 1..c /\ (c >= 2 => 2 \in 1..c) /\ (c >= 3 => 3 \in 1..c) /\ (c >= 4 => 4 \in 1..c)
  OBVIOUS
<1>2. v[0] = 0 /\ \A k \in 1..c : v[k] = Added(h, k, v[k - 1])
  BY DEF Counted
<1>3. v[1] = Added(h, 1, 0)
  BY Zenon, <1>1, <1>2
<1>4. c >= 2 => v[2] = Added(h, 2, v[1])
  BY Zenon, <1>1, <1>2
<1>5. c >= 3 => v[3] = Added(h, 3, v[2])
  BY Zenon, <1>1, <1>2
<1>6. c >= 4 => v[4] = Added(h, 4, v[3])
  BY Zenon, <1>1, <1>2
<1>7. v[1] = 0 + (h[2] % 128) * 1
  BY Zenon, <1>3, AddedIs
<1>8. c >= 2 => v[2] = v[1] + (h[3] % 128) * 128
  BY Zenon, <1>4, AddedIs
<1>9. c >= 3 => v[3] = v[2] + (h[4] % 128) * Two
  BY Zenon, <1>5, AddedIs
<1>10. c >= 4 => v[4] = v[3] + (h[5] % 128) * Three
  BY Zenon, <1>6, AddedIs
<1> QED  BY Zenon, <1>7, <1>8, <1>9, <1>10 DEF Sums

\* A byte and the length field after it are a header of that length.
HeaderIs(h, f, n) ==
  /\ h \in Seq(Byte) /\ Len(h) \in 2..5 /\ h # <<>> /\ h[1] = f
  /\ GetSize(h) = [ok |-> TRUE, value |-> n]

LEMMA SizeRead ==
  ASSUME NEW n \in Nat, n < Four, NEW f \in Byte, NEW h, h = <<f>> \o LengthBytes[n]
  PROVE  HeaderIs(h, f, n)
<1>1. PICK b : b = LengthBytes[n]
  OBVIOUS
<1>2. /\ b \in Seq(Byte)
      /\ n < 128 => OneByte(b, n)
      /\ n >= 128 /\ n < Two => TwoBytes(b, n)
      /\ n >= Two /\ n < Three => ThreeBytes(b, n)
      /\ n >= Three => FourBytes(b, n)
  BY <1>1, LengthBytesAre
<1>3. Before(Byte, f, b, h)
  BY <1>1, <1>2, Cons
<1>4. ASSUME NEW c \in 1..4, Len(b) = c, NEW v, Counted(h, c, v), v[c] = n,
             GetSize(h) = [ok |-> TRUE, value |-> v[c]]
      PROVE  HeaderIs(h, f, n)
  <2>1. h \in Seq(Byte) /\ Len(h) = c + 1 /\ h[1] = f
    BY <1>3, <1>4 DEF Before
  <2>2. h # <<>> /\ Len(h) \in 2..5
    BY <2>1
  <2> QED  BY <1>4, <2>1, <2>2 DEF HeaderIs
<1>5. ASSUME NEW c \in 1..4, Len(b) = c
      PROVE  \E v : Counted(h, c, v) /\ GetSize(h) = [ok |-> TRUE, value |-> v[c]]
  BY <1>3, <1>5, SizeCounted DEF Before
<1>6. CASE n < 128
  <2>1. Len(b) = 1 /\ b[1] = n
    BY <1>2, <1>6 DEF OneByte
  <2>2. h[2] = n
    BY <1>3, <2>1 DEF Before
  <2>3. PICK v : Counted(h, 1, v) /\ GetSize(h) = [ok |-> TRUE, value |-> v[1]]
    <3>1. 1 \in 1..4
      OBVIOUS
    <3> QED  BY Zenon, <1>5, <2>1, <3>1
  <2>4. v[1] = 0 + (h[2] % 128) * 1
    <3>1. 1 \in 1..4
      OBVIOUS
    <3>2. Sums(h, 1, v)
      BY Zenon, <2>3, <3>1, CountedIs
    <3> QED  BY Zenon, <3>1, <3>2 DEF Sums
  <2>5. v[1] = n
    BY <1>6, <2>2, <2>4
  <2> QED  BY <1>4, <2>1, <2>3, <2>5
<1>7. CASE n >= 128 /\ n < Two
  <2>1. Len(b) = 2 /\ b[1] = (n % 128) + 128 /\ b[2] = n \div 128
    BY <1>2, <1>7 DEF TwoBytes
  <2>2. h[2] = (n % 128) + 128 /\ h[3] = n \div 128
    BY <1>3, <2>1 DEF Before
  <2>3. PICK v : Counted(h, 2, v) /\ GetSize(h) = [ok |-> TRUE, value |-> v[2]]
    <3>1. 2 \in 1..4
      OBVIOUS
    <3> QED  BY Zenon, <1>5, <2>1, <3>1
  <2>4. v[1] = 0 + (h[2] % 128) * 1 /\ v[2] = v[1] + (h[3] % 128) * 128
    <3>1. 2 \in 1..4 /\ 2 >= 2
      OBVIOUS
    <3>2. Sums(h, 2, v)
      BY Zenon, <2>3, <3>1, CountedIs
    <3> QED  BY Zenon, <3>1, <3>2 DEF Sums
  <2>5. v[2] = n
    <3>1. PICK u \in 0..127, x \in 0..127 : u = n % 128 /\ x = n \div 128
      BY Zenon, <1>7, Parts
    <3>2. (u + 128) % 128 = u /\ x % 128 = x
      OBVIOUS
    <3>3. n = u + x * 128
      BY <3>1, Digits
    <3> QED  BY <2>2, <2>4, <3>1, <3>2, <3>3
  <2> QED  BY <1>4, <2>1, <2>3, <2>5
<1>8. CASE n >= Two /\ n < Three
  <2>1. Len(b) = 3 /\ b[1] = (n % 128) + 128 /\ b[2] = ((n \div 128) % 128) + 128 /\ b[3] = n \div Two
    BY <1>2, <1>8 DEF ThreeBytes
  <2>2. h[2] = (n % 128) + 128 /\ h[3] = ((n \div 128) % 128) + 128 /\ h[4] = n \div Two
    BY <1>3, <2>1 DEF Before
  <2>3. PICK v : Counted(h, 3, v) /\ GetSize(h) = [ok |-> TRUE, value |-> v[3]]
    <3>1. 3 \in 1..4
      OBVIOUS
    <3> QED  BY Zenon, <1>5, <2>1, <3>1
  <2>4. /\ v[1] = 0 + (h[2] % 128) * 1 /\ v[2] = v[1] + (h[3] % 128) * 128
        /\ v[3] = v[2] + (h[4] % 128) * Two
    <3>1. 3 \in 1..4 /\ 3 >= 2 /\ 3 >= 3
      OBVIOUS
    <3>2. Sums(h, 3, v)
      BY Zenon, <2>3, <3>1, CountedIs
    <3> QED  BY Zenon, <3>1, <3>2 DEF Sums
  <2>5. v[3] = n
    <3>1. PICK u \in 0..127, w \in 0..127, x \in 0..127 :
            u = n % 128 /\ w = (n \div 128) % 128 /\ x = n \div Two
      BY Zenon, <1>8, Parts
    <3>2. (u + 128) % 128 = u /\ (w + 128) % 128 = w /\ x % 128 = x
      OBVIOUS
    <3>3. n = u + w * 128 + x * Two
      BY <3>1, Digits
    <3>4. v[1] = u /\ v[2] = u + w * 128
      BY <2>2, <2>4, <3>1, <3>2
    <3>5. PICK y \in Nat : y = x * Two
      BY Powers
    <3> QED  BY <2>2, <2>4, <3>1, <3>2, <3>3, <3>4, <3>5
  <2> QED  BY <1>4, <2>1, <2>3, <2>5
<1>9. CASE n >= Three
  <2>1. /\ Len(b) = 4 /\ b[1] = (n % 128) + 128 /\ b[2] = ((n \div 128) % 128) + 128
        /\ b[3] = ((n \div Two) % 128) + 128 /\ b[4] = n \div Three
    BY <1>2, <1>9 DEF FourBytes
  <2>2. /\ h[2] = (n % 128) + 128 /\ h[3] = ((n \div 128) % 128) + 128
        /\ h[4] = ((n \div Two) % 128) + 128 /\ h[5] = n \div Three
    BY <1>3, <2>1 DEF Before
  <2>3. PICK v : Counted(h, 4, v) /\ GetSize(h) = [ok |-> TRUE, value |-> v[4]]
    <3>1. 4 \in 1..4
      OBVIOUS
    <3> QED  BY Zenon, <1>5, <2>1, <3>1
  <2>4. /\ v[1] = 0 + (h[2] % 128) * 1 /\ v[2] = v[1] + (h[3] % 128) * 128
        /\ v[3] = v[2] + (h[4] % 128) * Two /\ v[4] = v[3] + (h[5] % 128) * Three
    <3>1. 4 \in 1..4 /\ 4 >= 2 /\ 4 >= 3 /\ 4 >= 4
      OBVIOUS
    <3>2. Sums(h, 4, v)
      BY Zenon, <2>3, <3>1, CountedIs
    <3> QED  BY Zenon, <3>1, <3>2 DEF Sums
  <2>5. v[4] = n
    <3>1. PICK u \in 0..127, w \in 0..127, y \in 0..127, x \in 0..127 :
            u = n % 128 /\ w = (n \div 128) % 128 /\ y = (n \div Two) % 128 /\ x = n \div Three
      BY Zenon, Parts
    <3>2. (u + 128) % 128 = u /\ (w + 128) % 128 = w /\ (y + 128) % 128 = y /\ x % 128 = x
      OBVIOUS
    <3>3. n = u + w * 128 + y * Two + x * Three
      BY <3>1, Digits
    <3>4. v[1] = u /\ v[2] = u + w * 128
      BY <2>2, <2>4, <3>1, <3>2
    <3>5. PICK p \in Nat, q \in Nat : p = y * Two /\ q = x * Three
      BY Powers
    <3>6. v[3] = u + w * 128 + p
      BY <2>2, <2>4, <3>1, <3>2, <3>4, <3>5
    <3>7. v[4] = v[3] + q
      BY <2>2, <2>4, <3>1, <3>2, <3>5
    <3> QED  BY <3>3, <3>5, <3>6, <3>7
  <2> QED  BY <1>4, <2>1, <2>3, <2>5
<1> QED  BY SMT, <1>6, <1>7, <1>8, <1>9 DEF Two, Three

-----------------------------------------------------------------------------
(* The first byte. *)

LEMMA FlagBits ==
  ASSUME NEW r \in 0..1, NEW d \in 0..1, NEW q \in 0..2, NEW t \in 1..14
  PROVE  LET b == r + 2 * d + 4 * q + 16 * t
         IN  b \in Byte /\ b % 2 = r /\ (b \div 2) % 2 = d /\ (b \div 4) % 4 = q /\ b \div 16 = t
BY SMT DEF Byte

LEMMA Bits == \A flag \in BOOLEAN : Bit(flag) \in 0..1 /\ ((Bit(flag) = 1) <=> flag)
BY DEF Bit

\* What is encoded is decoded, and the number of bytes of the header is returned.
Decoded(h, dup, qos, retain, type, size) ==
  DecodeFixedHeader(h) = [next |-> Len(h), dup |-> dup, qos |-> qos, retain |-> retain,
                          type |-> type, size |-> size]

LEMMA FlagsRead ==
  ASSUME NEW dup \in BOOLEAN, NEW qos \in 0..2, NEW retain \in BOOLEAN, NEW type \in 1..14,
         NEW n, NEW h, HeaderIs(h, Flags(dup, qos, retain, type), n)
  PROVE  Decoded(h, dup, qos, retain, type, n)
<1>1. PICK r \in 0..1, d \in 0..1 : r = Bit(retain) /\ d = Bit(dup)
  BY Bits
<1>2. PICK b : b = r + 2 * d + 4 * qos + 16 * type
  OBVIOUS
<1>3. b % 2 = r /\ (b \div 2) % 2 = d /\ (b \div 4) % 4 = qos /\ b \div 16 = type
  BY <1>2, FlagBits
<1>4. h[1] = b
  BY <1>1, <1>2 DEF HeaderIs, Flags
<1>5. GetSize(h).ok = TRUE /\ GetSize(h).value = n
  BY DEF HeaderIs
<1>6. qos # QoSInvalid /\ type < MAXCMD
  BY DEF QoSInvalid, MAXCMD
<1>7. (r = 1) <=> retain
  BY <1>1, Bits
<1>8. (d = 1) <=> dup
  BY <1>1, Bits
<1>9. ((h[1] % 2 = 1) = retain) /\ (((h[1] \div 2) % 2 = 1) = dup)
  BY <1>3, <1>4, <1>7, <1>8
<1> QED  BY Zenon, <1>3, <1>4, <1>5, <1>6, <1>9 DEF Decoded, DecodeFixedHeader

-----------------------------------------------------------------------------
(* The strings of CONNECT. *)

Longest == 65537   \* bytes of a string with those of its length

ConnectCall ==
  [kind : {"connect"}, client : Lengths, willTopic : Lengths, willMessage : Lengths,
   user : Lengths, password : Lengths, stale : BOOLEAN, buffer : Buffers]

LEMMA Inputs == Lengths \subseteq StringLengths /\ Messages \subseteq Nat /\ Buffers \subseteq Nat
BY LengthsAssumption

LEMMA Strings == \A x \in StringLengths : x \in Nat
BY SMT DEF StringLengths

LEMMA ParametersAre ==
  ASSUME NEW c \in ConnectCall
  PROVE  /\ Parameters(c) \in Seq(StringLengths) /\ Len(Parameters(c)) \in 1..5
         /\ LET flags == ParameterFlags(c)
            IN  Len(Parameters(c)) = 1 + 2 * Bit(flags.will) + Bit(flags.user) + Bit(flags.password)
<1>1. /\ c.client \in StringLengths /\ c.willTopic \in StringLengths /\ c.willMessage \in StringLengths
      /\ c.user \in StringLengths /\ c.password \in StringLengths
  BY Inputs DEF ConnectCall
<1> DEFINE will == IF c.willTopic > 0 /\ c.willMessage > 0 THEN <<c.willTopic, c.willMessage>> ELSE <<>>
           user == IF c.user > 0 THEN <<c.user>> ELSE <<>>
           password == IF c.password > 0 THEN <<c.password>> ELSE <<>>
           flags == ParameterFlags(c)
<1>2. <<c.client>> \in Seq(StringLengths) /\ Len(<<c.client>>) = 1
  BY <1>1
<1>3. will \in Seq(StringLengths) /\ Len(will) = 2 * Bit(flags.will)
  <2>1. flags.will = (c.willTopic > 0 /\ c.willMessage > 0)
    BY DEF ParameterFlags
  <2> HIDE DEF flags
  <2>2. CASE c.willTopic > 0 /\ c.willMessage > 0
    <3>1. will = <<c.willTopic, c.willMessage>> /\ Bit(flags.will) = 1
      BY <2>1, <2>2 DEF Bit
    <3> QED  BY <1>1, <3>1
  <2>3. CASE ~(c.willTopic > 0 /\ c.willMessage > 0)
    <3>1. will = <<>> /\ Bit(flags.will) = 0
      BY <2>1, <2>3 DEF Bit
    <3> QED  BY <3>1
  <2> QED  BY <2>2, <2>3
<1>4. user \in Seq(StringLengths) /\ Len(user) = Bit(flags.user)
  <2>1. flags.user = (c.user > 0)
    BY DEF ParameterFlags
  <2> HIDE DEF flags
  <2>2. CASE c.user > 0
    <3>1. user = <<c.user>> /\ Bit(flags.user) = 1
      BY <2>1, <2>2 DEF Bit
    <3> QED  BY <1>1, <3>1
  <2>3. CASE ~(c.user > 0)
    <3>1. user = <<>> /\ Bit(flags.user) = 0
      BY <2>1, <2>3 DEF Bit
    <3> QED  BY <3>1
  <2> QED  BY <2>2, <2>3
<1>5. password \in Seq(StringLengths) /\ Len(password) = Bit(flags.password)
  <2>1. flags.password = (c.password > 0)
    BY DEF ParameterFlags
  <2> HIDE DEF flags
  <2>2. CASE c.password > 0
    <3>1. password = <<c.password>> /\ Bit(flags.password) = 1
      BY <2>1, <2>2 DEF Bit
    <3> QED  BY <1>1, <3>1
  <2>3. CASE ~(c.password > 0)
    <3>1. password = <<>> /\ Bit(flags.password) = 0
      BY <2>1, <2>3 DEF Bit
    <3> QED  BY <3>1
  <2> QED  BY <2>2, <2>3
<1>6. Parameters(c) = ((<<c.client>> \o will) \o user) \o password
  BY Zenon DEF Parameters
<1>7. /\ flags.will \in BOOLEAN /\ flags.user \in BOOLEAN /\ flags.password \in BOOLEAN
  BY DEF ParameterFlags
<1> HIDE DEF will, user, password, flags
<1>8. <<c.client>> \o will \in Seq(StringLengths) /\ Len(<<c.client>> \o will) = 1 + Len(will)
  BY <1>2, <1>3, ConcatProperties
<1>9. /\ (<<c.client>> \o will) \o user \in Seq(StringLengths)
      /\ Len((<<c.client>> \o will) \o user) = (1 + Len(will)) + Len(user)
  BY <1>4, <1>8, ConcatProperties
<1>10. /\ Parameters(c) \in Seq(StringLengths)
       /\ Len(Parameters(c)) = ((1 + Len(will)) + Len(user)) + Len(password)
  BY <1>5, <1>6, <1>9, ConcatProperties
<1>11. Bit(flags.will) \in 0..1 /\ Bit(flags.user) \in 0..1 /\ Bit(flags.password) \in 0..1
  BY <1>7, Bits
<1>12. /\ Len(Parameters(c)) \in 1..5
       /\ Len(Parameters(c)) = 1 + 2 * Bit(flags.will) + Bit(flags.user) + Bit(flags.password)
  BY <1>3, <1>4, <1>5, <1>10, <1>11
<1> QED  BY <1>10, <1>12 DEF flags

FillSet == [ok : BOOLEAN, space : Int, payload : Nat, count : Nat]

\* After k strings without a failure there are k.
FilledSet(k) == {f \in FillSet : (f.ok => f.count = k) /\ f.payload <= Longest * k}

LEMMA FillParamIs ==
  ASSUME NEW k \in 1..5, NEW f \in FilledSet(k - 1), NEW length \in StringLengths
  PROVE  FillParam(f, length) \in FilledSet(k)
<1>1. f \in FillSet /\ (f.ok => f.count = k - 1) /\ f.payload <= Longest * (k - 1)
  BY DEF FilledSet
<1>2. PICK ok \in BOOLEAN, space \in Int, payload \in Nat, count \in Nat :
        ok = f.ok /\ space = f.space /\ payload = f.payload /\ count = f.count
  BY <1>1 DEF FillSet
<1>3. PICK l \in Nat : l = length /\ l <= 65535
  BY SMT DEF StringLengths
<1>4. payload <= Longest * k /\ payload + 2 + l <= Longest * k
  <2>1. payload <= Longest * (k - 1)
    BY <1>1, <1>2
  <2> QED  BY SMT, <1>3, <2>1 DEF Longest
<1>5. space - l \in Int /\ payload + 2 + l \in Nat /\ count + 1 \in Nat
  OBVIOUS
<1>6. f = [ok |-> ok, space |-> space, payload |-> payload, count |-> count]
  BY <1>1, <1>2 DEF FillSet
<1>7. CASE ~ok
  <2>1. FillParam(f, length) = f
    BY <1>2, <1>7 DEF FillParam
  <2> QED  BY <1>1, <1>2, <1>4, <1>7, <2>1 DEF FilledSet
<1>8. CASE ok /\ (space - l <= 0 \/ l = 0)
  <2>1. FillParam(f, length) = [f EXCEPT !.ok = FALSE, !.space = space - l]
    BY <1>2, <1>3, <1>8 DEF FillParam
  <2>2. FillParam(f, length) = [ok |-> FALSE, space |-> space - l, payload |-> payload, count |-> count]
    BY <1>6, <2>1
  <2> QED  BY <1>4, <1>5, <2>2 DEF FilledSet, FillSet
<1>9. CASE ok /\ ~(space - l <= 0 \/ l = 0)
  <2>1. FillParam(f, length) = [ok |-> TRUE, space |-> space - l, payload |-> payload + 2 + l, count |-> count + 1]
    BY <1>2, <1>3, <1>9 DEF FillParam
  <2>2. count + 1 = k
    BY <1>1, <1>2, <1>9
  <2> QED  BY <1>4, <1>5, <2>1, <2>2 DEF FilledSet, FillSet
<1> QED  BY <1>7, <1>8, <1>9

LEMMA FillStringsIs ==
  ASSUME NEW s \in Seq(StringLengths), NEW n \in 1..5, n = Len(s), NEW space \in Int
  PROVE  FillStrings(s, space) \in FilledSet(n)
<1> DEFINE first == [ok |-> TRUE, space |-> space, payload |-> 0, count |-> 0]
           R(f) == f = [k \in 0..n |-> IF k = 0 THEN first ELSE FillParam(f[k - 1], s[k])]
           T == [k \in 0..n |-> FilledSet(k)]
           step == [k \in 1..n |-> [f \in T[k - 1] |-> FillParam(f, s[k])]]
           filled == CHOOSE f : R(f)
<1>1. FillStrings(s, space) = filled[n]
  BY DEF FillStrings
<1>3. first \in T[0]
  <2>1. first \in FilledSet(0)
    BY DEF FilledSet, FillSet, Longest
  <2> QED  BY <2>1
<1>4. ASSUME NEW k \in 1..n, NEW f \in T[k - 1] PROVE FillParam(f, s[k]) \in T[k]
  <2>1. k \in 1..5 /\ k - 1 \in 0..n /\ k \in 0..n /\ s[k] \in StringLengths
    BY ElementOfSeq
  <2>2. f \in FilledSet(k - 1)
    BY <2>1
  <2> QED  BY <2>1, <2>2, FillParamIs
<1> HIDE DEF first
<1>5. \E f : R(f) /\ \A k \in 0..n : f[k] \in T[k]
  <2>1. \A k \in 1..n : \A f \in T[k - 1] : step[k][f] = FillParam(f, s[k]) /\ step[k][f] \in T[k]
    BY <1>4
  <2> HIDE DEF step, T
  <2>2. Stepped(n, T, first, step)
    BY <1>3, <2>1, Steps
  <2>3. PICK f : /\ f = [k \in 0..n |-> IF k = 0 THEN first ELSE step[k][f[k - 1]]]
                 /\ \A k \in 0..n : f[k] \in T[k]
    BY <2>2 DEF Stepped
  <2>4. ASSUME NEW k \in 0..n
        PROVE  (IF k = 0 THEN first ELSE step[k][f[k - 1]]) = IF k = 0 THEN first ELSE FillParam(f[k - 1], s[k])
    <3>1. k # 0 => k \in 1..n /\ k - 1 \in 0..n
      OBVIOUS
    <3>2. k # 0 => f[k - 1] \in T[k - 1]
      BY <2>3, <3>1
    <3> QED  BY <2>1, <3>1, <3>2
  <2>5. R(f)
    BY <2>3, <2>4
  <2> HIDE DEF R
  <2> QED  BY <2>3, <2>5

<1>6. R(filled)
  <2>1. \E f : R(f)
    BY <1>5
  <2> HIDE DEF R
  <2> QED  BY <2>1
<1>7. ASSUME NEW k \in 0..n PROVE filled[k] = IF k = 0 THEN first ELSE FillParam(filled[k - 1], s[k])
  <2> HIDE DEF filled
  <2> QED  BY <1>6
<1>8. filled[n] \in FilledSet(n)
  <2> HIDE DEF filled
  <2> DEFINE U == {k \in 0..n : filled[k] \in T[k]}
  <2>1. 0 \in U
    BY <1>3, <1>7
  <2>2. ASSUME NEW k \in 1..n, k - 1 \in U PROVE k \in U
    <3>1. filled[k - 1] \in T[k - 1] /\ k \in 0..n /\ k # 0
      BY <2>2
    <3>2. FillParam(filled[k - 1], s[k]) \in T[k]
      BY <1>4, <3>1
    <3> QED  BY <1>7, <3>1, <3>2
  <2> HIDE DEF U
  <2>3. \A k \in 0..n : k \in U
    BY <2>1, <2>2, Upward
  <2>4. n \in 0..n
    OBVIOUS
  <2>5. n \in U
    BY <2>3, <2>4
  <2> QED  BY <2>4, <2>5 DEF U
<1> QED  BY Zenon, <1>1, <1>8

\* What mqtt_connect_fill makes, unless it fails.
Connected(c, p) ==
  \E n \in Nat :
    /\ n < Four
    /\ p = [header |-> EncodeFixedHeader(FALSE, 0, FALSE, CONNECT, n), rest |-> n,
            content |-> [flags |-> ParameterFlags(c), count |-> Len(Parameters(c))]]

LEMMA ConnectFillIs ==
  ASSUME NEW c \in ConnectCall, ConnectFill(c).header # <<>>
  PROVE  Connected(c, ConnectFill(c))
<1>1. PICK n \in 1..5 : n = Len(Parameters(c)) /\ Parameters(c) \in Seq(StringLengths)
  BY ParametersAre
<1>2. c.buffer \in Int
  <2>1. c.buffer \in Nat
    BY Zenon, Inputs DEF ConnectCall
  <2> QED  BY <2>1
<1>3. PICK last \in FilledSet(n) : last = FillStrings(Parameters(c), c.buffer)
  BY Zenon, <1>1, <1>2, FillStringsIs
<1>10. ConnectFill(c) =
         IF last.ok /\ last.space - 10 >= last.payload
           THEN [header |-> EncodeFixedHeader(FALSE, 0, FALSE, CONNECT, last.payload + 10), rest |-> last.payload + 10,
                 content |-> [flags |-> ParameterFlags(c), count |-> last.count]]
           ELSE Refused
  BY Zenon, <1>3 DEF ConnectFill
<1>11. last \in FillSet /\ (last.ok => last.count = n) /\ last.payload <= Longest * n
  BY DEF FilledSet
<1>12. last.ok /\ last.space - 10 >= last.payload
  <2>1. Refused.header = <<>>
    BY DEF Refused
  <2>2. SUFFICES ASSUME ~(last.ok /\ last.space - 10 >= last.payload) PROVE FALSE
    OBVIOUS
  <2>3. ConnectFill(c) = Refused
    BY Zenon, <1>10, <2>2
  <2> QED  BY <2>1, <2>3
<1>13. ConnectFill(c) = [header |-> EncodeFixedHeader(FALSE, 0, FALSE, CONNECT, last.payload + 10), rest |-> last.payload + 10,
                         content |-> [flags |-> ParameterFlags(c), count |-> n]]
  <2>1. last.count = n
    BY <1>11, <1>12
  <2> QED  BY Zenon, <1>10, <1>12, <2>1
<1>14. last.payload + 10 \in Nat /\ last.payload + 10 < Four
  <2>1. PICK payload \in Nat : payload = last.payload /\ payload <= Longest * n
    BY <1>11 DEF FillSet
  <2>2. payload + 10 \in Nat /\ payload + 10 < Four
    BY SMT, <2>1 DEF Longest, Four
  <2> QED  BY Zenon, <2>1, <2>2
<1> QED  BY Zenon, <1>1, <1>13, <1>14 DEF Connected

-----------------------------------------------------------------------------
(* Packets. *)

\* A header that was not refused.
LEMMA Encoded ==
  ASSUME NEW dup, NEW qos, NEW retain, NEW type, NEW n, NEW h,
         h = EncodeFixedHeader(dup, qos, retain, type, n), h # <<>>
  PROVE  /\ h = <<Flags(dup, qos, retain, type)>> \o LengthBytes[n]
         /\ qos < QoSInvalid /\ type < MAXCMD /\ n < MQTT_MAX_MESSAGE_SIZE
<1>1. qos < QoSInvalid /\ type < MAXCMD /\ SetSize(n) # <<>>
  BY Zenon DEF EncodeFixedHeader
<1>2. n < MQTT_MAX_MESSAGE_SIZE
  BY Zenon, <1>1 DEF SetSize
<1> QED  BY Zenon, <1>1, <1>2 DEF EncodeFixedHeader, SetSize

LEMMA FlagsType ==
  ASSUME NEW dup \in BOOLEAN, NEW qos \in 0..2, NEW retain \in BOOLEAN, NEW type \in 1..14
  PROVE  Flags(dup, qos, retain, type) \in Byte
<1>1. PICK r \in 0..1, d \in 0..1 : r = Bit(retain) /\ d = Bit(dup)
  BY Bits
<1>2. PICK b \in Byte : b = r + 2 * d + 4 * qos + 16 * type
  BY FlagBits
<1> QED  BY <1>1, <1>2 DEF Flags

LEMMA EncodedIs ==
  ASSUME NEW dup \in BOOLEAN, NEW qos \in 0..2, NEW retain \in BOOLEAN, NEW type \in 1..14,
         NEW n \in Nat, n < Four, NEW h, h = EncodeFixedHeader(dup, qos, retain, type, n), h # <<>>
  PROVE  HeaderIs(h, Flags(dup, qos, retain, type), n)
<1>1. h = <<Flags(dup, qos, retain, type)>> \o LengthBytes[n]
  BY Encoded
<1>2. Flags(dup, qos, retain, type) \in Byte
  BY FlagsType
<1> QED  BY Zenon, <1>1, <1>2, SizeRead

PublishCall ==
  [kind : {"publish"}, retain : Retains, qos : Levels, topic : Lengths \ {0}, message : Messages,
   buffer : Buffers]
SubscribeCall == [kind : {"subscribe"}, qos : Levels, topic : Lengths \ {0}, buffer : Buffers]
InboundCall ==
  [kind : {"inbound"}, retain : BOOLEAN, qos : Levels, topic : Lengths \ {0}, message : Messages]
HeaderCall ==
  [kind : {"header"}, dup : BOOLEAN, qos : 0..3, retain : BOOLEAN, type : 1..15, size : Sizes]
SubackCall == [kind : {"suback"}, code : {0, 1, 2, 128}]

LEMMA CallIs ==
  ASSUME NEW kind \in Kinds, NEW c \in CallsOf(kind)
  PROVE  /\ c.kind = kind
         /\ kind = "header" => c \in HeaderCall
         /\ kind = "publish" => c \in PublishCall
         /\ kind = "subscribe" => c \in SubscribeCall
         /\ kind = "connect" => c \in ConnectCall
         /\ kind = "inbound" => c \in InboundCall
<1>1. /\ CallsOf("header") = HeaderCall /\ CallsOf("publish") = PublishCall
      /\ CallsOf("subscribe") = SubscribeCall /\ CallsOf("connect") = ConnectCall
      /\ CallsOf("inbound") = InboundCall /\ CallsOf("suback") = SubackCall
  BY DEF CallsOf, HeaderCall, PublishCall, SubscribeCall, ConnectCall, InboundCall, SubackCall
<1>2. kind \in {"header", "publish", "subscribe", "connect", "inbound", "suback"}
  BY KindsAssumption
<1>3. CASE kind = "header"
  <2>1. c \in HeaderCall
    BY Zenon, <1>1, <1>3
  <2>2. c.kind = "header"
    BY <2>1 DEF HeaderCall
  <2> QED  BY <1>3, <2>1, <2>2
<1>4. CASE kind = "publish"
  <2>1. c \in PublishCall
    BY Zenon, <1>1, <1>4
  <2>2. c.kind = "publish"
    BY <2>1 DEF PublishCall
  <2> QED  BY <1>4, <2>1, <2>2
<1>5. CASE kind = "subscribe"
  <2>1. c \in SubscribeCall
    BY Zenon, <1>1, <1>5
  <2>2. c.kind = "subscribe"
    BY <2>1 DEF SubscribeCall
  <2> QED  BY <1>5, <2>1, <2>2
<1>6. CASE kind = "connect"
  <2>1. c \in ConnectCall
    BY Zenon, <1>1, <1>6
  <2>2. c.kind = "connect"
    BY <2>1 DEF ConnectCall
  <2> QED  BY <1>6, <2>1, <2>2
<1>7. CASE kind = "inbound"
  <2>1. c \in InboundCall
    BY Zenon, <1>1, <1>7
  <2>2. c.kind = "inbound"
    BY <2>1 DEF InboundCall
  <2> QED  BY <1>7, <2>1, <2>2
<1>8. CASE kind = "suback"
  <2>1. c \in SubackCall
    BY Zenon, <1>1, <1>8
  <2>2. c.kind = "suback"
    BY <2>1 DEF SubackCall
  <2> QED  BY <1>8, <2>1, <2>2
<1> QED  BY <1>2, <1>3, <1>4, <1>5, <1>6, <1>7, <1>8

-----------------------------------------------------------------------------
(* The inductive invariant: a packet is what its call forms, and a result is what is *)
(* read from the packet.                                                             *)

\* What the PUBLISH case of mqtt_parse_input_stream finds.
Published(p) ==
  LET header == DecodeFixedHeader(p.header)
  IN  IF header.next # 0 /\ header.type = PUBLISH
        THEN DecodePublish(p.content[1], header.size, header.qos)
        ELSE [ok |-> FALSE, topic |-> 0, message |-> 0]

Known == \E kind \in Kinds : call \in CallsOf(kind)

Forms(kind, p) == stage \in {"formed", "read"} /\ call.kind = kind => packet = p /\ p.header # <<>>

PacketInv ==
  /\ Forms("header", HeaderAlone(call))
  /\ Forms("publish", EncodePublish(call))
  /\ Forms("subscribe", EncodeSubscribe(call))
  /\ Forms("connect", ConnectFill(call))
  /\ Forms("inbound", BrokerPublish(call))

ResultInv ==
  stage = "read" =>
    /\ call.kind \in {"header", "subscribe", "connect"} => result = DecodeFixedHeader(packet.header)
    /\ call.kind \in {"publish", "inbound"} => result = Published(packet)

CodecInv == Known /\ stage \in {"call", "formed", "refused", "read"} /\ PacketInv /\ ResultInv

LEMMA CodecInit == Init => CodecInv
BY DEF Init, CodecInv, Known, PacketInv, ResultInv, Forms

LEMMA FormedKeeps ==
  ASSUME NEW kind, NEW p, Formed(kind, p), Known
  PROVE  /\ Known' /\ call' = call /\ call.kind = kind
         /\ stage' \in {"refused", "formed"} /\ packet' = p /\ (stage' = "formed" => p.header # <<>>)
BY DEF Formed, Known

LEMMA ReadKeeps ==
  ASSUME CodecInv, UNCHANGED <<call, packet>>, stage' = "read", stage = "formed"
  PROVE  Known' /\ PacketInv'
<1>1. call' = call /\ packet' = packet
  OBVIOUS
<1>2. Known'
  BY <1>1 DEF CodecInv, Known
<1>3. stage \in {"formed", "read"}
  OBVIOUS
<1>4. PacketInv'
  BY <1>1, <1>3 DEF CodecInv, PacketInv, Forms, HeaderAlone, EncodePublish, EncodeSubscribe, ConnectFill, BrokerPublish
<1> QED  BY <1>2, <1>4

LEMMA CodecStep == CodecInv /\ [Next]_vars => CodecInv'
<1> SUFFICES ASSUME CodecInv, [Next]_vars PROVE CodecInv'
  OBVIOUS
<1>1. CASE FormHeader
  <2>1. /\ Known' /\ call' = call /\ call.kind = "header" /\ stage' \in {"refused", "formed"}
        /\ packet' = HeaderAlone(call) /\ (stage' = "formed" => HeaderAlone(call).header # <<>>)
    BY <1>1, FormedKeeps DEF CodecInv, FormHeader
  <2> QED  BY <2>1 DEF CodecInv, PacketInv, ResultInv, Forms
<1>2. CASE FormPublish
  <2>1. /\ Known' /\ call' = call /\ call.kind = "publish" /\ stage' \in {"refused", "formed"}
        /\ packet' = EncodePublish(call) /\ (stage' = "formed" => EncodePublish(call).header # <<>>)
    BY <1>2, FormedKeeps DEF CodecInv, FormPublish
  <2> QED  BY <2>1 DEF CodecInv, PacketInv, ResultInv, Forms
<1>3. CASE FormSubscribe
  <2>1. /\ Known' /\ call' = call /\ call.kind = "subscribe" /\ stage' \in {"refused", "formed"}
        /\ packet' = EncodeSubscribe(call) /\ (stage' = "formed" => EncodeSubscribe(call).header # <<>>)
    BY <1>3, FormedKeeps DEF CodecInv, FormSubscribe
  <2> QED  BY <2>1 DEF CodecInv, PacketInv, ResultInv, Forms
<1>4. CASE FormConnect
  <2>1. /\ Known' /\ call' = call /\ call.kind = "connect" /\ stage' \in {"refused", "formed"}
        /\ packet' = ConnectFill(call) /\ (stage' = "formed" => ConnectFill(call).header # <<>>)
    BY <1>4, FormedKeeps DEF CodecInv, FormConnect
  <2> QED  BY <2>1 DEF CodecInv, PacketInv, ResultInv, Forms
<1>5. CASE FormInbound
  <2>1. /\ Known' /\ call' = call /\ call.kind = "inbound" /\ stage' \in {"refused", "formed"}
        /\ packet' = BrokerPublish(call) /\ (stage' = "formed" => BrokerPublish(call).header # <<>>)
    BY <1>5, FormedKeeps DEF CodecInv, FormInbound
  <2> QED  BY <2>1 DEF CodecInv, PacketInv, ResultInv, Forms
<1>6. CASE ReadHeader
  <2>1. /\ call' = call /\ packet' = packet /\ stage = "formed" /\ stage' = "read"
        /\ call.kind \in {"header", "subscribe", "connect"} /\ result' = DecodeFixedHeader(packet.header)
    BY <1>6 DEF ReadHeader
  <2>2. Known' /\ PacketInv'
    BY <2>1, ReadKeeps
  <2>3. ResultInv'
    BY <2>1 DEF ResultInv
  <2> QED  BY <2>1, <2>2, <2>3 DEF CodecInv
<1>7. CASE ReadPublish
  <2>1. /\ call' = call /\ packet' = packet /\ stage = "formed" /\ stage' = "read"
        /\ call.kind \in {"publish", "inbound"} /\ result' = Published(packet)
    BY <1>7 DEF ReadPublish, Published
  <2>2. Known' /\ PacketInv'
    BY <2>1, ReadKeeps
  <2>3. ResultInv'
    BY <2>1 DEF ResultInv
  <2> QED  BY <2>1, <2>2, <2>3 DEF CodecInv
<1>8. CASE ReadSuback
  <2>1. call' = call /\ packet' = packet /\ stage' = "read" /\ call.kind = "suback"
    BY <1>8 DEF ReadSuback
  <2>2. Known' /\ PacketInv' /\ ResultInv'
    BY <2>1 DEF CodecInv, Known, PacketInv, ResultInv, Forms
  <2> QED  BY <2>1, <2>2 DEF CodecInv
<1>9. CASE UNCHANGED vars
  BY <1>9 DEF vars, CodecInv, Known, PacketInv, ResultInv, Forms
<1> QED  BY <1>1, <1>2, <1>3, <1>4, <1>5, <1>6, <1>7, <1>8, <1>9 DEF Next

LEMMA CodecHolds == Spec => []CodecInv
BY CodecInit, CodecStep, PTL DEF Spec

-----------------------------------------------------------------------------
(* The theorems. *)

\* A size fits in four bytes, or is refused: between them, set_size writes a fifth byte,
\* which get_size does not read (mqtt.c 354, 415).
ShortHeaders == \A n \in Sizes : n < Four \/ n >= MQTT_MAX_MESSAGE_SIZE
ShortPackets == \A t \in Lengths, m \in Messages : 2 + t + 2 + m < Four

LEMMA HeaderRead ==
  ASSUME ShortHeaders, CodecInv
  PROVE  HeaderRoundTrip
<1> SUFFICES ASSUME stage = "read", call.kind = "header"
             PROVE  Decoded(packet.header, call.dup, call.qos, call.retain, call.type, call.size)
  BY DEF HeaderRoundTrip, CodecInv, ResultInv, Decoded
<1>1. call \in HeaderCall
  BY CallIs DEF CodecInv, Known
<1>2. packet = HeaderAlone(call) /\ packet.header # <<>>
  BY DEF CodecInv, PacketInv, Forms
<1>3. packet.header = EncodeFixedHeader(call.dup, call.qos, call.retain, call.type, call.size)
  BY <1>2 DEF HeaderAlone
<1>4. call.qos < QoSInvalid /\ call.type < MAXCMD /\ call.size < MQTT_MAX_MESSAGE_SIZE
  BY Zenon, <1>2, <1>3, Encoded
<1>5. /\ call.dup \in BOOLEAN /\ call.retain \in BOOLEAN /\ call.qos \in 0..2 /\ call.type \in 1..14
  BY <1>1, <1>4 DEF HeaderCall, QoSInvalid, MAXCMD
<1>6. call.size \in Sizes /\ call.size \in Nat
  BY <1>1, SizesAssumption DEF HeaderCall
<1>7. call.size < Four
  <2>1. MQTT_MAX_MESSAGE_SIZE \in Nat
    BY SMT DEF MQTT_MAX_MESSAGE_SIZE
  <2> QED  BY <1>4, <1>6, <2>1 DEF ShortHeaders
<1>8. HeaderIs(packet.header, Flags(call.dup, call.qos, call.retain, call.type), call.size)
  BY <1>2, <1>3, <1>5, <1>6, <1>7, EncodedIs
<1> QED  BY <1>5, <1>8, FlagsRead

\* encode_fixed_header and decode_fixed_header, for every size, type and flags.
THEOREM HeadersReadBack == ShortHeaders => (Spec => []HeaderRoundTrip)
<1> SUFFICES ASSUME ShortHeaders PROVE Spec => []HeaderRoundTrip
  OBVIOUS
<1>1. CodecInv => HeaderRoundTrip
  BY HeaderRead
<1> QED  BY <1>1, CodecHolds, PTL

\* The bytes of a PUBLISH after its header.
AfterHeader(c) == 2 + c.topic + IdBytes(c.qos) + c.message

LEMMA Identifier == \A qos \in 0..2 : IdBytes(qos) \in {0, 2} /\ (qos = 0 => IdBytes(qos) = 0)
BY DEF IdBytes

LEMMA AfterHeaderIs ==
  ASSUME ShortPackets, NEW c, c.topic \in Lengths, c.message \in Messages, c.qos \in 0..2
  PROVE  /\ AfterHeader(c) \in Nat /\ AfterHeader(c) < Four
         /\ c.message + c.topic + 2 + IdBytes(c.qos) = AfterHeader(c)
<1>1. PICK t \in Nat, m \in Nat : t = c.topic /\ m = c.message
  BY Inputs, Strings
<1>2. PICK id \in {0, 2} : id = IdBytes(c.qos)
  BY Identifier
<1>3. 2 + t + 2 + m < Four
  BY <1>1 DEF ShortPackets
<1>4. 2 + t + id + m \in Nat /\ 2 + t + id + m < Four /\ m + t + 2 + id = 2 + t + id + m
  BY SMT, <1>3 DEF Four
<1> QED  BY Zenon, <1>1, <1>2, <1>4 DEF AfterHeader

\* The packets that are formed, their headers, and the bytes that follow.  The retain
\* flag is where dup belongs.
LEMMA PublishIs ==
  ASSUME ShortPackets, CodecInv, stage \in {"formed", "read"}, call.kind = "publish"
  PROVE  /\ call.topic \in Lengths \ {0} /\ call.message \in Messages
         /\ call.qos \in 0..2 /\ call.retain \in BOOLEAN
         /\ HeaderIs(packet.header, Flags(call.retain, call.qos, FALSE, PUBLISH), AfterHeader(call))
         /\ packet.rest = AfterHeader(call) /\ packet.content[1] = call.topic
<1>1. call \in PublishCall
  BY CallIs DEF CodecInv, Known
<1>2. packet = EncodePublish(call) /\ packet.header # <<>>
  BY DEF CodecInv, PacketInv, Forms
<1>3. /\ call.topic \in Lengths \ {0} /\ call.message \in Messages
      /\ call.qos \in 0..2 /\ call.retain \in BOOLEAN
  BY <1>1, LevelsAssumption DEF PublishCall
<1>4. PICK n \in Nat : /\ n = AfterHeader(call) /\ n < Four
                       /\ call.message + call.topic + 2 + IdBytes(call.qos) = n
  BY <1>3, AfterHeaderIs
<1>5. Refused.header = <<>>
  BY DEF Refused
<1>6. packet = [header |-> EncodeFixedHeader(call.retain, call.qos, FALSE, PUBLISH, n), rest |-> n,
                content |-> <<call.topic, IdBytes(call.qos), call.message>>]
  BY Zenon, <1>2, <1>4, <1>5 DEF EncodePublish, AfterHeader
<1>7. /\ packet.header = EncodeFixedHeader(call.retain, call.qos, FALSE, PUBLISH, n)
      /\ packet.rest = n /\ packet.content[1] = call.topic
  BY <1>6
<1>8. PUBLISH \in 1..14 /\ FALSE \in BOOLEAN
  BY DEF PUBLISH
<1>9. HeaderIs(packet.header, Flags(call.retain, call.qos, FALSE, PUBLISH), n)
  BY Zenon, <1>2, <1>3, <1>4, <1>7, <1>8, EncodedIs
<1> QED  BY Zenon, <1>3, <1>4, <1>7, <1>9

\* The header of a SUBSCRIBE; its length is right if the topic is asked for at QoS 0.
LEMMA SubscribeIs ==
  ASSUME CodecInv, stage \in {"formed", "read"}, call.kind = "subscribe"
  PROVE  \E n \in Nat : /\ HeaderIs(packet.header, Flags(TRUE, 0, FALSE, SUBSCRIBE), n)
                        /\ call.qos = 0 => packet.rest = n
<1>1. call \in SubscribeCall
  BY CallIs DEF CodecInv, Known
<1>2. packet = EncodeSubscribe(call) /\ packet.header # <<>>
  BY DEF CodecInv, PacketInv, Forms
<1>3. call.topic \in StringLengths /\ call.qos \in 0..2
  BY <1>1, Inputs, LevelsAssumption DEF SubscribeCall
<1>4. PICK t \in StringLengths : t = call.topic
  BY <1>3
<1>5. PICK id \in {0, 2} : id = IdBytes(call.qos) /\ (call.qos = 0 => id = 0)
  BY <1>3, Identifier
<1>6. PICK n \in Nat : n = t + 5 + id /\ n < Four /\ (id = 0 => 2 + 2 + t + 1 = n)
  <2>1. t + 5 + id \in Nat /\ t + 5 + id < Four /\ (id = 0 => 2 + 2 + t + 1 = t + 5 + id)
    BY SMT DEF StringLengths, Four
  <2> QED  BY <2>1
<1>7. Refused.header = <<>>
  BY DEF Refused
<1>8. packet = [header |-> EncodeFixedHeader(TRUE, 0, FALSE, SUBSCRIBE, n), rest |-> 2 + 2 + t + 1,
                content |-> <<t, call.qos>>]
  BY Zenon, <1>2, <1>4, <1>5, <1>6, <1>7 DEF EncodeSubscribe
<1>9. packet.header = EncodeFixedHeader(TRUE, 0, FALSE, SUBSCRIBE, n) /\ packet.rest = 2 + 2 + t + 1
  BY <1>8
<1>10. SUBSCRIBE \in 1..14 /\ 0 \in 0..2
  BY DEF SUBSCRIBE
<1>11. HeaderIs(packet.header, Flags(TRUE, 0, FALSE, SUBSCRIBE), n)
  BY Zenon, <1>2, <1>6, <1>9, <1>10, EncodedIs
<1> QED  BY Zenon, <1>5, <1>6, <1>9, <1>11

LEMMA ConnectIs ==
  ASSUME CodecInv, stage \in {"formed", "read"}, call.kind = "connect"
  PROVE  /\ call \in ConnectCall
         /\ packet.content = [flags |-> ParameterFlags(call), count |-> Len(Parameters(call))]
         /\ \E n \in Nat : packet.rest = n /\ HeaderIs(packet.header, Flags(FALSE, 0, FALSE, CONNECT), n)
<1>1. call \in ConnectCall
  BY CallIs DEF CodecInv, Known
<1>2. packet = ConnectFill(call) /\ packet.header # <<>>
  BY DEF CodecInv, PacketInv, Forms
<1>3. Connected(call, packet)
  BY Zenon, <1>1, <1>2, ConnectFillIs
<1>4. PICK n \in Nat : /\ n < Four
                       /\ packet = [header |-> EncodeFixedHeader(FALSE, 0, FALSE, CONNECT, n), rest |-> n,
                                    content |-> [flags |-> ParameterFlags(call), count |-> Len(Parameters(call))]]
  BY Zenon, <1>3 DEF Connected
<1>5. /\ packet.header = EncodeFixedHeader(FALSE, 0, FALSE, CONNECT, n) /\ packet.rest = n
      /\ packet.content = [flags |-> ParameterFlags(call), count |-> Len(Parameters(call))]
  BY <1>4
<1>6. CONNECT \in 1..14 /\ 0 \in 0..2
  BY DEF CONNECT
<1>7. HeaderIs(packet.header, Flags(FALSE, 0, FALSE, CONNECT), n)
  BY Zenon, <1>2, <1>4, <1>5, <1>6, EncodedIs
<1> QED  BY Zenon, <1>1, <1>5, <1>7

LEMMA LengthDeclared ==
  ASSUME ShortPackets, CodecInv
  PROVE  DeclaredLength
<1>1. ASSUME stage = "formed", call.kind = "publish" PROVE Declared
  BY <1>1, PublishIs DEF HeaderIs, Declared
<1>2. ASSUME stage = "formed", call.kind = "subscribe", call.qos = 0 PROVE Declared
  BY <1>2, SubscribeIs DEF HeaderIs, Declared
<1>3. ASSUME stage = "formed", call.kind = "connect" PROVE Declared
  BY <1>3, ConnectIs DEF HeaderIs, Declared
<1> QED  BY <1>1, <1>2, <1>3 DEF DeclaredLength

\* The length that encode_publish, encode_subscribe at QoS 0 and mqtt_connect_fill declare is
\* the number of bytes they write after the fixed header, for all strings and messages, and
\* for a PUBLISH with any QoS and retain flag.
THEOREM LengthsDeclared == ShortPackets => (Spec => []DeclaredLength)
<1> SUFFICES ASSUME ShortPackets PROVE Spec => []DeclaredLength
  OBVIOUS
<1>1. CodecInv => DeclaredLength
  BY LengthDeclared
<1> QED  BY <1>1, CodecHolds, PTL

\* The PUBLISH of a broker at QoS 0.
LEMMA InboundIs ==
  ASSUME ShortPackets, CodecInv, stage \in {"formed", "read"}, call.kind = "inbound", call.qos = 0
  PROVE  /\ call.topic \in Lengths \ {0} /\ call.message \in Messages /\ call.retain \in BOOLEAN
         /\ HeaderIs(packet.header, Flags(FALSE, 0, call.retain, PUBLISH), AfterHeader(call))
         /\ packet.content[1] = call.topic
<1>1. call \in InboundCall
  BY CallIs DEF CodecInv, Known
<1>2. packet = BrokerPublish(call)
  BY DEF CodecInv, PacketInv, Forms
<1>3. call.topic \in Lengths \ {0} /\ call.message \in Messages /\ call.retain \in BOOLEAN
  BY <1>1 DEF InboundCall
<1>4. PICK n \in Nat : n = AfterHeader(call) /\ n < Four
  BY <1>3, AfterHeaderIs
<1>5. PICK byte : byte = Flags(FALSE, 0, call.retain, PUBLISH)
  OBVIOUS
<1>6. byte \in Byte
  <2>1. PUBLISH \in 1..14 /\ 0 \in 0..2
    BY DEF PUBLISH
  <2> QED  BY Zenon, <1>3, <1>5, <2>1, FlagsType
<1>7. Bit(call.retain) + 2 * call.qos + 16 * PUBLISH = byte
  <2>1. PICK r \in 0..1 : r = Bit(call.retain)
    BY <1>3, Bits
  <2>2. byte = Bit(call.retain) + 2 * Bit(FALSE) + 4 * 0 + 16 * PUBLISH
    BY Zenon, <1>5 DEF Flags
  <2>3. byte = r + 2 * 0 + 4 * 0 + 16 * 3
    BY Zenon, <2>1, <2>2 DEF Bit, PUBLISH
  <2>4. Bit(call.retain) + 2 * call.qos + 16 * PUBLISH = r + 2 * 0 + 16 * 3
    BY Zenon, <2>1 DEF PUBLISH
  <2>5. r + 2 * 0 + 16 * 3 = r + 2 * 0 + 4 * 0 + 16 * 3
    OBVIOUS
  <2> QED  BY Zenon, <2>3, <2>4, <2>5
<1>8. packet = [header |-> <<byte>> \o LengthBytes[n], rest |-> n,
                content |-> <<call.topic, IdBytes(call.qos), call.message>>]
  BY Zenon, <1>2, <1>4, <1>7 DEF BrokerPublish, AfterHeader
<1>9. packet.header = <<byte>> \o LengthBytes[n] /\ packet.content[1] = call.topic
  BY <1>8
<1>10. HeaderIs(packet.header, byte, n)
  BY Zenon, <1>4, <1>6, <1>9, SizeRead
<1> QED  BY Zenon, <1>3, <1>4, <1>5, <1>9, <1>10

LEMMA PublishRead ==
  ASSUME NEW p, NEW c, NEW dup \in BOOLEAN, NEW retain \in BOOLEAN, c.qos \in 0..2,
         c.topic \in Lengths \ {0}, c.message \in Messages, 0 \notin Messages,
         HeaderIs(p.header, Flags(dup, c.qos, retain, PUBLISH), AfterHeader(c)),
         p.content[1] = c.topic
  PROVE  Published(p) = [ok |-> TRUE, topic |-> c.topic, message |-> c.message]
<1>1. PUBLISH \in 1..14
  BY DEF PUBLISH
<1>2. Decoded(p.header, dup, c.qos, retain, PUBLISH, AfterHeader(c))
  BY Zenon, <1>1, FlagsRead
<1>3. PICK d, s, q : d = DecodeFixedHeader(p.header) /\ s = AfterHeader(c) /\ q = c.qos
  OBVIOUS
<1>4. d.next # 0 /\ d.type = PUBLISH /\ d.size = s /\ d.qos = q
  <2>1. Len(p.header) \in 2..5
    BY DEF HeaderIs
  <2>2. PICK n : n = Len(p.header)
    OBVIOUS
  <2>3. d = [next |-> n, dup |-> dup, qos |-> q, retain |-> retain, type |-> PUBLISH, size |-> s]
    BY Zenon, <1>2, <1>3, <2>2 DEF Decoded
  <2>4. d.next = n /\ d.type = PUBLISH /\ d.size = s /\ d.qos = q
    BY <2>3
  <2>5. n # 0
    <3>1. n \in 2..5
      BY Zenon, <2>1, <2>2
    <3> QED  BY <3>1
  <2> QED  BY Zenon, <2>4, <2>5
<1>5. Published(p) = DecodePublish(c.topic, s, q)
  BY <1>3, <1>4 DEF Published
<1>6. PICK t \in Nat \ {0}, m \in Nat \ {0} : t = c.topic /\ m = c.message
  BY Inputs, Strings
<1>7. PICK id \in {0, 2} : id = IdBytes(c.qos)
  BY Identifier
<1>8. s = 2 + t + id + m
  BY Zenon, <1>3, <1>6, <1>7 DEF AfterHeader
<1>9. 2 + t + id < s /\ s - (2 + t + id) = m /\ t > 0
  BY <1>8
<1>10. DecodePublish(t, s, q) = [ok |-> TRUE, topic |-> t, message |-> m]
  BY Zenon, <1>3, <1>7, <1>9 DEF DecodePublish
<1> QED  BY Zenon, <1>5, <1>6, <1>10

LEMMA PublishArrives ==
  ASSUME ShortPackets, 0 \notin Messages, CodecInv
  PROVE  PublishReceived
<1>1. ASSUME stage = "read", call.kind \in {"publish", "inbound"} PROVE result = Published(packet)
  BY <1>1 DEF CodecInv, ResultInv
<1>2. ASSUME stage = "read", call.kind = "publish"
      PROVE  result = [ok |-> TRUE, topic |-> call.topic, message |-> call.message]
  <2>1. /\ call.topic \in Lengths \ {0} /\ call.message \in Messages
        /\ call.qos \in 0..2 /\ call.retain \in BOOLEAN
        /\ HeaderIs(packet.header, Flags(call.retain, call.qos, FALSE, PUBLISH), AfterHeader(call))
        /\ packet.content[1] = call.topic
    BY <1>2, PublishIs
  <2>2. result = Published(packet) /\ FALSE \in BOOLEAN
    BY <1>1, <1>2
  <2> QED  BY Zenon, <2>1, <2>2, PublishRead
<1>3. ASSUME stage = "read", call.kind = "inbound", call.qos = 0
      PROVE  result = [ok |-> TRUE, topic |-> call.topic, message |-> call.message]
  <2>1. /\ call.topic \in Lengths \ {0} /\ call.message \in Messages /\ call.retain \in BOOLEAN
        /\ HeaderIs(packet.header, Flags(FALSE, call.qos, call.retain, PUBLISH), AfterHeader(call))
        /\ packet.content[1] = call.topic
    BY <1>3, InboundIs
  <2>2. result = Published(packet) /\ FALSE \in BOOLEAN /\ call.qos \in 0..2
    BY <1>1, <1>3
  <2> QED  BY Zenon, <2>1, <2>2, PublishRead
<1> QED  BY <1>2, <1>3 DEF PublishReceived

\* What mqtt_parse_input_stream finds in the PUBLISH of this library, with any QoS and retain
\* flag, or in a broker's at QoS 0, is its topic and its message, unless that is empty, which
\* it takes for an error (mqtt.c 677).
THEOREM PublishesReceived ==
  ShortPackets /\ 0 \notin Messages => (Spec => []PublishReceived)
<1> SUFFICES ASSUME ShortPackets, 0 \notin Messages PROVE Spec => []PublishReceived
  OBVIOUS
<1>1. CodecInv => PublishReceived
  BY PublishArrives
<1> QED  BY <1>1, CodecHolds, PTL

\* encode_publish's first byte, bit by bit, as a broker reads it: its retain flag is dup, which
\* is never set; its QoS is made of the retain flag and the lower bit of the QoS.
LEMMA PublishOnWire ==
  ASSUME NEW qos \in 0..2, NEW retain \in BOOLEAN
  PROVE  \E r \in 0..1, seen \in 0..3, twice \in BOOLEAN :
           /\ WireFlags(Flags(retain, qos, FALSE, PUBLISH)) = [retain |-> FALSE, qos |-> seen, dup |-> twice]
           /\ (r = 1 <=> retain) /\ seen = (2 * qos + r) % 4 /\ (twice <=> qos = 2)
<1>1. PICK r \in 0..1 : r = Bit(retain) /\ (r = 1 <=> retain)
  BY Bits
<1>2. PICK byte : byte = 0 + 2 * r + 4 * qos + 16 * 3
  OBVIOUS
<1>3. Flags(retain, qos, FALSE, PUBLISH) = byte
  <2>1. 0 + 2 * r + 4 * qos + 16 * 3 = Flags(retain, qos, FALSE, PUBLISH)
    BY Zenon, <1>1 DEF Flags, Bit, PUBLISH
  <2> QED  BY <1>2, <2>1
<1>4. PICK seen \in 0..3 : seen = (2 * qos + r) % 4
  OBVIOUS
<1>5. PICK twice \in BOOLEAN : twice <=> qos = 2
  OBVIOUS
<1>6. byte % 2 # 1 /\ (byte \div 2) % 4 = seen /\ ((byte \div 8) % 2 = 1 <=> qos = 2)
  BY <1>2, <1>4
<1>7. (byte % 2 = 1) = FALSE /\ ((byte \div 8) % 2 = 1) = twice
  BY <1>5, <1>6
<1>8. WireFlags(byte) = [retain |-> FALSE, qos |-> seen, dup |-> twice]
  BY <1>6, <1>7 DEF WireFlags
<1> QED  BY Zenon, <1>1, <1>3, <1>4, <1>5, <1>8

LEMMA Reach ==
  ASSUME NEW qos \in 0..2, NEW retain \in BOOLEAN, NEW byte, byte = Flags(retain, qos, FALSE, PUBLISH)
  PROVE  WireFlags(byte) = [retain |-> retain, qos |-> qos, dup |-> FALSE] <=> qos = 0 /\ ~retain
<1>1. PICK r \in 0..1, seen \in 0..3, twice \in BOOLEAN :
        /\ WireFlags(byte) = [retain |-> FALSE, qos |-> seen, dup |-> twice]
        /\ (r = 1 <=> retain) /\ seen = (2 * qos + r) % 4 /\ (twice <=> qos = 2)
  BY Zenon, PublishOnWire
<1>2. r = 0 /\ seen = qos /\ qos # 2 <=> qos = 0 /\ r = 0
  BY <1>1
<1>3. [retain |-> FALSE, qos |-> seen, dup |-> twice] = [retain |-> retain, qos |-> qos, dup |-> FALSE]
        <=> ~retain /\ seen = qos /\ ~twice
  OBVIOUS
<1>4. ~retain <=> r = 0
  BY <1>1
<1>5. ~retain /\ seen = qos /\ ~twice <=> qos = 0 /\ ~retain
  BY Zenon, <1>1, <1>2, <1>4
<1> QED  BY Zenon, <1>1, <1>3, <1>5

LEMMA FlagsOnWire ==
  ASSUME ShortPackets, CodecInv
  PROVE  PlainFlagsReach
<1>1. ASSUME stage = "formed", call.kind = "publish" PROVE AsAsked <=> call.qos = 0 /\ ~call.retain
  <2>1. /\ packet.header[1] = Flags(call.retain, call.qos, FALSE, PUBLISH)
        /\ call.qos \in 0..2 /\ call.retain \in BOOLEAN
    BY <1>1, PublishIs DEF HeaderIs
  <2>2. PICK byte : byte = packet.header[1]
    OBVIOUS
  <2>3. WireFlags(byte) = [retain |-> call.retain, qos |-> call.qos, dup |-> FALSE] <=> call.qos = 0 /\ ~call.retain
    BY Zenon, <2>1, <2>2, Reach
  <2> QED  BY Zenon, <2>2, <2>3 DEF AsAsked
<1>2. ASSUME stage = "formed", call.kind = "subscribe"
      PROVE  WireFlags(packet.header[1]) = [retain |-> FALSE, qos |-> 1, dup |-> FALSE]
  <2>1. packet.header[1] = Flags(TRUE, 0, FALSE, SUBSCRIBE)
    BY <1>2, SubscribeIs DEF HeaderIs
  <2>2. Flags(TRUE, 0, FALSE, SUBSCRIBE) = 130
    BY DEF Flags, Bit, SUBSCRIBE
  <2>3. (130 % 2 = 1) = FALSE /\ (130 \div 2) % 4 = 1 /\ ((130 \div 8) % 2 = 1) = FALSE
    OBVIOUS
  <2>4. WireFlags(130) = [retain |-> FALSE, qos |-> 1, dup |-> FALSE]
    BY Zenon, <2>3 DEF WireFlags
  <2> QED  BY Zenon, <2>1, <2>2, <2>4
<1> QED  BY <1>1, <1>2 DEF PlainFlagsReach

\* Of all QoS levels and retain flags that mqtt(ACTION_PUBLISH) takes, a broker is told QoS 0
\* without retain as it was asked, and no other (mqtt.c 581, mqtt.h 128-134); every SUBSCRIBE
\* has the flags of chapter 2.2.
THEOREM FlagsReachBroker == ShortPackets => (Spec => []PlainFlagsReach)
<1> SUFFICES ASSUME ShortPackets PROVE Spec => []PlainFlagsReach
  OBVIOUS
<1>1. CodecInv => PlainFlagsReach
  BY FlagsOnWire
<1> QED  BY <1>1, CodecHolds, PTL

LEMMA FlagsMatch ==
  ASSUME CodecInv
  PROVE  FlagsMatchPayload
<1> SUFFICES ASSUME stage = "formed", call.kind = "connect"
             PROVE  LET flags == packet.content.flags
                    IN  packet.content.count = 1 + 2 * Bit(flags.will) + Bit(flags.user) + Bit(flags.password)
  BY DEF FlagsMatchPayload
<1>1. call \in ConnectCall /\ packet.content = [flags |-> ParameterFlags(call), count |-> Len(Parameters(call))]
  BY ConnectIs
<1>2. packet.content.flags = ParameterFlags(call) /\ packet.content.count = Len(Parameters(call))
  BY <1>1
<1> QED  BY <1>1, <1>2, ParametersAre

\* The flags of CONNECT say which strings follow, for all strings, buffers and flags left
\* from before: no string is dropped without a failure.
THEOREM FlagsMatchStrings == Spec => []FlagsMatchPayload
<1>1. CodecInv => FlagsMatchPayload
  BY FlagsMatch
<1> QED  BY <1>1, CodecHolds, PTL

==============================================================================
