-------------------------- MODULE TcpWindowProofs ---------------------------
(*****************************************************************************)
(* What the operators of StreamBuffer and TcpWindow do, in terms of positions*)
(* in the stream: how many bytes come before a byte.  First numbers and the  *)
(* circular buffer; then the transmission window and its invariant WindowInv;*)
(* then what an acknowledgement does to it.  TcpStreamProofs takes the steps of*)
(* the two hosts from these.                                                 *)
(*****************************************************************************)
EXTENDS TcpStream, TLAPS, SequenceTheorems, FiniteSetTheorems, WellFoundedInduction

-----------------------------------------------------------------------------
(* Remainders. *)

LEMMA Remainder ==
  ASSUME NEW M \in Nat \ {0}, NEW x \in Int
  PROVE  x % M \in 0..M - 1
BY SMT

LEMMA RemainderIs ==
  ASSUME NEW M \in Nat \ {0}, NEW x \in Int, NEW k \in Int, NEW r \in 0..M - 1, x = k * M + r
  PROVE  x % M = r
BY SMT

\* Up to two rounds away, a remainder is found by adding or subtracting.
LEMMA RemainderNear ==
  ASSUME NEW M \in Nat \ {0}, NEW x \in Int, 0 - 2 * M <= x, x < 2 * M
  PROVE  x % M = IF x >= M THEN x - M ELSE IF x >= 0 THEN x ELSE IF x >= 0 - M THEN x + M ELSE x + 2 * M
<1>1. CASE x >= M
  <2>1. x - M \in 0..M - 1 /\ x = 1 * M + (x - M)
    BY <1>1
  <2> QED  BY <1>1, <2>1, RemainderIs
<1>2. CASE 0 <= x /\ x < M
  <2>1. x \in 0..M - 1 /\ x = 0 * M + x
    BY <1>2
  <2> QED  BY <1>2, <2>1, RemainderIs
<1>3. CASE 0 - M <= x /\ x < 0
  <2>1. x + M \in 0..M - 1 /\ x = (-1) * M + (x + M)
    BY <1>3
  <2> QED  BY <1>3, <2>1, RemainderIs
<1>4. CASE x < 0 - M
  <2>1. x + 2 * M \in 0..M - 1 /\ x = (-2) * M + (x + 2 * M)
    BY <1>4
  <2> QED  BY <1>4, <2>1, RemainderIs
<1> QED  BY <1>1, <1>2, <1>3, <1>4

\* A set of numbers has a least one.
LEMMA LeastOf ==
  ASSUME NEW S \in SUBSET Nat, S # {}
  PROVE  \E x \in S : \A y \in S : x <= y
<1>1. PICK x \in S : \A y \in S : ~ (<<y, x>> \in OpToRel(<, Nat))
  BY NatLessThanWellFounded, WFMin
<1>2. ASSUME NEW y \in S PROVE x <= y
  <2>1. x \in Nat /\ y \in Nat
    OBVIOUS
  <2>2. ~ (y < x)
    BY <1>1, <2>1 DEF OpToRel
  <2> QED  BY SMT, <2>1, <2>2
<1> QED  BY <1>2

\* What holds of 0, and of each number up to n if of the one before, holds up to n.
LEMMA Upward ==
  ASSUME NEW n \in Nat, NEW T, 0 \in T, \A i \in 1..n : i - 1 \in T => i \in T
  PROVE  \A i \in 0..n : i \in T
<1> DEFINE S == {i \in 0..n : i \notin T}
<1>1. SUFFICES ASSUME S # {} PROVE FALSE
  OBVIOUS
<1>2. S \in SUBSET Nat
  OBVIOUS
<1>3. PICK x \in S : \A y \in S : x <= y
  <2> HIDE DEF S
  <2> QED  BY <1>1, <1>2, LeastOf
<1>4. x \in 0..n /\ x \notin T
  OBVIOUS
<1>5. x \in 1..n /\ x - 1 \in 0..n /\ ~ (x <= x - 1)
  BY <1>4
<1>6. x - 1 \in T
  BY <1>3, <1>5
<1> QED  BY <1>4, <1>5, <1>6

LEMMA Quotient ==
  ASSUME NEW M \in Nat \ {0}, NEW x \in Nat
  PROVE  \E k \in Nat, r \in 0..M - 1 : x = k * M + r /\ x % M = r
<1> DEFINE T == {y \in Nat : \E k \in Nat : \E r \in 0..M - 1 : y = k * M + r}
<1>1. 0 \in T
  <2>1. 0 \in 0..M - 1 /\ 0 = 0 * M + 0
    OBVIOUS
  <2> QED  BY <2>1
<1>2. ASSUME NEW y \in 1..x, y - 1 \in T PROVE y \in T
  <2>1. PICK k \in Nat, r \in 0..M - 1 : y - 1 = k * M + r
    BY <1>2
  <2>2. PICK p \in Int : p = k * M
    OBVIOUS
  <2>3. CASE r + 1 < M
    <3>1. r + 1 \in 0..M - 1 /\ y = k * M + (r + 1)
      BY <2>1, <2>2, <2>3
    <3> QED  BY <3>1
  <2>4. CASE r + 1 = M
    <3>1. k + 1 \in Nat /\ (k + 1) * M = p + M
      BY <2>2
    <3>2. 0 \in 0..M - 1 /\ y = (k + 1) * M + 0
      BY <2>1, <2>2, <2>4, <3>1
    <3> QED  BY <3>1, <3>2
  <2> QED  BY <2>3, <2>4
<1>3. x \in T
  <2> HIDE DEF T
  <2>1. \A i \in 0..x : i \in T
    BY <1>1, <1>2, Upward
  <2> QED  BY <2>1
<1>4. PICK k \in Nat, r \in 0..M - 1 : x = k * M + r
  BY <1>3
<1>5. x % M = r
  BY <1>4, RemainderIs
<1> QED  BY <1>4, <1>5

\* The index of a byte n further on.
LEMMA RemainderSum ==
  ASSUME NEW M \in Nat \ {0}, NEW x \in Nat, NEW n \in 0..M
  PROVE  /\ (x + n) % M = IF (x % M) + n >= M THEN (x % M) + n - M ELSE (x % M) + n
         /\ x % M \in 0..M - 1
<1>1. PICK k \in Nat, r \in 0..M - 1 : x = k * M + r /\ x % M = r
  BY Quotient
<1>2. x = k * M + r
  BY <1>1
<1>3. PICK p \in Int : p = k * M
  OBVIOUS
<1>4. CASE r + n >= M
  <2>1. (k + 1) * M = p + M
    BY <1>3
  <2>2. r + n - M \in 0..M - 1 /\ x + n = (k + 1) * M + (r + n - M) /\ k + 1 \in Int
    BY <1>2, <1>3, <1>4, <2>1
  <2>3. x + n \in Int
    OBVIOUS
  <2>4. (x + n) % M = r + n - M
    BY <2>2, <2>3, RemainderIs
  <2> QED  BY <1>1, <1>4, <2>4
<1>5. CASE r + n < M
  <2>1. r + n \in 0..M - 1 /\ x + n = k * M + (r + n)
    BY <1>2, <1>3, <1>5
  <2>2. x + n \in Int /\ k \in Int
    OBVIOUS
  <2>3. (x + n) % M = r + n
    BY <2>1, <2>2, RemainderIs
  <2> QED  BY <1>1, <1>5, <2>3
<1> QED  BY <1>1, <1>4, <1>5

-----------------------------------------------------------------------------
(* Numbers and positions. *)

\* The position of a number: how many bytes come before the one it names.
Off(n) == Minus(n, First)

\* A connection of fewer bytes than half the numbers: none is used twice.
Unambiguous == Total < Modulus \div 2

LEMMA Constants ==
  /\ Modulus \in Nat \ {0} /\ First \in 0..Modulus - 1 /\ Total \in Nat /\ MSS \in Nat \ {0}
  /\ Modulus = 2 * (Modulus \div 2) /\ Modulus \div 2 \in Nat
BY ModulusAssumption, TotalAssumption, MSSAssumption DEF Number

LEMMA MinusIs ==
  ASSUME NEW a \in 0..Modulus - 1, NEW b \in 0..Modulus
  PROVE  Minus(a, b) = IF a >= b THEN a - b ELSE a - b + Modulus
<1>1. PICK x \in Int : x = a - b
  BY Constants
<1>2. 0 - Modulus <= x /\ x < Modulus /\ 0 - 2 * Modulus <= x /\ x < 2 * Modulus /\ Modulus \in Nat \ {0}
  BY <1>1, Constants
<1>3. x % Modulus = IF x >= 0 THEN x ELSE x + Modulus
  <2>1. PICK M \in Nat \ {0} : M = Modulus
    BY <1>2
  <2>2. x % M = IF x >= 0 THEN x ELSE x + M
    <3>1. 0 - 2 * M <= x /\ x < 2 * M /\ x < M /\ x >= 0 - M
      BY <1>2, <2>1
    <3>2. x % M = IF x >= M THEN x - M ELSE IF x >= 0 THEN x ELSE IF x >= 0 - M THEN x + M ELSE x + 2 * M
      BY <3>1, RemainderNear
    <3> QED  BY <3>1, <3>2
  <2> QED  BY <2>1, <2>2
<1>4. Minus(a, b) = x % Modulus
  BY <1>1 DEF Minus
<1> QED  BY <1>1, <1>2, <1>3, <1>4, Constants

LEMMA PlusIs ==
  ASSUME NEW a \in 0..Modulus - 1, NEW b \in 0..Modulus
  PROVE  Plus(a, b) = IF a + b >= Modulus THEN a + b - Modulus ELSE a + b
<1>1. PICK x \in Int : x = a + b
  BY Constants
<1>2. 0 <= x /\ 0 - 2 * Modulus <= x /\ x < 2 * Modulus /\ Modulus \in Nat \ {0}
  BY <1>1, Constants
<1>3. x % Modulus = IF x >= Modulus THEN x - Modulus ELSE x
  BY <1>2, RemainderNear
<1>4. Plus(a, b) = x % Modulus
  BY <1>1 DEF Plus
<1> QED  BY <1>1, <1>2, <1>3, <1>4, Constants

LEMMA OffType ==
  ASSUME NEW n \in Number
  PROVE  Off(n) \in 0..Modulus - 1 /\ Off(n) = IF n >= First THEN n - First ELSE n - First + Modulus
BY Constants, MinusIs DEF Off, Number

LEMMA OffInjective ==
  ASSUME NEW m \in Number, NEW n \in Number, Off(m) = Off(n)
  PROVE  m = n
BY Constants, OffType DEF Number

LEMMA OffPlus ==
  ASSUME NEW p \in 0..Modulus - 1
  PROVE  Plus(First, p) \in Number /\ Off(Plus(First, p)) = p
<1>1. Plus(First, p) = IF First + p >= Modulus THEN First + p - Modulus ELSE First + p
  BY Constants, PlusIs
<1>2. Plus(First, p) \in Number
  BY <1>1, Constants DEF Number
<1> QED  BY <1>1, <1>2, Constants, OffType DEF Number

LEMMA NumberSum ==
  ASSUME Unambiguous, NEW n \in Number, NEW k \in Nat, Off(n) + k <= Total
  PROVE  Plus(n, k) \in Number /\ Off(Plus(n, k)) = Off(n) + k
<1>1. k < Modulus
  BY Constants, OffType DEF Unambiguous
<1>2. Plus(n, k) = IF n + k >= Modulus THEN n + k - Modulus ELSE n + k
  BY <1>1, Constants, PlusIs DEF Number
<1>3. Plus(n, k) \in Number
  BY <1>1, <1>2, Constants DEF Number
<1> QED  BY <1>1, <1>2, <1>3, Constants, OffType DEF Number, Unambiguous

\* The comparisons of numbers are those of their positions.
LEMMA Comparisons ==
  ASSUME Unambiguous, NEW a \in Number, NEW b \in Number, Off(a) <= Total, Off(b) <= Total
  PROVE  /\ LessThanOrEqual(a, b) <=> Off(a) <= Off(b)
         /\ LessThan(a, b) <=> Off(a) < Off(b)
         /\ GreaterThan(a, b) <=> Off(a) > Off(b)
         /\ Signed(Minus(b, a)) = Off(b) - Off(a)
         /\ Off(a) <= Off(b) => Minus(b, a) = Off(b) - Off(a)
<1>1. PICK p \in 0..Modulus - 1, q \in 0..Modulus - 1 :
        /\ p = Off(a) /\ q = Off(b) /\ p <= Total /\ q <= Total
        /\ p = IF a >= First THEN a - First ELSE a - First + Modulus
        /\ q = IF b >= First THEN b - First ELSE b - First + Modulus
  BY OffType
<1>2. a \in 0..Modulus - 1 /\ b \in 0..Modulus - 1 /\ Modulus = 2 * (Modulus \div 2) /\ Total < Modulus \div 2
      /\ Modulus \in Nat \ {0} /\ Total \in Nat /\ Modulus \div 2 \in Nat
  BY Constants DEF Unambiguous, Number
<1>3. Minus(b, a) = IF p <= q THEN q - p ELSE q - p + Modulus
  <2>1. Minus(b, a) = IF b - a >= 0 THEN b - a ELSE b - a + Modulus
    BY <1>2, MinusIs
  <2> QED  BY <1>1, <1>2, <2>1, Constants
<1>4. ASSUME NEW x \in Number, NEW y \in Number, NEW u \in 0..Total, NEW v \in 0..Total,
             u = IF x >= First THEN x - First ELSE x - First + Modulus,
             v = IF y >= First THEN y - First ELSE y - First + Modulus
      PROVE  LessThan(x, y) <=> u < v
  <2>1. x \in 0..Modulus - 1 /\ y \in 0..Modulus - 1
    BY Constants DEF Number
  <2>2. Minus(y, x + 1) = IF y - (x + 1) >= 0 THEN y - (x + 1) ELSE y - (x + 1) + Modulus
    BY <1>2, <2>1, MinusIs
  <2>3. Minus(y, x + 1) = IF u < v THEN v - u - 1 ELSE v - u - 1 + Modulus
    BY <1>2, <1>4, <2>1, <2>2, Constants
  <2> QED  BY <1>2, <2>3 DEF LessThan
<1>5. p \in 0..Total /\ q \in 0..Total
  BY <1>1, <1>2
<1>6. LessThan(a, b) <=> p < q
  BY <1>1, <1>4, <1>5
<1>7. GreaterThan(a, b) <=> p > q
  <2>1. LessThan(b, a) <=> q < p
    BY <1>1, <1>4, <1>5
  <2> QED  BY <1>5, <2>1 DEF GreaterThan
<1>8. LessThanOrEqual(a, b) <=> p <= q
  BY <1>2, <1>3, <1>5 DEF LessThanOrEqual
<1>9. Signed(Minus(b, a)) = q - p
  BY <1>2, <1>3, <1>5 DEF Signed
<1> QED  BY <1>1, <1>3, <1>6, <1>7, <1>8, <1>9

-----------------------------------------------------------------------------
(* The circular buffer: the byte at position p is at index p % LENGTH. *)

Slot(p, length) == p % length

LEMMA SlotType ==
  ASSUME NEW L \in Nat \ {0}, NEW x \in Nat
  PROVE  Slot(x, L) \in 0..L - 1
BY Remainder DEF Slot

LEMMA SlotSum ==
  ASSUME NEW L \in Nat \ {0}, NEW x \in Nat, NEW n \in 0..L
  PROVE  /\ Slot(x + n, L) = IF Slot(x, L) + n >= L THEN Slot(x, L) + n - L ELSE Slot(x, L) + n
         /\ Slot(Slot(x, L) + n, L) = Slot(x + n, L)
<1>1. PICK r \in 0..L - 1 : r = x % L
  BY Remainder
<1>2. (x + n) % L = IF r + n >= L THEN r + n - L ELSE r + n
  BY <1>1, RemainderSum
<1>3. (r + n) % L = IF r + n >= L THEN r + n - L ELSE r + n
  <2>1. r + n \in Int /\ 0 - 2 * L <= r + n /\ r + n < 2 * L /\ r + n >= 0
    OBVIOUS
  <2>2. PICK y \in Int : y = r + n
    BY <2>1
  <2>3. y % L = IF y >= L THEN y - L ELSE IF y >= 0 THEN y ELSE IF y >= 0 - L THEN y + L ELSE y + 2 * L
    BY <2>1, <2>2, RemainderNear
  <2> QED  BY <2>1, <2>2, <2>3
<1> QED  BY <1>1, <1>2, <1>3 DEF Slot

LEMMA SlotStep ==
  ASSUME NEW L \in Nat \ {0}, NEW x \in Nat, NEW y \in Nat, x <= y, y - x <= L
  PROVE  Slot(y, L) = IF Slot(x, L) + (y - x) >= L THEN Slot(x, L) + (y - x) - L ELSE Slot(x, L) + (y - x)
<1>1. PICK n \in 0..L : n = y - x /\ y = x + n
  OBVIOUS
<1>2. Slot(x + n, L) = IF Slot(x, L) + n >= L THEN Slot(x, L) + n - L ELSE Slot(x, L) + n
  BY SlotSum
<1> QED  BY <1>1, <1>2

\* Positions t to h are between the tail and the head.
Between(b, length, t, h) ==
  /\ StreamType(b, Byte) /\ b.LENGTH = length
  /\ t \in Nat /\ h \in Nat /\ t <= h /\ h - t <= length - 1
  /\ b.tail = Slot(t, length) /\ b.head = Slot(h, length)

\* The bytes from one position to another are in their places.
Holds(b, from, to) == \A p \in from..to - 1 : b.array[Slot(p, b.LENGTH)] = p + 1

LEMMA WrapIs ==
  ASSUME NEW b, NEW L \in Nat \ {0}, b.LENGTH = L, NEW x \in Nat, NEW n \in 0..L
  PROVE  Wrap(b, Slot(x, L) + n) = Slot(x + n, L)
<1>1. PICK y \in Nat : y = x + n
  OBVIOUS
<1>2. Slot(y, L) = IF Slot(x, L) + n >= L THEN Slot(x, L) + n - L ELSE Slot(x, L) + n
  BY <1>1, SlotStep
<1>3. Slot(x, L) \in 0..L - 1
  BY SlotType
<1> QED  BY <1>1, <1>2, <1>3 DEF Wrap

LEMMA DistanceIs ==
  ASSUME NEW b, NEW L \in Nat \ {0}, b.LENGTH = L, NEW x \in Nat, NEW y \in Nat, x <= y, y - x <= L - 1
  PROVE  /\ Distance(b, Slot(x, L), Slot(y, L)) = y - x
         /\ Distance(b, Slot(y, L), Slot(x, L)) = IF y = x THEN 0 ELSE L - (y - x)
         /\ Space(b, Slot(y, L), Slot(x, L)) = L - 1 - (y - x)
<1>1. PICK n \in 0..L : n = y - x /\ y = x + n /\ n < L
  OBVIOUS
<1>2. Slot(y, L) = IF Slot(x, L) + n >= L THEN Slot(x, L) + n - L ELSE Slot(x, L) + n
  BY <1>1, SlotStep
<1>3. PICK r \in 0..L - 1 : r = Slot(x, L)
  BY SlotType
<1> QED  BY <1>1, <1>2, <1>3 DEF Distance, Space, Wrap

LEMMA SizeIs ==
  ASSUME NEW b, NEW L, NEW t, NEW h, Between(b, L, t, h)
  PROVE  GetSize(b) = h - t /\ GetSpace(b) = L - 1 - (h - t) /\ L \in Nat \ {0}
<1>1. L \in Nat \ {0} /\ b.LENGTH = L /\ t \in Nat /\ h \in Nat /\ t <= h /\ h - t <= L - 1
  BY DEF Between, StreamType
<1>2. b.tail = Slot(t, L) /\ b.head = Slot(h, L)
  BY DEF Between
<1> QED  BY <1>1, <1>2, DistanceIs DEF GetSize, GetSpace

LEMMA FrontType ==
  ASSUME NEW b, StreamType(b, Byte)
  PROVE  /\ FrontSpace(b) \in 0..b.LENGTH - 1 /\ MidSpace(b) \in 0..b.LENGTH - 1
         /\ GetSize(b) \in 0..b.LENGTH - 1 /\ GetSpace(b) \in 0..b.LENGTH - 1
<1>1. PICK L \in Nat \ {0} : L = b.LENGTH
  BY DEF StreamType
<1>2. b.tail \in 0..L - 1 /\ b.mid \in 0..L - 1 /\ b.head \in 0..L - 1 /\ b.front \in 0..L - 1
  BY <1>1 DEF StreamType
<1>3. ASSUME NEW i \in 0..L - 1, NEW j \in 0..L - 1
      PROVE  Space(b, i, j) \in 0..L - 1 /\ Distance(b, i, j) \in 0..L - 1
  BY <1>1 DEF Space, Distance, Wrap
<1> QED  BY <1>1, <1>2, <1>3 DEF FrontSpace, MidSpace, GetSize, GetSpace

\* n bytes are written from the position x on.
Written(b, c, L, t, x, n, bytes) ==
  \A p \in t..t + L - 1 :
    c.array[Slot(p, L)] = IF x <= p /\ p < x + n THEN bytes[p - x + 1] ELSE b.array[Slot(p, L)]

\* Bytes are copied into the free space, offset bytes behind the head.
LEMMA CopiedIs ==
  ASSUME NEW b, NEW L, NEW t, NEW h, Between(b, L, t, h), NEW offset \in Nat, NEW n \in Nat,
         offset + n <= L - 1 - (h - t), NEW bytes \in Seq(Byte), Len(bytes) = n,
         NEW c, c = Copied(b, offset, bytes)
  PROVE  Between(c, L, t, h) /\ c.mid = b.mid /\ c.front = b.front /\ Written(b, c, L, t, h + offset, n, bytes)
<1>1. L \in Nat \ {0} /\ b.LENGTH = L /\ t \in Nat /\ h \in Nat /\ t <= h /\ h - t <= L - 1
  BY DEF Between, StreamType
<1>2. PICK at : at = Wrap(b, b.head + offset)
  OBVIOUS
<1>3. at = Slot(h + offset, L) /\ at \in 0..L - 1
  <2>1. offset \in 0..L /\ b.head = Slot(h, L)
    BY <1>1 DEF Between
  <2>2. Wrap(b, Slot(h, L) + offset) = Slot(h + offset, L)
    BY <1>1, <2>1, WrapIs
  <2>3. h + offset \in Nat
    BY <1>1
  <2> QED  BY <1>1, <1>2, <2>1, <2>2, <2>3, SlotType
<1> DEFINE val(i) == IF Distance(b, at, i) < Len(bytes) THEN bytes[Distance(b, at, i) + 1] ELSE b.array[i]
<1>5. b.array \in [0..L - 1 -> Byte \cup {NoByte}]
  BY <1>1 DEF Between, StreamType
<1>4. c = [b EXCEPT !.array = [i \in 0..L - 1 |-> val(i)]]
  BY <1>2, <1>5 DEF Copied
<1>6. \A i \in 0..L - 1 : Distance(b, at, i) \in Nat
  BY <1>1, <1>3 DEF Distance, Wrap
<1>7. ASSUME NEW i \in 0..L - 1 PROVE val(i) \in Byte \cup {NoByte}
  <2>1. CASE Distance(b, at, i) < Len(bytes)
    <3>1. Distance(b, at, i) + 1 \in 1..Len(bytes)
      BY <1>6, <2>1
    <3>2. bytes[Distance(b, at, i) + 1] \in Byte
      BY <3>1, ElementOfSeq
    <3> QED  BY <2>1, <3>2
  <2>2. CASE ~(Distance(b, at, i) < Len(bytes))
    BY <1>5, <2>2
  <2> QED  BY <2>1, <2>2
<1>8. c.array \in [0..L - 1 -> Byte \cup {NoByte}] /\ c.array = [i \in 0..L - 1 |-> val(i)]
  <2> HIDE DEF val
  <2>1. [i \in 0..L - 1 |-> val(i)] \in [0..L - 1 -> Byte \cup {NoByte}]
    BY <1>7
  <2>2. c.array = [i \in 0..L - 1 |-> val(i)]
    BY <1>4 DEF Between, StreamType
  <2> QED  BY <2>1, <2>2
<1>9. c.LENGTH = b.LENGTH /\ c.tail = b.tail /\ c.head = b.head /\ c.mid = b.mid /\ c.front = b.front
  <2> HIDE DEF val
  <2> QED  BY <1>4
<1>10. Between(c, L, t, h)
  BY <1>1, <1>8, <1>9 DEF Between, StreamType
<1>11. ASSUME NEW p \in t..t + L - 1
       PROVE  c.array[Slot(p, L)] =
                IF h + offset <= p /\ p < h + offset + n THEN bytes[p - (h + offset) + 1] ELSE b.array[Slot(p, L)]
  <2>1. Slot(p, L) \in 0..L - 1 /\ p \in Nat
    <3>1. p \in Nat
      BY <1>1
    <3> QED  BY <1>1, <3>1, SlotType
  <2>2. c.array[Slot(p, L)] = val(Slot(p, L))
    <3> HIDE DEF val
    <3> QED  BY <1>8, <2>1
  <2>3. PICK x \in Nat : x = h + offset
    BY <1>1
  <2>4. CASE x <= p
    <3>1. Distance(b, at, Slot(p, L)) = p - x
      BY <1>1, <1>3, <2>1, <2>3, <2>4, DistanceIs
    <3> QED  BY <2>2, <2>3, <2>4, <3>1
  <2>5. CASE p < x
    <3>1. x - p <= L - 1
      BY <1>1, <2>3
    <3>2. Distance(b, at, Slot(p, L)) = L - (x - p)
      BY <1>1, <1>3, <2>1, <2>3, <2>5, <3>1, DistanceIs
    <3>3. L - (x - p) >= n
      BY <1>1, <2>3
    <3> QED  BY <1>1, <2>2, <2>3, <2>5, <3>2, <3>3
  <2> QED  BY <2>1, <2>3, <2>4, <2>5
<1> QED  BY <1>9, <1>10, <1>11 DEF Written

LEMMA ArrayOnly ==
  ASSUME NEW b, NEW d, NEW c, c = [b EXCEPT !.array = d]
  PROVE  c.LENGTH = b.LENGTH /\ c.tail = b.tail /\ c.head = b.head /\ c.mid = b.mid /\ c.front = b.front
BY SMT

\* No bytes are copied.
LEMMA CopiedNone ==
  ASSUME NEW b, StreamType(b, Byte), NEW c, c = Copied(b, 0, <<>>)
  PROVE  /\ c.LENGTH = b.LENGTH /\ c.tail = b.tail /\ c.head = b.head /\ c.mid = b.mid /\ c.front = b.front
         /\ c.array = b.array /\ StreamType(c, Byte)
<1>1. PICK L \in Nat \ {0} : L = b.LENGTH
  BY DEF StreamType
<1>2. PICK at : at = Wrap(b, b.head + 0)
  OBVIOUS
<1>3. b.head \in 0..L - 1 /\ b.array \in [0..L - 1 -> Byte \cup {NoByte}]
  BY <1>1 DEF StreamType
<1>4. at \in 0..L - 1
  BY <1>1, <1>2, <1>3 DEF Wrap
<1>5. \A i \in 0..L - 1 : ~(Distance(b, at, i) < 0)
  BY <1>1, <1>4 DEF Distance, Wrap
<1>6. c = [b EXCEPT !.array = [i \in 0..L - 1 |->
             IF Distance(b, at, i) < 0 THEN <<>>[Distance(b, at, i) + 1] ELSE b.array[i]]]
  BY <1>2, <1>3 DEF Copied
<1>7. [i \in 0..L - 1 |-> IF Distance(b, at, i) < 0 THEN <<>>[Distance(b, at, i) + 1] ELSE b.array[i]] = b.array
  BY <1>3, <1>5
<1>8. c = [b EXCEPT !.array = b.array]
  BY Zenon, <1>6, <1>7
<1>9. c.LENGTH = b.LENGTH /\ c.tail = b.tail /\ c.head = b.head /\ c.mid = b.mid /\ c.front = b.front
  BY <1>8, ArrayOnly
<1>10. c.array = b.array
  BY <1>8 DEF StreamType
<1> QED  BY <1>9, <1>10 DEF StreamType

\* The head moves on, or stays where the bytes were stored ahead of it.
LEMMA AdvancedIs ==
  ASSUME NEW b, NEW L, NEW t, NEW h, Between(b, L, t, h), NEW offset \in Nat, NEW n \in Nat,
         offset + n <= L - 1 - (h - t), NEW c, c = Advanced(b, offset, n)
  PROVE  /\ Between(c, L, t, IF offset = 0 THEN h + n ELSE h)
         /\ c.mid = b.mid /\ c.array = b.array
<1>1. L \in Nat \ {0} /\ b.LENGTH = L /\ t \in Nat /\ h \in Nat /\ t <= h /\ h - t <= L - 1
  BY DEF Between, StreamType
<1> DEFINE m == IF offset = 0 THEN n ELSE offset
<1>2. PICK next : next = Wrap(b, b.head + m)
  OBVIOUS
<1>3. next = Slot(h + m, L) /\ next \in 0..L - 1
  <2>1. m \in 0..L /\ b.head = Slot(h, L)
    BY <1>1 DEF Between
  <2> HIDE DEF m
  <2>2. Wrap(b, Slot(h, L) + m) = Slot(h + m, L)
    BY <1>1, <2>1, WrapIs
  <2> QED  BY <1>1, <1>2, <2>1, <2>2, SlotType
<1>4. c = [b EXCEPT !.head = IF offset = 0 THEN next ELSE b.head,
                    !.front = IF LessThenEqual(b, b.front, next) THEN next ELSE b.front]
  BY <1>2 DEF Advanced
<1>5. /\ c.LENGTH = b.LENGTH /\ c.tail = b.tail /\ c.mid = b.mid /\ c.array = b.array
      /\ c.head = (IF offset = 0 THEN next ELSE b.head) /\ c.front \in {next, b.front}
  BY <1>4 DEF Between, StreamType
<1>6. StreamType(c, Byte)
  BY <1>1, <1>3, <1>5 DEF Between, StreamType
<1> QED  BY <1>1, <1>3, <1>5, <1>6 DEF Between

\* n bytes are added where there is room for them; with none given only the head moves.
LEMMA AddedIs ==
  ASSUME NEW b, NEW L, NEW t, NEW h, Between(b, L, t, h), NEW offset \in Nat, NEW n \in Nat \ {0},
         offset + n <= L - 1 - (h - t), NEW bytes \in Seq(Byte), Len(bytes) = n,
         NEW c, c = StreamAdd(b, offset, bytes, n)
  PROVE  /\ Between(c, L, t, IF offset = 0 THEN h + n ELSE h)
         /\ Written(b, c, L, t, h + offset, n, bytes)
<1>1. GetSpace(b) = L - 1 - (h - t) /\ L \in Nat \ {0} /\ h - t \in Nat
  <2>1. GetSpace(b) = L - 1 - (h - t) /\ L \in Nat \ {0}
    BY SizeIs
  <2> QED  BY <2>1 DEF Between
<1>2. Room(b, offset, n) = n
  BY <1>1 DEF Room, Lesser
<1>3. SubSeq(bytes, 1, Lesser(n, Len(bytes))) = bytes
  BY SubSeqFull DEF Lesser
<1>4. PICK d : d = Copied(b, offset, bytes)
  OBVIOUS
<1>5. c = Advanced(d, offset, n)
  BY <1>2, <1>3, <1>4 DEF StreamAdd
<1>6. /\ Between(d, L, t, h)
      /\ Written(b, d, L, t, h + offset, n, bytes)
  BY <1>4, CopiedIs
<1>7. Between(c, L, t, IF offset = 0 THEN h + n ELSE h) /\ c.array = d.array
  BY <1>5, <1>6, AdvancedIs
<1>8. Written(b, c, L, t, h + offset, n, bytes)
  BY <1>6, <1>7 DEF Written
<1> QED  BY <1>7, <1>8

LEMMA AddedNone ==
  ASSUME NEW b, NEW L, NEW t, NEW h, Between(b, L, t, h), NEW n \in Nat \ {0}, n <= L - 1 - (h - t),
         NEW c, c = StreamAdd(b, 0, <<>>, n)
  PROVE  Between(c, L, t, h + n) /\ c.array = b.array
<1>1. GetSpace(b) = L - 1 - (h - t) /\ L \in Nat \ {0} /\ h - t \in Nat
  <2>1. GetSpace(b) = L - 1 - (h - t) /\ L \in Nat \ {0}
    BY SizeIs
  <2> QED  BY <2>1 DEF Between
<1>2. Room(b, 0, n) = n
  BY <1>1 DEF Room, Lesser
<1>3. SubSeq(<<>>, 1, Lesser(n, Len(<<>>))) = <<>>
  BY SubSeqEmpty, EmptySeq DEF Lesser
<1>4. PICK d : d = Copied(b, 0, <<>>)
  OBVIOUS
<1>5. c = Advanced(d, 0, n)
  BY <1>2, <1>3, <1>4 DEF StreamAdd
<1>6. Between(d, L, t, h) /\ d.array = b.array
  BY <1>4, CopiedNone DEF Between
<1>7. Between(c, L, t, h + n) /\ c.array = d.array
  <2>1. 0 \in Nat /\ 0 + n <= L - 1 - (h - t)
    BY <1>1
  <2> QED  BY <1>5, <1>6, <2>1, AdvancedIs
<1> QED  BY <1>6, <1>7

\* n bytes from the position x on.
Peeked(q, x, n) == Len(q) = n /\ q = [k \in 1..n |-> x + k]

\* What is read from some place on are the bytes there.
LEMMA PeekIs ==
  ASSUME NEW b, NEW L, NEW t, NEW h, Between(b, L, t, h), NEW x \in Nat, t <= x, x <= h, NEW n \in Nat,
         Holds(b, x, h), NEW q, q = Peek(b, x - t, n)
  PROVE  Peeked(q, x, Lesser(h - x, n)) /\ Lesser(h - x, n) \in Nat
<1>1. GetSize(b) = h - t /\ L \in Nat \ {0} /\ t \in Nat /\ h \in Nat /\ b.LENGTH = L /\ b.tail = Slot(t, L)
      /\ h - t <= L - 1
  <2>1. GetSize(b) = h - t
    BY SizeIs
  <2> QED  BY <2>1 DEF Between, StreamType
<1>2. PICK m \in Nat : m = Lesser(h - x, n) /\ m <= h - x
  BY <1>1 DEF Lesser
<1>3. (IF GetSize(b) > x - t THEN GetSize(b) - (x - t) ELSE 0) = h - x
  BY <1>1
<1>4. q = [k \in 1..m |-> b.array[Wrap(b, Wrap(b, b.tail + (x - t)) + k - 1)]]
  BY <1>2, <1>3 DEF Peek
<1>5. ASSUME NEW k \in 1..m PROVE b.array[Wrap(b, Wrap(b, b.tail + (x - t)) + k - 1)] = x + k
  <2>1. Wrap(b, b.tail + (x - t)) = Slot(x, L)
    <3>1. PICK d \in 0..L : d = x - t /\ t + d = x
      BY <1>1
    <3>2. Wrap(b, Slot(t, L) + d) = Slot(t + d, L)
      BY <1>1, WrapIs
    <3> QED  BY <1>1, <3>1, <3>2
  <2>2. Wrap(b, Slot(x, L) + k - 1) = Slot(x + (k - 1), L)
    <3>1. PICK d \in 0..L : d = k - 1
      BY <1>1, <1>2
    <3>2. Wrap(b, Slot(x, L) + d) = Slot(x + d, L)
      BY <1>1, WrapIs
    <3>3. Slot(x, L) \in Int
      BY <1>1, SlotType
    <3>4. Slot(x, L) + d = Slot(x, L) + k - 1
      BY <3>1, <3>3
    <3> QED  BY <3>1, <3>2, <3>4
  <2>3. x + (k - 1) \in x..h - 1
    BY <1>1, <1>2
  <2>4. b.array[Slot(x + (k - 1), L)] = x + (k - 1) + 1
    BY <1>1, <2>3 DEF Holds
  <2> QED  BY <2>1, <2>2, <2>4
<1>6. q = [k \in 1..m |-> x + k]
  BY <1>4, <1>5
<1>7. Len(q) = m
  BY <1>6
<1> QED  BY <1>2, <1>6, <1>7 DEF Peeked

LEMMA ReleasedIs ==
  ASSUME NEW b, NEW L, NEW t, NEW h, Between(b, L, t, h), NEW n \in Nat, n <= h - t,
         NEW c, c = Released(b, n)
  PROVE  /\ Between(c, L, t + n, h) /\ c.mid = b.mid /\ c.array = b.array
<1>1. GetSize(b) = h - t /\ L \in Nat \ {0} /\ t \in Nat /\ h \in Nat /\ b.LENGTH = L /\ b.tail = Slot(t, L)
      /\ h - t <= L - 1
  <2>1. GetSize(b) = h - t
    BY SizeIs
  <2> QED  BY <2>1 DEF Between, StreamType
<1>2. Lesser(n, GetSize(b)) = n /\ n \in 0..L
  BY <1>1 DEF Lesser
<1>3. Wrap(b, Slot(t, L) + n) = Slot(t + n, L)
  BY <1>1, <1>2, WrapIs
<1>4. c = [b EXCEPT !.tail = Slot(t + n, L)]
  BY <1>1, <1>2, <1>3 DEF Released
<1>5. /\ c.LENGTH = b.LENGTH /\ c.head = b.head /\ c.mid = b.mid /\ c.front = b.front /\ c.array = b.array
      /\ c.tail = Slot(t + n, L)
  BY <1>4 DEF Between, StreamType
<1>6. t + n \in Nat /\ Slot(t + n, L) \in 0..L - 1
  BY <1>1, SlotType
<1> QED  BY <1>1, <1>5, <1>6 DEF Between, StreamType

LEMMA MidIs ==
  ASSUME NEW b, NEW L, NEW t, NEW h, Between(b, L, t, h), NEW m \in Nat, m <= h, h - m <= L - 1, b.mid = Slot(m, L)
  PROVE  /\ MidSpace(b) = h - m
         /\ \A n \in 0..h - m : \A c : c = MoveMid(b, n) =>
               Between(c, L, t, h) /\ c.mid = Slot(m + n, L) /\ c.array = b.array
<1>1. L \in Nat \ {0} /\ t \in Nat /\ h \in Nat /\ b.LENGTH = L /\ b.head = Slot(h, L)
  BY DEF Between, StreamType
<1>2. MidSpace(b) = h - m
  BY <1>1, DistanceIs DEF MidSpace
<1>3. ASSUME NEW n \in 0..h - m, NEW c, c = MoveMid(b, n)
      PROVE  Between(c, L, t, h) /\ c.mid = Slot(m + n, L) /\ c.array = b.array
  <2>1. Lesser(n, MidSpace(b)) = n /\ n \in 0..L /\ m + n \in Nat
    BY <1>1, <1>2 DEF Lesser
  <2>2. Wrap(b, Slot(m, L) + n) = Slot(m + n, L) /\ Slot(m + n, L) \in 0..L - 1
    <3>1. Wrap(b, Slot(m, L) + n) = Slot(m + n, L)
      BY <1>1, <2>1, WrapIs
    <3>2. Slot(m + n, L) \in 0..L - 1
      BY <1>1, <2>1, SlotType
    <3> QED  BY <3>1, <3>2
  <2>3. c = [b EXCEPT !.mid = Slot(m + n, L)]
    BY <1>3, <2>1, <2>2 DEF MoveMid
  <2>4. /\ c.LENGTH = b.LENGTH /\ c.head = b.head /\ c.tail = b.tail /\ c.front = b.front /\ c.array = b.array
        /\ c.mid = Slot(m + n, L)
    BY <2>3 DEF Between, StreamType
  <2> QED  BY <1>1, <2>2, <2>4 DEF Between, StreamType
<1> QED  BY <1>2, <1>3

-----------------------------------------------------------------------------
(* Repetition. *)

\* The values that steps take a first one through, each in its set.
Stepped(n, T, first, step) ==
  \E f : /\ f = [i \in 0..n |-> IF i = 0 THEN first ELSE step[i][f[i - 1]]]
         /\ \A i \in 0..n : f[i] \in T[i]

LEMMA Steps ==
  ASSUME NEW n \in Nat, NEW T, NEW first \in T[0], NEW step,
         \A i \in 1..n : \A x \in T[i - 1] : step[i][x] \in T[i]
  PROVE  Stepped(n, T, first, step)
<1> DEFINE Made(m, f) == /\ f = [i \in 0..m |-> IF i = 0 THEN first ELSE step[i][f[i - 1]]]
                         /\ \A i \in 0..m : f[i] \in T[i]
           S == {m \in 0..n : \E f : Made(m, f)}
<1>1. 0 \in S
  <2> DEFINE f == [i \in 0..0 |-> first]
  <2>1. \A i \in 0..0 : i = 0
    OBVIOUS
  <2>2. f = [i \in 0..0 |-> IF i = 0 THEN first ELSE step[i][f[i - 1]]]
    BY <2>1
  <2>3. \A i \in 0..0 : f[i] \in T[i]
    BY <2>1
  <2>4. Made(0, f)
    BY <2>2, <2>3
  <2> HIDE DEF Made, f
  <2> QED  BY <2>4
<1>2. ASSUME NEW m \in 1..n, m - 1 \in S PROVE m \in S
  <2>1. PICK g : Made(m - 1, g)
    BY <1>2
  <2> DEFINE f == [i \in 0..m |-> IF i = m THEN step[m][g[m - 1]] ELSE g[i]]
  <2>2. /\ \A i \in 0..m : i # m => i \in 0..m - 1
        /\ \A i \in 1..m : i - 1 \in 0..m /\ i - 1 # m
    OBVIOUS
  <2>3. ASSUME NEW i \in 0..m - 1 PROVE g[i] = (IF i = 0 THEN first ELSE step[i][g[i - 1]]) /\ g[i] \in T[i]
    <3>1. g = [j \in 0..m - 1 |-> IF j = 0 THEN first ELSE step[j][g[j - 1]]] /\ \A j \in 0..m - 1 : g[j] \in T[j]
      BY <2>1
    <3> HIDE DEF Made
    <3> QED  BY <3>1
  <2>4. ASSUME NEW i \in 0..m PROVE f[i] = (IF i = 0 THEN first ELSE step[i][f[i - 1]]) /\ f[i] \in T[i]
    <3>1. CASE i = m
      <4>1. f[i] = step[m][g[m - 1]] /\ m - 1 \in 0..m - 1 /\ i # 0
        BY <3>1
      <4>2. f[m - 1] = g[m - 1]
        BY <2>2
      <4>3. g[m - 1] \in T[m - 1]
        BY <2>3, <4>1
      <4> HIDE DEF f
      <4> QED  BY <3>1, <4>1, <4>2, <4>3
    <3>2. CASE i # m
      <4>1. f[i] = g[i] /\ i \in 0..m - 1
        BY <2>2, <3>2
      <4>2. i # 0 => f[i - 1] = g[i - 1]
        BY <2>2, <4>1
      <4> HIDE DEF f
      <4> QED  BY <2>3, <4>1, <4>2
    <3> QED  BY <3>1, <3>2
  <2>5. f = [i \in 0..m |-> IF i = 0 THEN first ELSE step[i][f[i - 1]]]
    <3>1. f = [i \in 0..m |-> f[i]]
      OBVIOUS
    <3> HIDE DEF f
    <3> QED  BY <2>4, <3>1
  <2>6. Made(m, f)
    <3> HIDE DEF f
    <3> QED  BY <2>4, <2>5
  <2> HIDE DEF Made, f
  <2> QED  BY <2>6
<1>3. n \in S
  <2> HIDE DEF S
  <2>1. \A i \in 0..n : i \in S
    BY <1>1, <1>2, Upward
  <2> QED  BY <2>1
<1> QED  BY <1>3 DEF Stepped

-----------------------------------------------------------------------------
(* Queues. *)

Elements(q) == {q[i] : i \in 1..Len(q)}

Once(q) == \A i, j \in 1..Len(q) : q[i] = q[j] => i = j

LEMMA ElementsType ==
  ASSUME NEW S, NEW q \in Seq(S)
  PROVE  Elements(q) \subseteq S /\ Len(q) \in Nat
BY ElementOfSeq, LenProperties DEF Elements

LEMMA AppendIs ==
  ASSUME NEW S, NEW q \in Seq(S), NEW x \in S
  PROVE  /\ Append(q, x) \in Seq(S) /\ Elements(Append(q, x)) = Elements(q) \cup {x}
         /\ Once(q) /\ x \notin Elements(q) => Once(Append(q, x))
<1>1. /\ Append(q, x) \in Seq(S) /\ Len(Append(q, x)) = Len(q) + 1 /\ Append(q, x)[Len(q) + 1] = x
      /\ \A i \in 1..Len(q) : Append(q, x)[i] = q[i]
      /\ Len(q) \in Nat
  BY AppendProperties, LenProperties
<1>2. PICK n \in Nat : n = Len(q)
  BY <1>1
<1> DEFINE r == Append(q, x)
<1> HIDE DEF r
<1>3. \A i \in 1..n + 1 : i \in 1..n \/ i = n + 1
  OBVIOUS
<1>4. 1..n \subseteq 1..n + 1 /\ n + 1 \in 1..n + 1
  OBVIOUS
<1>5. r = Append(q, x) /\ Len(r) = n + 1 /\ r[n + 1] = x /\ \A i \in 1..n : r[i] = q[i]
  BY <1>1, <1>2 DEF r
<1>6. Elements(r) = Elements(q) \cup {x}
  <2>1. \A y \in Elements(r) : y \in Elements(q) \cup {x}
    BY <1>2, <1>3, <1>5 DEF Elements
  <2>2. \A y \in Elements(q) \cup {x} : y \in Elements(r)
    BY <1>2, <1>4, <1>5 DEF Elements
  <2> QED  BY <2>1, <2>2
<1>7. ASSUME Once(q), x \notin Elements(q) PROVE Once(r)
  <2>1. ASSUME NEW i \in 1..n + 1, NEW j \in 1..n + 1, r[i] = r[j] PROVE i = j
    <3>1. \A k \in 1..n : q[k] # x
      BY <1>2, <1>7 DEF Elements
    <3> QED  BY <1>2, <1>3, <1>5, <1>7, <2>1, <3>1 DEF Once
  <2> QED  BY <1>5, <2>1 DEF Once
<1> QED  BY <1>1, <1>5, <1>6, <1>7

LEMMA ConcatIs ==
  ASSUME NEW S, NEW q \in Seq(S), NEW r \in Seq(S)
  PROVE  /\ q \o r \in Seq(S) /\ Elements(q \o r) = Elements(q) \cup Elements(r)
         /\ Once(q) /\ Once(r) /\ Elements(q) \cap Elements(r) = {} => Once(q \o r)
<1>1. PICK m \in Nat, n \in Nat : m = Len(q) /\ n = Len(r)
  BY LenProperties
<1>2. /\ q \o r \in Seq(S) /\ Len(q \o r) = m + n
      /\ \A i \in 1..m + n : (q \o r)[i] = IF i <= m THEN q[i] ELSE r[i - m]
  BY <1>1, ConcatProperties
<1>3. PICK c : c = q \o r
  OBVIOUS
<1>4. /\ Len(c) = m + n /\ \A i \in 1..m : i \in 1..m + n /\ c[i] = q[i]
      /\ \A i \in 1..n : m + i \in 1..m + n /\ c[m + i] = r[i]
  <2>1. \A i \in 1..m : i \in 1..m + n /\ i <= m
    OBVIOUS
  <2>2. \A i \in 1..n : m + i \in 1..m + n /\ ~(m + i <= m) /\ (m + i) - m = i
    OBVIOUS
  <2> QED  BY <1>2, <1>3, <2>1, <2>2
<1>5. \A i \in 1..m + n : i \in 1..m \/ (i - m \in 1..n /\ m + (i - m) = i)
  OBVIOUS
<1>6. Elements(c) = Elements(q) \cup Elements(r)
  <2>1. ASSUME NEW i \in 1..m + n PROVE c[i] \in Elements(q) \cup Elements(r)
    <3>1. CASE i \in 1..m
      BY <1>1, <1>4, <3>1 DEF Elements
    <3>2. CASE i \notin 1..m
      <4>1. PICK k \in 1..n : i = m + k
        BY <1>5, <3>2
      <4> QED  BY <1>1, <1>4, <4>1 DEF Elements
    <3> QED  BY <3>1, <3>2
  <2>2. ASSUME NEW i \in 1..m PROVE q[i] \in Elements(c)
    BY <1>4 DEF Elements
  <2>3. ASSUME NEW i \in 1..n PROVE r[i] \in Elements(c)
    BY <1>4 DEF Elements
  <2>4. Elements(c) \subseteq Elements(q) \cup Elements(r)
    <3>1. Elements(c) = {c[i] : i \in 1..m + n}
      BY <1>4 DEF Elements
    <3> QED  BY <2>1, <3>1
  <2>5. Elements(q) \subseteq Elements(c) /\ Elements(r) \subseteq Elements(c)
    <3>1. Elements(q) = {q[i] : i \in 1..m} /\ Elements(r) = {r[i] : i \in 1..n}
      BY <1>1 DEF Elements
    <3> QED  BY <2>2, <2>3, <3>1
  <2> QED  BY <2>4, <2>5
<1>7. ASSUME Once(q), Once(r), Elements(q) \cap Elements(r) = {} PROVE Once(c)
  <2>1. \A i \in 1..m : \A j \in 1..n : q[i] # r[j]
    BY <1>1, <1>7 DEF Elements
  <2>2. \A i, j \in 1..m : q[i] = q[j] => i = j
    BY <1>1, <1>7 DEF Once
  <2>3. \A i, j \in 1..n : r[i] = r[j] => i = j
    BY <1>1, <1>7 DEF Once
  <2>4. ASSUME NEW i \in 1..m + n, NEW j \in 1..m + n, c[i] = c[j] PROVE i = j
    <3>1. CASE i \in 1..m /\ j \in 1..m
      BY <1>4, <2>2, <2>4, <3>1
    <3>2. CASE i \in 1..m /\ j \notin 1..m
      <4>1. PICK k \in 1..n : j = m + k
        BY <1>5, <3>2
      <4> QED  BY <1>4, <2>1, <2>4, <3>2, <4>1
    <3>3. CASE i \notin 1..m /\ j \in 1..m
      <4>1. PICK k \in 1..n : i = m + k
        BY <1>5, <3>3
      <4> QED  BY <1>4, <2>1, <2>4, <3>3, <4>1
    <3>4. CASE i \notin 1..m /\ j \notin 1..m
      <4>1. PICK k \in 1..n : i = m + k
        BY <1>5, <3>4
      <4>2. PICK l \in 1..n : j = m + l
        BY <1>5, <3>4
      <4>3. k = l
        BY <1>4, <2>3, <2>4, <4>1, <4>2
      <4> QED  BY <4>1, <4>2, <4>3
    <3> QED  BY <3>1, <3>2, <3>3, <3>4
  <2> QED  BY <1>4, <2>4 DEF Once
<1> QED  BY <1>2, <1>3, <1>6, <1>7

LEMMA TailIs ==
  ASSUME NEW S, NEW q \in Seq(S), q # <<>>
  PROVE  /\ Tail(q) \in Seq(S) /\ Head(q) \in S /\ Head(q) = q[1] /\ Len(q) \in Nat \ {0}
         /\ Len(Tail(q)) = Len(q) - 1 /\ \A i \in 1..Len(q) - 1 : Tail(q)[i] = q[i + 1]
         /\ Elements(q) = Elements(Tail(q)) \cup {Head(q)}
         /\ Once(q) => Once(Tail(q)) /\ Head(q) \notin Elements(Tail(q))
<1>1. /\ Tail(q) \in Seq(S) /\ Head(q) \in S /\ Head(q) = q[1] /\ Len(q) \in Nat \ {0}
      /\ Len(Tail(q)) = Len(q) - 1 /\ \A i \in 1..Len(q) - 1 : Tail(q)[i] = q[i + 1]
  BY HeadTailProperties, EmptySeq, LenProperties
<1>2. PICK n \in Nat \ {0} : n = Len(q)
  BY <1>1
<1> DEFINE t == Tail(q)
<1> HIDE DEF t
<1>3. t = Tail(q) /\ Len(t) = n - 1 /\ \A i \in 1..n - 1 : t[i] = q[i + 1]
  BY <1>1, <1>2 DEF t
<1>4. /\ \A i \in 1..n : i = 1 \/ (i - 1 \in 1..n - 1 /\ (i - 1) + 1 = i)
      /\ \A i \in 1..n - 1 : i + 1 \in 1..n /\ i + 1 # 1
      /\ 1 \in 1..n
  OBVIOUS
<1>5. Elements(q) = {q[i] : i \in 1..n} /\ Elements(t) = {t[i] : i \in 1..n - 1}
  BY <1>2, <1>3 DEF Elements
<1>6. Elements(q) = Elements(t) \cup {q[1]}
  <2>1. ASSUME NEW i \in 1..n PROVE q[i] \in Elements(t) \cup {q[1]}
    <3>1. i # 1 => q[i] = t[i - 1]
      BY <1>3, <1>4
    <3> QED  BY <1>4, <1>5, <3>1
  <2>2. ASSUME NEW i \in 1..n - 1 PROVE t[i] \in Elements(q)
    BY <1>3, <1>4, <1>5
  <2>3. q[1] \in Elements(q)
    BY <1>4, <1>5
  <2>4. Elements(q) \subseteq Elements(t) \cup {q[1]}
    BY <1>5, <2>1
  <2>5. Elements(t) \subseteq Elements(q)
    BY <1>5, <2>2
  <2> QED  BY <2>3, <2>4, <2>5
<1>7. ASSUME Once(q) PROVE Once(t) /\ q[1] \notin Elements(t)
  <2>1. \A i, j \in 1..n : q[i] = q[j] => i = j
    BY <1>2, <1>7 DEF Once
  <2>2. ASSUME NEW i \in 1..n - 1, NEW j \in 1..n - 1, t[i] = t[j] PROVE i = j
    <3>1. i + 1 = j + 1
      BY <1>3, <1>4, <2>1, <2>2
    <3> QED  BY <3>1
  <2>3. ASSUME NEW i \in 1..n - 1 PROVE t[i] # q[1]
    BY <1>3, <1>4, <2>1
  <2> QED  BY <1>3, <1>5, <2>2, <2>3 DEF Once
<1> QED  BY <1>1, <1>3, <1>6, <1>7

\* What is left of a queue.
LEMMA WithoutIs ==
  ASSUME NEW S, NEW q \in Seq(S), NEW numbers, NEW r, r = Without(q, numbers)
  PROVE  /\ r \in Seq(S) /\ Elements(r) = Elements(q) \ numbers /\ (Once(q) => Once(r))
         /\ Elements(q) \cap numbers = {} => r = q
<1>1. PICK n \in Nat : n = Len(q)
  BY LenProperties
<1> DEFINE Upto(i) == {q[p] : p \in 1..i}
           Same(x, i) == Len(x) = i /\ \A p \in 1..i : x[p] = q[p]
           Good(x, i) == /\ x \in Seq(S) /\ Elements(x) = Upto(i) \ numbers /\ (Once(q) => Once(x))
                         /\ Upto(n) \cap numbers = {} => Same(x, i)
           T == [i \in 0..n |-> {x \in Seq(S) : Good(x, i)}]
           On(x, i) == IF q[i] \in numbers THEN x ELSE Append(x, q[i])
           R(f) == f = [i \in 0..n |-> IF i = 0 THEN <<>> ELSE On(f[i - 1], i)]
           step == [i \in 1..n |-> [x \in T[i - 1] |-> On(x, i)]]
           left == CHOOSE f : R(f)
<1>2. <<>> \in T[0]
  <2>1. Upto(0) = {} /\ 0 \in 0..n
    OBVIOUS
  <2>2. <<>> \in Seq(S) /\ Len(<<>>) = 0
    BY EmptySeq
  <2>3. Elements(<<>>) = {} /\ Once(<<>>)
    BY <2>2 DEF Elements, Once
  <2>4. Same(<<>>, 0)
    BY <2>2
  <2> HIDE DEF Upto, Same
  <2> QED  BY <2>1, <2>2, <2>3, <2>4
<1>3. ASSUME NEW i \in 1..n, NEW x \in T[i - 1] PROVE On(x, i) \in T[i]
  <2>1. i - 1 \in 0..n /\ i \in 0..n /\ Good(x, i - 1) /\ q[i] \in S
    BY <1>1, ElementOfSeq
  <2>2. Upto(i) = Upto(i - 1) \cup {q[i]}
    <3>1. 1..i = 1..i - 1 \cup {i}
      OBVIOUS
    <3> QED  BY <3>1
  <2>3. Once(q) => q[i] \notin Upto(i - 1)
    <3>1. \A p \in 1..i - 1 : p \in 1..n /\ p # i
      OBVIOUS
    <3> QED  BY <1>1, <3>1 DEF Once
  <2>6. Upto(n) \cap numbers = {} => q[i] \notin numbers
    OBVIOUS
  <2>7. ASSUME Same(x, i - 1) PROVE Same(Append(x, q[i]), i)
    <3>1. /\ Len(Append(x, q[i])) = Len(x) + 1 /\ Append(x, q[i])[Len(x) + 1] = q[i]
          /\ \A p \in 1..Len(x) : Append(x, q[i])[p] = x[p]
      BY <2>1, AppendProperties
    <3>2. \A p \in 1..i : p \in 1..i - 1 \/ p = i
      OBVIOUS
    <3> QED  BY <2>7, <3>1, <3>2
  <2>4. Good(On(x, i), i)
    <3> HIDE DEF Upto, Same
    <3>1. CASE q[i] \in numbers
      BY <2>1, <2>2, <2>6, <3>1
    <3>2. CASE q[i] \notin numbers
      <4>1. /\ Append(x, q[i]) \in Seq(S) /\ Elements(Append(x, q[i])) = Elements(x) \cup {q[i]}
            /\ Once(x) /\ q[i] \notin Elements(x) => Once(Append(x, q[i]))
        BY <2>1, AppendIs
      <4> QED  BY <2>1, <2>2, <2>3, <2>7, <3>2, <4>1
    <3> QED  BY <3>1, <3>2
  <2> HIDE DEF On, Good
  <2>5. On(x, i) \in Seq(S)
    BY <2>4 DEF Good
  <2> QED  BY <2>1, <2>4, <2>5
<1>4. \E f : R(f)
  <2> HIDE DEF T, On
  <2>1. \A i \in 1..n : \A x \in T[i - 1] : step[i][x] = On(x, i)
    OBVIOUS
  <2>2. \A i \in 1..n : \A x \in T[i - 1] : step[i][x] \in T[i]
    BY <1>3, <2>1
  <2> HIDE DEF step
  <2>3. PICK f : /\ f = [i \in 0..n |-> IF i = 0 THEN <<>> ELSE step[i][f[i - 1]]]
                 /\ \A i \in 0..n : f[i] \in T[i]
    <3> DEFINE first == <<>>
    <3>1. first \in T[0]
      BY <1>2
    <3> HIDE DEF first
    <3>2. Stepped(n, T, first, step)
      BY <1>1, <2>2, <3>1, Steps
    <3> QED  BY <3>2 DEF first, Stepped
  <2>4. ASSUME NEW i \in 0..n PROVE (IF i = 0 THEN <<>> ELSE step[i][f[i - 1]]) = IF i = 0 THEN <<>> ELSE On(f[i - 1], i)
    <3>1. i # 0 => i \in 1..n /\ i - 1 \in 0..n
      OBVIOUS
    <3>2. i # 0 => f[i - 1] \in T[i - 1]
      BY <2>3, <3>1
    <3> QED  BY <2>1, <3>1, <3>2
  <2>5. R(f)
    BY <2>3, <2>4
  <2> HIDE DEF R
  <2> QED  BY <2>5
<1>5. R(left)
  BY <1>4
<1>6. r = left[n]
  BY <1>1 DEF Without
<1> HIDE DEF left
<1>7. \A i \in 0..n : left[i] \in T[i]
  <2> DEFINE U == {i \in 0..n : left[i] \in T[i]}
  <2> HIDE DEF T, On
  <2>1. \A i \in 0..n : left[i] = IF i = 0 THEN <<>> ELSE On(left[i - 1], i)
    BY <1>5
  <2>2. 0 \in U
    BY <1>2, <2>1
  <2>3. ASSUME NEW i \in 1..n, i - 1 \in U PROVE i \in U
    BY <1>3, <2>1, <2>3
  <2> HIDE DEF U
  <2>4. \A i \in 0..n : i \in U
    BY <2>2, <2>3, Upward
  <2> QED  BY <2>4 DEF U
<1>8. Good(r, n)
  <2>1. n \in 0..n
    OBVIOUS
  <2> QED  BY <1>6, <1>7, <2>1
<1>9. Elements(q) = Upto(n)
  BY <1>1 DEF Elements
<1>10. Same(r, n) /\ r \in Seq(S) => r = q
  <2>1. ASSUME Same(r, n), r \in Seq(S) PROVE r = q
    BY <1>1, <2>1, SeqEqual
  <2> QED  BY <2>1
<1> HIDE DEF Upto, Same
<1> QED  BY <1>8, <1>9, <1>10

-----------------------------------------------------------------------------
(* The transmission window. *)

SegmentSet ==
  [seq : Number, len : 1..MSS, pos : 0..TxLength - 1, sent : BOOLEAN, acked : BOOLEAN,
   count : Nat, dups : Nat]

WindowSet ==
  [segs : Seq(SegmentSet), prio : Seq(Number), txq : Seq(Number), wait : Seq(Number),
   head : Number \cup {None}, cur : Number, highest : Number, next : Number, txWin : Nat]

\* The segments that were sent and not acknowledged.
Due(w) == {w.segs[i].seq : i \in {j \in 1..Len(w.segs) : w.segs[j].sent /\ ~w.segs[j].acked}}

\* Each of them waits once.
Waiting(w) ==
  /\ Elements(w.prio) \cup Elements(w.wait) = Due(w)
  /\ Elements(w.prio) \cap Elements(w.wait) = {}
  /\ Once(w.prio) /\ Once(w.wait)

\* Of the n segments the first m have been sent.
Counted(w, n, m) ==
  /\ w \in WindowSet
  /\ n \in 0..SegCount /\ m \in 0..n /\ Len(w.segs) = n /\ Len(w.txq) = n - m

Marked(w, n, m) == \A i \in 1..n : (w.segs[i].sent <=> i <= m) /\ (w.segs[i].acked => i <= m)

\* They start at the positions o, one where the one before ends.
Ranged(w, o, n, m) ==
  /\ o \in [1..n + 1 -> 0..Total]
  /\ o[1] = Off(w.cur) /\ o[m + 1] = Off(w.highest) /\ o[n + 1] = Off(w.next)

Placed(w, o, n) ==
  \A i \in 1..n : /\ o[i] = Off(w.segs[i].seq) /\ o[i + 1] = o[i] + w.segs[i].len
                  /\ w.segs[i].pos = Slot(o[i], TxLength)

\* txq has the others in order.
Queued(w, n, m) == \A j \in 1..n - m : w.txq[j] = w.segs[m + j].seq

\* The open segment is the last one, not sent and not full.
Headed(w, n, m) == w.head # None => n > m /\ w.head = w.segs[n].seq /\ w.segs[n].len < MSS

Laid(w, o, n, m) ==
  /\ Counted(w, n, m) /\ Marked(w, n, m) /\ Ranged(w, o, n, m) /\ Placed(w, o, n)
  /\ Queued(w, n, m) /\ Waiting(w) /\ Headed(w, n, m)

WindowInv(w) == \E o, n, m : Laid(w, o, n, m)

\* The bytes on their way from the sender: of the segments that have been sent.
Going(w) == {<<Off(w.segs[i].seq), w.segs[i].len>> : i \in {j \in 1..Len(w.segs) : w.segs[j].sent}}

LEMMA WindowConstants ==
  /\ SegCount \in Nat \ {0} /\ MSS \in Nat \ {0} /\ TxLength \in Nat \ {0, 1} /\ Total \in Nat
  /\ Modulus \in Nat \ {0} /\ None = -1
BY SegCountAssumption, MSSAssumption, TxAssumption, TotalAssumption, ModulusAssumption DEF None

LEMMA SegmentFields ==
  ASSUME NEW s \in SegmentSet
  PROVE  /\ s.seq \in Number /\ s.len \in 1..MSS /\ s.pos \in 0..TxLength - 1 /\ s.sent \in BOOLEAN
         /\ s.acked \in BOOLEAN /\ s.count \in Nat /\ s.dups \in Nat
BY DEF SegmentSet

LEMMA WindowFields ==
  ASSUME NEW w \in WindowSet
  PROVE  /\ w.segs \in Seq(SegmentSet) /\ Len(w.segs) \in Nat
         /\ \A i \in 1..Len(w.segs) : w.segs[i] \in SegmentSet
         /\ w.prio \in Seq(Number) /\ w.txq \in Seq(Number) /\ w.wait \in Seq(Number)
         /\ w.head \in Number \cup {None} /\ w.cur \in Number /\ w.highest \in Number /\ w.next \in Number
         /\ w.txWin \in Nat
<1>1. /\ w.segs \in Seq(SegmentSet)
      /\ w.prio \in Seq(Number) /\ w.txq \in Seq(Number) /\ w.wait \in Seq(Number)
      /\ w.head \in Number \cup {None} /\ w.cur \in Number /\ w.highest \in Number /\ w.next \in Number
      /\ w.txWin \in Nat
  BY DEF WindowSet
<1> QED  BY <1>1, LenProperties, ElementOfSeq

\* Positions grow.
LEMMA Growing ==
  ASSUME NEW n \in Nat, NEW o, \A i \in 1..n + 1 : o[i] \in Nat, \A i \in 1..n : o[i] < o[i + 1]
  PROVE  \A i, j \in 1..n + 1 : i < j => o[i] < o[j]
<1> DEFINE T == {k \in Nat : \A i \in 1..n + 1 : i < k /\ k <= n + 1 => o[i] < o[k]}
<1>1. 0 \in T
  OBVIOUS
<1>2. ASSUME NEW k \in 1..n + 1, k - 1 \in T PROVE k \in T
  <2>1. ASSUME NEW i \in 1..n + 1, i < k PROVE o[i] < o[k]
    <3>1. k - 1 \in 1..n /\ (k - 1) + 1 = k /\ k - 1 \in 1..n + 1
      BY <2>1
    <3>2. o[k - 1] < o[k] /\ o[k - 1] \in Nat /\ o[k] \in Nat /\ o[i] \in Nat
      BY <3>1
    <3>3. i # k - 1 => o[i] < o[k - 1]
      BY <1>2, <2>1, <3>1
    <3> QED  BY <3>2, <3>3
  <2> QED  BY <2>1
<1>3. \A k \in 0..n + 1 : k \in T
  <2> HIDE DEF T
  <2>1. n + 1 \in Nat
    OBVIOUS
  <2> QED  BY <1>1, <1>2, <2>1, Upward
<1>4. ASSUME NEW i \in 1..n + 1, NEW j \in 1..n + 1, i < j PROVE o[i] < o[j]
  <2>1. j \in 0..n + 1
    OBVIOUS
  <2>2. j \in T
    BY <1>3, <2>1
  <2> QED  BY <1>4, <2>2
<1> QED  BY <1>4

LEMMA Ordered ==
  ASSUME NEW w, NEW o, NEW n, NEW m, Laid(w, o, n, m)
  PROVE  /\ \A i, j \in 1..n + 1 : i < j => o[i] < o[j]
         /\ \A i \in 1..n + 1 : o[i] \in 0..Total
         /\ \A i \in 1..n : w.segs[i] \in SegmentSet /\ w.segs[i].len \in 1..MSS /\ w.segs[i].seq \in Number
         /\ n \in Nat /\ m \in Nat /\ m <= n
         /\ \A i, j \in 1..n : w.segs[i].seq = w.segs[j].seq => i = j
         /\ \A i \in 1..n : \A j \in 1..n + 1 : i < j => o[i] + w.segs[i].len <= o[j]
<1>1. /\ n \in Nat /\ m \in Nat /\ m <= n /\ o \in [1..n + 1 -> 0..Total] /\ Len(w.segs) = n
      /\ w \in WindowSet
      /\ \A i \in 1..n : o[i] = Off(w.segs[i].seq) /\ o[i + 1] = o[i] + w.segs[i].len
  <2>1. n \in 0..SegCount /\ m \in 0..n /\ Len(w.segs) = n /\ w \in WindowSet
    BY DEF Laid, Counted
  <2>2. n \in Nat /\ m \in Nat /\ m <= n
    BY <2>1, WindowConstants
  <2>3. o \in [1..n + 1 -> 0..Total]
    BY DEF Laid, Ranged
  <2>4. \A i \in 1..n : o[i] = Off(w.segs[i].seq) /\ o[i + 1] = o[i] + w.segs[i].len
    BY DEF Laid, Placed
  <2> QED  BY <2>1, <2>2, <2>3, <2>4
<1>2. \A i \in 1..n : w.segs[i] \in SegmentSet /\ w.segs[i].len \in 1..MSS /\ w.segs[i].seq \in Number
  BY <1>1, WindowFields, SegmentFields
<1>3. \A i \in 1..n + 1 : o[i] \in 0..Total /\ o[i] \in Nat
  BY <1>1, WindowConstants
<1>4. \A i \in 1..n : o[i] < o[i + 1]
  <2>1. ASSUME NEW i \in 1..n PROVE o[i] < o[i + 1]
    <3>1. i \in 1..n + 1 /\ o[i] \in Nat /\ w.segs[i].len \in 1..MSS /\ o[i + 1] = o[i] + w.segs[i].len
      BY <1>1, <1>2, <1>3
    <3> QED  BY <3>1, WindowConstants
  <2> QED  BY <2>1
<1>5. \A i, j \in 1..n + 1 : i < j => o[i] < o[j]
  BY <1>1, <1>3, <1>4, Growing
<1>6. ASSUME NEW i \in 1..n, NEW j \in 1..n, w.segs[i].seq = w.segs[j].seq PROVE i = j
  <2>1. o[i] = o[j] /\ i \in 1..n + 1 /\ j \in 1..n + 1
    BY <1>1, <1>6
  <2>2. o[i] \in Nat /\ o[j] \in Nat
    BY <1>3, <2>1
  <2>3. ~(i < j) /\ ~(j < i)
    BY <1>5, <2>1, <2>2
  <2> QED  BY <2>3
<1>7. ASSUME NEW i \in 1..n, NEW j \in 1..n + 1, i < j PROVE o[i] + w.segs[i].len <= o[j]
  <2>1. i + 1 \in 1..n + 1 /\ i \in 1..n + 1 /\ o[i + 1] = o[i] + w.segs[i].len
    BY <1>1
  <2>2. o[i + 1] \in Nat /\ o[j] \in Nat
    BY <1>3, <2>1
  <2>3. i + 1 = j \/ i + 1 < j
    BY <1>7
  <2>4. i + 1 < j => o[i + 1] < o[j]
    BY <1>5, <2>1
  <2> QED  BY <2>1, <2>2, <2>3, <2>4
<1> QED  BY <1>1, <1>2, <1>3, <1>5, <1>6, <1>7

LEMMA IndexIs ==
  ASSUME NEW w, NEW o, NEW n, NEW m, Laid(w, o, n, m), NEW i \in 1..n
  PROVE  Index(w, w.segs[i].seq) = i /\ Segment(w, w.segs[i].seq) = w.segs[i]
<1>1. DOMAIN w.segs = 1..n
  <2>1. w.segs \in Seq(SegmentSet) /\ Len(w.segs) = n
    BY WindowFields DEF Laid, Counted
  <2> QED  BY <2>1, LenProperties
<1>2. \A k, j \in 1..n : w.segs[k].seq = w.segs[j].seq => k = j
  BY Ordered
<1>3. PICK k : k = Index(w, w.segs[i].seq)
  OBVIOUS
<1>4. k \in 1..n /\ w.segs[k].seq = w.segs[i].seq
  BY <1>1, <1>3 DEF Index
<1>5. k = i
  BY <1>2, <1>4
<1> QED  BY <1>3, <1>5 DEF Segment

LEMMA Changed ==
  ASSUME NEW S, NEW s \in Seq(S), NEW n \in Nat, Len(s) = n, NEW k \in 1..n, NEW x \in S,
         NEW r, r = [s EXCEPT ![k] = x]
  PROVE  /\ r \in Seq(S) /\ Len(r) = n /\ r[k] = x /\ \A i \in 1..n : i # k => r[i] = s[i]
<1>1. s \in [1..n -> S] /\ DOMAIN s = 1..n
  BY LenProperties
<1>2. r \in [1..n -> S] /\ r[k] = x /\ \A i \in 1..n : i # k => r[i] = s[i]
  BY <1>1
<1>3. r \in Seq(S) /\ Len(r) = n
  BY <1>2, SeqDef, LenProperties
<1> QED  BY <1>2, <1>3

\* The first m segments of two windows are the same.
SameFirst(w, v, m) ==
  \A i \in 1..m : /\ v.segs[i].seq = w.segs[i].seq /\ v.segs[i].len = w.segs[i].len
                  /\ v.segs[i].acked <=> w.segs[i].acked

\* The segments on their way and those that wait are told by the ones that were sent.
LEMMA SameSent ==
  ASSUME NEW w, NEW v, NEW n, NEW k, NEW m, Counted(w, n, m), Counted(v, k, m),
         Marked(w, n, m), Marked(v, k, m), SameFirst(w, v, m)
  PROVE  Going(v) = Going(w) /\ Due(v) = Due(w)
<1>0. /\ n \in Nat /\ k \in Nat /\ m \in Nat /\ m <= n /\ m <= k /\ Len(w.segs) = n /\ Len(v.segs) = k
  BY WindowConstants DEF Counted
<1>1. {j \in 1..Len(w.segs) : w.segs[j].sent} = 1..m
  <2>1. \A j : (j \in 1..n /\ w.segs[j].sent) <=> j \in 1..m
    BY <1>0 DEF Marked
  <2> QED  BY <1>0, <2>1
<1>2. {j \in 1..Len(v.segs) : v.segs[j].sent} = 1..m
  <2>1. \A j : (j \in 1..k /\ v.segs[j].sent) <=> j \in 1..m
    BY <1>0 DEF Marked
  <2> QED  BY <1>0, <2>1
<1>3. Going(v) = Going(w)
  <2>1. \A i \in 1..m : v.segs[i].seq = w.segs[i].seq /\ v.segs[i].len = w.segs[i].len
    BY DEF SameFirst
  <2> QED  BY <1>1, <1>2, <2>1 DEF Going
<1>4. {j \in 1..Len(w.segs) : w.segs[j].sent /\ ~w.segs[j].acked} = {j \in 1..m : ~w.segs[j].acked}
  BY <1>1
<1>5. {j \in 1..Len(v.segs) : v.segs[j].sent /\ ~v.segs[j].acked} = {j \in 1..m : ~w.segs[j].acked}
  BY <1>2 DEF SameFirst
<1>6. \A i \in {j \in 1..m : ~w.segs[j].acked} : v.segs[i].seq = w.segs[i].seq
  BY DEF SameFirst
<1>7. Due(v) = {v.segs[i].seq : i \in {j \in 1..m : ~w.segs[j].acked}}
  BY <1>5 DEF Due
<1>8. Due(w) = {w.segs[i].seq : i \in {j \in 1..m : ~w.segs[j].acked}}
  BY <1>4 DEF Due
<1>9. Due(v) = Due(w)
  BY <1>6, <1>7, <1>8
<1> QED  BY <1>3, <1>9

\* What adding bytes to a window leaves alone.
Kept(w, v) == v.cur = w.cur /\ v.highest = w.highest /\ Going(v) = Going(w)

\* The open segment is the last one, not sent and not full.
LEMMA OpenIs ==
  ASSUME NEW w, NEW o, NEW n, NEW m, Laid(w, o, n, m), Open(w)
  PROVE  /\ m < n /\ n \in 1..n /\ Index(w, w.head) = n /\ Segment(w, w.head) = w.segs[n]
         /\ w.segs[n].len \in 1..MSS - 1
<1>1. w.head # None
  BY DEF Open
<1>2. n > m /\ w.head = w.segs[n].seq /\ w.segs[n].len < MSS
  BY <1>1 DEF Laid, Headed
<1>3. n \in Nat /\ m \in Nat
  BY Ordered
<1>4. n \in 1..n
  BY <1>2, <1>3
<1>5. w.segs[n].len \in 1..MSS
  BY <1>4, Ordered
<1> QED  BY <1>2, <1>4, <1>5, IndexIs, WindowConstants

\* It takes more bytes.
LEMMA GrowIs ==
  ASSUME Unambiguous, NEW w, WindowInv(w), Open(w),
         NEW g \in Nat, g <= MSS - Segment(w, w.head).len, Off(w.next) + g <= Total,
         NEW v, v = [w EXCEPT !.segs[Index(w, w.head)].len = @ + g, !.next = Plus(@, g),
                              !.head = IF Segment(w, w.head).len + g = MSS THEN None ELSE @]
  PROVE  WindowInv(v) /\ Kept(w, v) /\ Off(v.next) = Off(w.next) + g
<1>1. PICK o, n, m : Laid(w, o, n, m)
  BY DEF WindowInv
<1>2. /\ m < n /\ n \in 1..n /\ Index(w, w.head) = n /\ Segment(w, w.head) = w.segs[n]
      /\ w.segs[n].len \in 1..MSS - 1
  BY <1>1, OpenIs
<1>3. n \in Nat /\ m \in Nat /\ w \in WindowSet /\ Len(w.segs) = n /\ w.segs \in Seq(SegmentSet)
      /\ w.next \in Number /\ w.segs[n] \in SegmentSet /\ n \in 0..SegCount /\ m \in 0..n
  <2>1. w \in WindowSet /\ Len(w.segs) = n /\ n \in 0..SegCount /\ m \in 0..n
    BY <1>1 DEF Laid, Counted
  <2>2. n \in Nat /\ m \in Nat /\ w.segs[n] \in SegmentSet
    BY <1>1, <1>2, Ordered
  <2> QED  BY <2>1, <2>2, WindowFields
<1>4. PICK s : s = [w.segs[n] EXCEPT !.len = @ + g]
  OBVIOUS
<1>5. PICK segs : segs = [w.segs EXCEPT ![n] = s]
  OBVIOUS
<1>6. PICK next : next = Plus(w.next, g)
  OBVIOUS
<1>7. PICK head : head = IF w.segs[n].len + g = MSS THEN None ELSE w.head
  OBVIOUS
<1>8. v = [w EXCEPT !.segs = segs, !.next = next, !.head = head]
  BY <1>2, <1>4, <1>5, <1>6, <1>7
<1>9. next \in Number /\ Off(next) = Off(w.next) + g
  BY <1>3, <1>6, NumberSum
<1>10. w.segs[n].len + g \in 1..MSS
  BY <1>2, WindowConstants
<1>11. /\ s \in SegmentSet /\ s.len = w.segs[n].len + g /\ s.seq = w.segs[n].seq /\ s.pos = w.segs[n].pos
       /\ s.sent = w.segs[n].sent /\ s.acked = w.segs[n].acked
  BY <1>3, <1>4, <1>10 DEF SegmentSet
<1>12. /\ segs \in Seq(SegmentSet) /\ Len(segs) = n /\ segs[n] = s
       /\ \A i \in 1..n : i # n => segs[i] = w.segs[i]
  BY <1>2, <1>3, <1>5, <1>11, Changed
<1>13. head \in Number \cup {None}
  BY <1>3, <1>7, WindowFields
<1>14. /\ v \in WindowSet /\ v.segs = segs /\ v.next = next /\ v.head = head /\ v.cur = w.cur
       /\ v.highest = w.highest /\ v.prio = w.prio /\ v.txq = w.txq /\ v.wait = w.wait
  BY <1>3, <1>8, <1>9, <1>12, <1>13 DEF WindowSet
<1>15. \A i \in 1..n : /\ v.segs[i].seq = w.segs[i].seq /\ v.segs[i].pos = w.segs[i].pos
                       /\ v.segs[i].sent = w.segs[i].sent /\ v.segs[i].acked = w.segs[i].acked
                       /\ (i = n => v.segs[i].len = w.segs[n].len + g) /\ (i # n => v.segs[i].len = w.segs[i].len)
  <2>1. ASSUME NEW i \in 1..n, i # n PROVE v.segs[i] = w.segs[i]
    BY <1>12, <1>14, <2>1
  <2>2. v.segs[n] = s
    BY <1>12, <1>14
  <2>3. ASSUME NEW i \in 1..n
        PROVE  /\ v.segs[i].seq = w.segs[i].seq /\ v.segs[i].pos = w.segs[i].pos
               /\ v.segs[i].sent = w.segs[i].sent /\ v.segs[i].acked = w.segs[i].acked
               /\ (i = n => v.segs[i].len = w.segs[n].len + g) /\ (i # n => v.segs[i].len = w.segs[i].len)
    <3>1. CASE i = n
      BY <1>11, <2>2, <3>1
    <3>2. CASE i # n
      <4>1. v.segs[i] = w.segs[i]
        BY <2>1, <3>2
      <4>2. PICK t : t = v.segs[i] /\ t = w.segs[i]
        BY <4>1
      <4> QED  BY <3>2, <4>2
    <3> QED  BY <3>1, <3>2
  <2> QED  BY <2>3
<1>16. Counted(v, n, m)
  <2>1. Len(v.txq) = n - m
    BY <1>1, <1>14 DEF Laid, Counted
  <2> QED  BY <1>3, <1>12, <1>14, <2>1 DEF Counted
<1>17. Marked(v, n, m)
  <2>1. Marked(w, n, m)
    BY <1>1 DEF Laid
  <2> QED  BY <1>15, <2>1 DEF Marked
<1>18. Going(v) = Going(w) /\ Due(v) = Due(w)
  <2>1. \A i \in 1..m : i \in 1..n /\ i # n
    BY <1>2, <1>3
  <2>2. SameFirst(w, v, m)
    BY <1>15, <2>1 DEF SameFirst
  <2>3. Counted(w, n, m) /\ Marked(w, n, m)
    BY <1>1 DEF Laid
  <2> QED  BY <1>16, <1>17, <2>2, <2>3, SameSent
<1>19. Waiting(v)
  <2>1. Waiting(w)
    BY <1>1 DEF Laid
  <2> QED  BY <1>14, <1>18, <2>1 DEF Waiting
<1> DEFINE p == [i \in 1..n + 1 |-> IF i = n + 1 THEN o[n + 1] + g ELSE o[i]]
<1>20. /\ \A i \in 1..n : p[i] = o[i]
       /\ p[n + 1] = o[n + 1] + g /\ p \in [1..n + 1 -> 0..Total]
       /\ o[n + 1] = Off(w.next) /\ o[1] = Off(w.cur) /\ o[m + 1] = Off(w.highest)
  <2>1. n + 1 \in 1..n + 1 /\ \A i \in 1..n : i \in 1..n + 1 /\ i # n + 1
    BY <1>3
  <2>2. /\ o \in [1..n + 1 -> 0..Total]
        /\ o[n + 1] = Off(w.next) /\ o[1] = Off(w.cur) /\ o[m + 1] = Off(w.highest)
    BY <1>1 DEF Laid, Ranged
  <2>3. o[n + 1] + g \in 0..Total
    <3>1. o[n + 1] \in 0..Total
      BY <2>1, <2>2
    <3> QED  BY <2>2, <3>1, WindowConstants
  <2> QED  BY <2>1, <2>2, <2>3
<1> HIDE DEF p
<1>21. Ranged(v, p, n, m)
  <2>1. 1 \in 1..n /\ m + 1 \in 1..n
    BY <1>2, <1>3
  <2> QED  BY <1>9, <1>14, <1>20, <2>1 DEF Ranged
<1>22. Placed(v, p, n)
  <2>1. ASSUME NEW i \in 1..n
        PROVE  /\ p[i] = Off(v.segs[i].seq) /\ p[i + 1] = p[i] + v.segs[i].len
               /\ v.segs[i].pos = Slot(p[i], TxLength)
    <3>1. /\ o[i] = Off(w.segs[i].seq) /\ o[i + 1] = o[i] + w.segs[i].len
          /\ w.segs[i].pos = Slot(o[i], TxLength)
      BY <1>1 DEF Laid, Placed
    <3>2. o[i] \in Nat /\ w.segs[i].len \in Nat
      <4>1. i \in 1..n + 1
        BY <1>3
      <4> QED  BY <1>1, <4>1, Ordered, WindowConstants
    <3>3. CASE i = n
      <4>1. p[i + 1] = o[i + 1] + g /\ v.segs[i].len = w.segs[i].len + g
        BY <1>15, <1>20, <3>3
      <4> QED  BY <1>15, <1>20, <3>1, <3>2, <4>1
    <3>4. CASE i # n
      <4>1. i + 1 \in 1..n
        BY <1>3, <3>4
      <4>2. p[i + 1] = o[i + 1] /\ v.segs[i].len = w.segs[i].len
        BY <1>15, <1>20, <3>4, <4>1
      <4> QED  BY <1>15, <1>20, <3>1, <4>2
    <3> QED  BY <3>3, <3>4
  <2> QED  BY <2>1 DEF Placed
<1>23. Queued(v, n, m)
  <2>1. \A j \in 1..n - m : m + j \in 1..n
    BY <1>3
  <2>2. Queued(w, n, m)
    BY <1>1 DEF Laid
  <2> QED  BY <1>14, <1>15, <2>1, <2>2 DEF Queued
<1>24. Headed(v, n, m)
  <2>1. v.head # None => w.segs[n].len + g # MSS /\ v.head = w.head
    BY <1>7, <1>14
  <2>2. v.segs[n].len = w.segs[n].len + g /\ v.segs[n].seq = w.segs[n].seq
    BY <1>2, <1>15
  <2>3. w.segs[n].len + g # MSS => v.segs[n].len < MSS
    BY <1>10, <2>2, WindowConstants
  <2>4. Headed(w, n, m)
    BY <1>1 DEF Laid
  <2> QED  BY <1>2, <2>1, <2>2, <2>3, <2>4 DEF Headed
<1>25. Laid(v, p, n, m)
  BY <1>16, <1>17, <1>19, <1>21, <1>22, <1>23, <1>24 DEF Laid
<1>26. WindowInv(v)
  BY <1>25 DEF WindowInv
<1> QED  BY <1>9, <1>14, <1>18, <1>26 DEF Kept

\* A segment of l bytes, and the window with it behind the last one.
NewSegment(w, l) ==
  [seq |-> w.next, len |-> l, pos |-> Slot(Off(w.next), TxLength), sent |-> FALSE,
   acked |-> FALSE, count |-> 0, dups |-> 0]

WithNew(w, l) ==
  [w EXCEPT !.segs = Append(@, NewSegment(w, l)), !.txq = Append(@, NewSegment(w, l).seq),
            !.next = Plus(@, l), !.head = IF l < MSS THEN NewSegment(w, l).seq ELSE None]

LEMMA AddOne ==
  ASSUME Unambiguous, NEW w, WindowInv(w), Len(w.segs) # SegCount,
         NEW l \in 1..MSS, Off(w.next) + l <= Total, NEW v, v = WithNew(w, l)
  PROVE  WindowInv(v) /\ Kept(w, v) /\ Off(v.next) = Off(w.next) + l
<1>0. PICK s : s = NewSegment(w, l)
  OBVIOUS
<1>1. PICK o, n, m : Laid(w, o, n, m)
  BY DEF WindowInv
<1>2. n \in Nat /\ m \in Nat /\ m <= n /\ w \in WindowSet /\ Len(w.segs) = n /\ w.segs \in Seq(SegmentSet)
      /\ w.next \in Number /\ n \in 0..SegCount /\ m \in 0..n /\ w.txq \in Seq(Number) /\ Len(w.txq) = n - m
  <2>1. w \in WindowSet /\ Len(w.segs) = n /\ n \in 0..SegCount /\ m \in 0..n /\ Len(w.txq) = n - m
    BY <1>1 DEF Laid, Counted
  <2>2. n \in Nat /\ m \in Nat /\ m <= n
    BY <1>1, Ordered
  <2> QED  BY <2>1, <2>2, WindowFields
<1>3. l \in Nat /\ l > 0 /\ l <= MSS /\ Off(w.next) \in Nat
  <2>1. Off(w.next) \in 0..Modulus - 1
    BY <1>2, OffType
  <2> QED  BY <2>1, WindowConstants
<1>4. Plus(w.next, l) \in Number /\ Off(Plus(w.next, l)) = Off(w.next) + l
  BY <1>2, <1>3, NumberSum
<1>5. s \in SegmentSet /\ s.seq = w.next /\ s.len = l /\ s.pos = Slot(Off(w.next), TxLength) /\ ~s.sent /\ ~s.acked
  <2>1. Slot(Off(w.next), TxLength) \in 0..TxLength - 1
    BY <1>3, WindowConstants, SlotType
  <2>2. PICK pos : pos = Slot(Off(w.next), TxLength)
    OBVIOUS
  <2> QED  BY <1>0, <1>2, <2>1, <2>2 DEF SegmentSet, NewSegment
<1>6. PICK segs : segs = Append(w.segs, s)
  OBVIOUS
<1>7. segs \in Seq(SegmentSet) /\ Len(segs) = n + 1 /\ segs[n + 1] = s /\ \A i \in 1..n : segs[i] = w.segs[i]
  BY <1>2, <1>5, <1>6, AppendProperties
<1>8. PICK txq : txq = Append(w.txq, w.next)
  OBVIOUS
<1>9. /\ txq \in Seq(Number) /\ Len(txq) = (n + 1) - m /\ txq[(n + 1) - m] = w.next
      /\ \A j \in 1..n - m : txq[j] = w.txq[j]
  <2>1. /\ txq \in Seq(Number) /\ Len(txq) = Len(w.txq) + 1 /\ txq[Len(w.txq) + 1] = w.next
        /\ \A j \in 1..Len(w.txq) : txq[j] = w.txq[j]
    <3>1. w.txq \in Seq(Number) /\ w.next \in Number
      BY <1>2
    <3> QED  BY <1>8, <3>1, AppendProperties
  <2>2. (n + 1) - m = Len(w.txq) + 1 /\ Len(w.txq) = n - m
    BY <1>2
  <2> QED  BY <2>1, <2>2
<1>10. PICK head : head = (IF l < MSS THEN w.next ELSE None) /\ head \in Number \cup {None}
  BY <1>2
<1>11. PICK next : next = Plus(w.next, l)
  OBVIOUS
<1>12. v = [w EXCEPT !.segs = segs, !.txq = txq, !.next = next, !.head = head]
  BY <1>0, <1>5, <1>6, <1>8, <1>10, <1>11 DEF WithNew
<1>13. /\ v \in WindowSet /\ v.segs = segs /\ v.next = next /\ v.head = head /\ v.cur = w.cur
       /\ v.highest = w.highest /\ v.prio = w.prio /\ v.txq = txq /\ v.wait = w.wait
  BY <1>2, <1>4, <1>7, <1>9, <1>10, <1>11, <1>12 DEF WindowSet
<1>14. \A i \in 1..n + 1 : i \in 1..n \/ i = n + 1
  BY <1>2
<1>15. Counted(v, n + 1, m)
  <2>1. n + 1 \in 0..SegCount /\ m \in 0..n + 1
    BY <1>2, WindowConstants
  <2> QED  BY <1>7, <1>9, <1>13, <2>1 DEF Counted
<1>16. Marked(v, n + 1, m)
  <2>1. \A i \in 1..n : (w.segs[i].sent <=> i <= m) /\ (w.segs[i].acked => i <= m)
    BY <1>1 DEF Laid, Marked
  <2>2. ~(n + 1 <= m)
    BY <1>2
  <2>3. ASSUME NEW i \in 1..n + 1 PROVE (v.segs[i].sent <=> i <= m) /\ (v.segs[i].acked => i <= m)
    <3>1. CASE i \in 1..n
      BY <1>7, <1>13, <2>1, <3>1
    <3>2. CASE i = n + 1
      BY <1>5, <1>7, <1>13, <2>2, <3>2
    <3> QED  BY <1>14, <3>1, <3>2
  <2> QED  BY <2>3 DEF Marked
<1>17. Going(v) = Going(w) /\ Due(v) = Due(w)
  <2>1. \A i \in 1..m : i \in 1..n
    BY <1>2
  <2>2. SameFirst(w, v, m)
    BY <1>7, <1>13, <2>1 DEF SameFirst
  <2>3. Counted(w, n, m) /\ Marked(w, n, m)
    BY <1>1 DEF Laid
  <2> QED  BY <1>15, <1>16, <2>2, <2>3, SameSent
<1>18. Waiting(v)
  <2>1. Waiting(w)
    BY <1>1 DEF Laid
  <2> QED  BY <1>13, <1>17, <2>1 DEF Waiting
<1> DEFINE p == [i \in 1..(n + 1) + 1 |-> IF i = (n + 1) + 1 THEN o[n + 1] + l ELSE o[i]]
<1>19. /\ \A i \in 1..n + 1 : p[i] = o[i]
       /\ p[(n + 1) + 1] = o[n + 1] + l /\ p \in [1..(n + 1) + 1 -> 0..Total]
       /\ o[n + 1] = Off(w.next) /\ o[1] = Off(w.cur) /\ o[m + 1] = Off(w.highest)
  <2>1. (n + 1) + 1 \in 1..(n + 1) + 1 /\ \A i \in 1..n + 1 : i \in 1..(n + 1) + 1 /\ i # (n + 1) + 1
    BY <1>2
  <2>2. /\ o \in [1..n + 1 -> 0..Total]
        /\ o[n + 1] = Off(w.next) /\ o[1] = Off(w.cur) /\ o[m + 1] = Off(w.highest)
    BY <1>1 DEF Laid, Ranged
  <2>3. o[n + 1] + l \in 0..Total
    BY <1>3, <2>2, WindowConstants
  <2>4. \A i \in 1..(n + 1) + 1 : i \in 1..n + 1 \/ i = (n + 1) + 1
    BY <1>2
  <2> QED  BY <2>1, <2>2, <2>3, <2>4
<1> HIDE DEF p
<1>20. Ranged(v, p, n + 1, m)
  <2>1. 1 \in 1..n + 1 /\ m + 1 \in 1..n + 1
    BY <1>2
  <2> QED  BY <1>4, <1>11, <1>13, <1>19, <2>1 DEF Ranged
<1>21. Placed(v, p, n + 1)
  <2>1. ASSUME NEW i \in 1..n + 1
        PROVE  /\ p[i] = Off(v.segs[i].seq) /\ p[i + 1] = p[i] + v.segs[i].len
               /\ v.segs[i].pos = Slot(p[i], TxLength)
    <3>1. CASE i \in 1..n
      <4>1. /\ o[i] = Off(w.segs[i].seq) /\ o[i + 1] = o[i] + w.segs[i].len
            /\ w.segs[i].pos = Slot(o[i], TxLength)
        BY <1>1, <3>1 DEF Laid, Placed
      <4>2. i + 1 \in 1..n + 1 /\ v.segs[i] = w.segs[i]
        BY <1>2, <1>7, <1>13, <3>1
      <4> QED  BY <1>19, <4>1, <4>2
    <3>2. CASE i = n + 1
      <4>1. v.segs[i] = s /\ p[i] = Off(w.next) /\ p[i + 1] = Off(w.next) + l
        BY <1>7, <1>13, <1>19, <3>2
      <4> QED  BY <1>5, <4>1
    <3> QED  BY <1>14, <3>1, <3>2
  <2> QED  BY <2>1 DEF Placed
<1>22. Queued(v, n + 1, m)
  <2>1. ASSUME NEW j \in 1..(n + 1) - m PROVE v.txq[j] = v.segs[m + j].seq
    <3>1. CASE j \in 1..n - m
      <4>1. m + j \in 1..n
        BY <1>2, <3>1
      <4>2. w.txq[j] = w.segs[m + j].seq
        BY <1>1, <3>1 DEF Laid, Queued
      <4> QED  BY <1>7, <1>9, <1>13, <3>1, <4>1, <4>2
    <3>2. CASE j \notin 1..n - m
      <4>1. j = (n + 1) - m /\ m + j = n + 1
        <5>1. n \in Nat /\ m \in Nat /\ m <= n
          BY <1>2
        <5> QED  BY <3>2, <5>1
      <4> QED  BY <1>5, <1>7, <1>9, <1>13, <4>1
    <3> QED  BY <3>1, <3>2
  <2> QED  BY <2>1 DEF Queued
<1>23. Headed(v, n + 1, m)
  <2>1. v.segs[n + 1] = s /\ n + 1 > m
    BY <1>2, <1>7, <1>13
  <2> QED  BY <1>5, <1>10, <1>13, <2>1 DEF Headed
<1>24. Laid(v, p, n + 1, m)
  BY <1>15, <1>16, <1>18, <1>20, <1>21, <1>22, <1>23 DEF Laid
<1>25. WindowInv(v)
  BY <1>24 DEF WindowInv
<1> QED  BY <1>4, <1>11, <1>13, <1>17, <1>25 DEF Kept

\* What is kept is kept by the next step.
LEMMA KeptOn ==
  ASSUME NEW w, NEW v, NEW u, Kept(w, v), Kept(v, u)
  PROVE  Kept(w, u) /\ Kept(w, w)
BY DEF Kept

\* The bytes that wait to be added go up to a position.
AddSet == [left : 0..TxLength, pos : 0..TxLength - 1, max : {TxLength}, w : WindowSet]

Adding(a, w, goal) ==
  /\ a \in AddSet /\ WindowInv(a.w) /\ Kept(w, a.w)
  /\ a.pos = Slot(Off(a.w.next), TxLength) /\ Off(a.w.next) + a.left = goal
  /\ Off(w.next) <= Off(a.w.next)

LEMMA AddingOn ==
  ASSUME Unambiguous, NEW w \in WindowSet, NEW goal \in 0..Total, NEW a, Adding(a, w, goal)
  PROVE  Adding(AddSegment(a), w, goal)
<1>1. a \in AddSet /\ WindowInv(a.w) /\ Kept(w, a.w)
      /\ a.pos = Slot(Off(a.w.next), TxLength) /\ Off(a.w.next) + a.left = goal
      /\ Off(w.next) <= Off(a.w.next)
  BY DEF Adding
<1>2. CASE a.left = 0 \/ Len(a.w.segs) = SegCount
  BY <1>2 DEF AddSegment
<1>3. CASE a.left # 0 /\ Len(a.w.segs) # SegCount
  <2>1. PICK l : l = Lesser(a.left, MSS)
    OBVIOUS
  <2>2. a.left \in 0..TxLength /\ a.w \in WindowSet /\ a.max = TxLength /\ a.pos \in 0..TxLength - 1
    BY <1>1 DEF AddSet
  <2>3. l \in 1..MSS /\ l <= a.left /\ l \in 0..TxLength
    BY <1>3, <2>1, <2>2, WindowConstants DEF Lesser
  <2>4. PICK s : s = [seq |-> a.w.next, len |-> l, pos |-> a.pos, sent |-> FALSE,
                      acked |-> FALSE, count |-> 0, dups |-> 0]
    OBVIOUS
  <2>5. s.seq = a.w.next
    BY <2>4
  <2>6. PICK v : v = [a.w EXCEPT !.segs = Append(@, s), !.txq = Append(@, s.seq), !.next = Plus(@, l),
                                 !.head = IF l < MSS THEN s.seq ELSE None]
    OBVIOUS
  <2>7. AddSegment(a) = [left |-> a.left - l, pos |-> (a.pos + l) % a.max, max |-> a.max, w |-> v]
    BY <1>3, <2>1, <2>4, <2>6 DEF AddSegment
  <2>8. Off(a.w.next) \in Nat
    <3>1. a.w.next \in Number
      BY <2>2, WindowFields
    <3> QED  BY <3>1, OffType, WindowConstants
  <2>9. Off(a.w.next) + l <= Total /\ Off(a.w.next) + l + (a.left - l) = goal
    BY <1>1, <2>2, <2>3, <2>8, WindowConstants
  <2>10. WindowInv(v) /\ Kept(a.w, v) /\ Off(v.next) = Off(a.w.next) + l
    <3>1. PICK u : u = a.w
      OBVIOUS
    <3>2. s = NewSegment(u, l)
      BY <1>1, <2>4, <3>1 DEF NewSegment
    <3>3. v = WithNew(u, l)
      BY <2>6, <3>1, <3>2 DEF WithNew
    <3>4. WindowInv(u) /\ Len(u.segs) # SegCount /\ Off(u.next) + l <= Total
      BY <1>1, <1>3, <2>9, <3>1
    <3>5. WindowInv(v) /\ Kept(u, v) /\ Off(v.next) = Off(u.next) + l
      BY <2>3, <3>3, <3>4, AddOne
    <3> QED  BY <3>1, <3>5
  <2>11. Kept(w, v)
    BY <1>1, <2>10, KeptOn
  <2>12. (a.pos + l) % a.max = Slot(Off(v.next), TxLength) /\ (a.pos + l) % a.max \in 0..TxLength - 1
    <3>1. PICK x \in Nat : x = Off(a.w.next)
      BY <2>8
    <3>2. Slot(Slot(x, TxLength) + l, TxLength) = Slot(x + l, TxLength)
      BY <2>3, WindowConstants, SlotSum
    <3>3. (a.pos + l) % a.max = Slot(a.pos + l, TxLength)
      BY <2>2 DEF Slot
    <3>4. PICK y \in Nat : y = x + l
      BY <2>3, WindowConstants
    <3>5. Slot(y, TxLength) \in 0..TxLength - 1
      BY WindowConstants, SlotType
    <3> QED  BY <1>1, <2>10, <3>1, <3>2, <3>3, <3>4, <3>5
  <2>13. v \in WindowSet
    BY <2>10 DEF WindowInv, Laid, Counted
  <2>14. PICK pos \in 0..TxLength - 1 : pos = (a.pos + l) % a.max
    BY <2>12
  <2>15. PICK left \in 0..TxLength : left = a.left - l
    BY <2>2, <2>3, WindowConstants
  <2>16. PICK b : b = AddSegment(a)
    OBVIOUS
  <2>17. b = [left |-> left, pos |-> pos, max |-> TxLength, w |-> v]
    BY <2>2, <2>7, <2>14, <2>15, <2>16
  <2>18. b \in AddSet /\ b.w = v /\ b.left = left /\ b.pos = pos
    BY <2>13, <2>17 DEF AddSet
  <2>19. Off(w.next) <= Off(v.next)
    <3>1. w.next \in Number
      BY WindowFields
    <3>2. Off(w.next) \in Nat
      BY <3>1, OffType, WindowConstants
    <3> QED  BY <1>1, <2>3, <2>8, <2>10, <3>2
  <2>20. b.pos = Slot(Off(b.w.next), TxLength) /\ Off(b.w.next) + b.left = goal
    BY <2>9, <2>10, <2>12, <2>14, <2>15, <2>18
  <2> QED  BY <2>10, <2>11, <2>16, <2>18, <2>19, <2>20 DEF Adding
<1> QED  BY <1>2, <1>3

LEMMA AddingAll ==
  ASSUME Unambiguous, NEW w \in WindowSet, NEW goal \in 0..Total, NEW a, Adding(a, w, goal),
         NEW k \in Nat
  PROVE  Adding(Repeat(LAMBDA x, i : AddSegment(x), a, k), w, goal)
<1> DEFINE T == [i \in 0..k |-> {x \in AddSet : Adding(x, w, goal)}]
           R(f) == f = [i \in 0..k |-> IF i = 0 THEN a ELSE AddSegment(f[i - 1])]
           step == [i \in 1..k |-> [x \in T[i - 1] |-> AddSegment(x)]]
           after == CHOOSE f : R(f)
<1>1. a \in T[0]
  <2>1. a \in AddSet
    BY DEF Adding
  <2> QED  BY <2>1
<1>2. ASSUME NEW i \in 1..k, NEW x \in T[i - 1] PROVE AddSegment(x) \in T[i]
  <2>1. i - 1 \in 0..k /\ i \in 0..k
    OBVIOUS
  <2>2. Adding(x, w, goal)
    BY <2>1
  <2>3. Adding(AddSegment(x), w, goal)
    BY <2>2, AddingOn
  <2>4. AddSegment(x) \in AddSet
    BY <2>3 DEF Adding
  <2> QED  BY <2>1, <2>3, <2>4
<1> HIDE DEF T
<1>3. \E f : R(f)
  <2>1. \A i \in 1..k : \A x \in T[i - 1] : step[i][x] = AddSegment(x)
    OBVIOUS
  <2>2. \A i \in 1..k : \A x \in T[i - 1] : step[i][x] \in T[i]
    BY <1>2, <2>1
  <2> HIDE DEF step
  <2>3. Stepped(k, T, a, step)
    BY <1>1, <2>2, Steps
  <2>4. PICK f : /\ f = [i \in 0..k |-> IF i = 0 THEN a ELSE step[i][f[i - 1]]]
                 /\ \A i \in 0..k : f[i] \in T[i]
    BY <2>3 DEF Stepped
  <2>5. ASSUME NEW i \in 0..k
        PROVE (IF i = 0 THEN a ELSE step[i][f[i - 1]]) = IF i = 0 THEN a ELSE AddSegment(f[i - 1])
    <3>1. i # 0 => i \in 1..k /\ i - 1 \in 0..k
      OBVIOUS
    <3>2. i # 0 => f[i - 1] \in T[i - 1]
      BY <2>4, <3>1
    <3> QED  BY <2>1, <3>1, <3>2
  <2>6. R(f)
    BY <2>4, <2>5
  <2> HIDE DEF R
  <2> QED  BY <2>6
<1>4. R(after)
  BY <1>3
<1>5. Repeat(LAMBDA x, i : AddSegment(x), a, k) = after[k]
  BY DEF Repeat
<1> HIDE DEF after
<1>6. \A i \in 0..k : after[i] \in T[i]
  <2> DEFINE U == {i \in 0..k : after[i] \in T[i]}
  <2>1. \A i \in 0..k : after[i] = IF i = 0 THEN a ELSE AddSegment(after[i - 1])
    BY <1>4
  <2>2. 0 \in U
    BY <1>1, <2>1
  <2>3. ASSUME NEW i \in 1..k, i - 1 \in U PROVE i \in U
    BY <1>2, <2>1, <2>3
  <2> HIDE DEF U
  <2>4. \A i \in 0..k : i \in U
    BY <2>2, <2>3, Upward
  <2> QED  BY <2>4 DEF U
<1>7. after[k] \in T[k] /\ k \in 0..k
  BY <1>6
<1>8. Adding(after[k], w, goal)
  BY <1>7 DEF T
<1> QED  BY <1>5, <1>8

\* lTCPWindowTxAdd takes the next bytes, as many as there is room for.
LEMMA TxAddIs ==
  ASSUME Unambiguous, NEW w, WindowInv(w), NEW n \in 0..TxLength, Off(w.next) + n <= Total,
         NEW add, add = TxAdd(w, n, Slot(Off(w.next), TxLength), TxLength)
  PROVE  /\ WindowInv(add.w) /\ Kept(w, add.w)
         /\ add.done \in 0..n /\ Off(add.w.next) = Off(w.next) + add.done
<1>1. PICK o, k, m : Laid(w, o, k, m)
  BY DEF WindowInv
<1>2. w \in WindowSet /\ Off(w.next) \in Nat
  <2>1. w \in WindowSet
    BY <1>1 DEF Laid, Counted
  <2>2. w.next \in Number
    BY <2>1, WindowFields
  <2> QED  BY <2>1, <2>2, OffType, WindowConstants
<1>3. PICK x \in Nat : x = Off(w.next) /\ x + n <= Total
  BY <1>2
<1>4. PICK grow : grow = IF Open(w) THEN Lesser(n, MSS - Segment(w, w.head).len) ELSE 0
  OBVIOUS
<1>5. PICK v : v = IF Open(w)
                   THEN [w EXCEPT !.segs[Index(w, w.head)].len = @ + grow, !.next = Plus(@, grow),
                                  !.head = IF Open(w) /\ Segment(w, w.head).len + grow = MSS THEN None ELSE @]
                   ELSE w
  OBVIOUS
<1>6. grow \in 0..n /\ grow \in Nat /\ WindowInv(v) /\ Kept(w, v) /\ Off(v.next) = x + grow
  <2>1. CASE Open(w)
    <3>1. Segment(w, w.head).len \in 1..MSS - 1
      BY <1>1, <2>1, OpenIs
    <3>2. grow \in Nat /\ grow <= n /\ grow <= MSS - Segment(w, w.head).len
      BY <1>4, <2>1, <3>1, WindowConstants DEF Lesser
    <3>3. Off(w.next) + grow <= Total
      BY <1>3, <3>2, WindowConstants
    <3>4. v = [w EXCEPT !.segs[Index(w, w.head)].len = @ + grow, !.next = Plus(@, grow),
                        !.head = IF Segment(w, w.head).len + grow = MSS THEN None ELSE @]
      BY <1>5, <2>1
    <3>5. WindowInv(v) /\ Kept(w, v) /\ Off(v.next) = Off(w.next) + grow
      BY <2>1, <3>2, <3>3, <3>4, GrowIs
    <3> QED  BY <1>3, <3>2, <3>5
  <2>2. CASE ~Open(w)
    BY <1>3, <1>4, <1>5, <2>2, KeptOn DEF Kept
  <2> QED  BY <2>1, <2>2
<1>7. PICK a : a = [left |-> n - grow, pos |-> (Slot(Off(w.next), TxLength) + grow) % TxLength, max |-> TxLength, w |-> v]
  OBVIOUS
<1>8. PICK last : last = Repeat(LAMBDA b, i : AddSegment(b), a, SegCount)
  OBVIOUS
<1>9. add = [w |-> last.w, done |-> n - last.left]
  BY <1>4, <1>5, <1>7, <1>8 DEF TxAdd
<1>10. PICK goal \in 0..Total : goal = x + n
  BY <1>3, WindowConstants
<1>11. Adding(a, w, goal)
  <2>1. (Slot(x, TxLength) + grow) % TxLength = Slot(x + grow, TxLength)
    <3>1. grow \in 0..TxLength
      BY <1>6, WindowConstants
    <3>2. Slot(Slot(x, TxLength) + grow, TxLength) = Slot(x + grow, TxLength)
      BY <3>1, WindowConstants, SlotSum
    <3> QED  BY <3>2 DEF Slot
  <2>2. PICK pos : pos = Slot(x + grow, TxLength)
    OBVIOUS
  <2>3. pos \in 0..TxLength - 1
    <3>1. x + grow \in Nat
      BY <1>6
    <3> QED  BY <2>2, <3>1, WindowConstants, SlotType
  <2>4. a = [left |-> n - grow, pos |-> pos, max |-> TxLength, w |-> v]
    BY <1>3, <1>7, <2>1, <2>2
  <2>5. v \in WindowSet
    BY <1>6 DEF WindowInv, Laid, Counted
  <2>6. PICK left \in 0..TxLength : left = n - grow
    BY <1>6, WindowConstants
  <2>7. a \in AddSet /\ a.w = v /\ a.pos = pos /\ a.left = left
    BY <2>3, <2>4, <2>5, <2>6 DEF AddSet
  <2>8. (x + grow) + left = goal
    BY <1>6, <1>10, <2>6
  <2> QED  BY <1>3, <1>6, <2>2, <2>7, <2>8 DEF Adding
<1>12. Adding(last, w, goal)
  BY <1>2, <1>8, <1>11, WindowConstants, AddingAll
<1>13. /\ last.left \in 0..TxLength /\ last.w \in WindowSet
       /\ Off(last.w.next) + last.left = x + n /\ WindowInv(last.w) /\ Kept(w, last.w) /\ x <= Off(last.w.next)
  BY <1>3, <1>10, <1>12 DEF Adding, AddSet
<1>14. Off(last.w.next) \in Nat
  <2>1. last.w.next \in Number
    BY <1>13, WindowFields
  <2> QED  BY <2>1, OffType, WindowConstants
<1>15. n - last.left \in 0..n /\ Off(last.w.next) = x + (n - last.left)
  BY <1>13, <1>14, WindowConstants
<1> QED  BY <1>3, <1>9, <1>13, <1>15

LEMMA IndexOnly ==
  ASSUME NEW u \in WindowSet, NEW n, Len(u.segs) = n,
         \A i, j \in 1..n : u.segs[i].seq = u.segs[j].seq => i = j, NEW k \in 1..n
  PROVE  Index(u, u.segs[k].seq) = k
<1>1. DOMAIN u.segs = 1..n
  BY WindowFields, LenProperties
<1>2. PICK i : i = Index(u, u.segs[k].seq)
  OBVIOUS
<1>3. i \in 1..n /\ u.segs[i].seq = u.segs[k].seq
  BY <1>1, <1>2 DEF Index
<1> QED  BY <1>2, <1>3

\* Two windows with the same segments, but for how often they were sent.
Alike(s, t) == t.seq = s.seq /\ t.len = s.len /\ t.pos = s.pos /\ (t.acked <=> s.acked)

Resembles(w, v, n) == \A i \in 1..n : Alike(w.segs[i], v.segs[i]) /\ (v.segs[i].sent <=> w.segs[i].sent)

\* The segment k goes out.
SentToo(w, v, n, k) ==
  \A i \in 1..n : Alike(w.segs[i], v.segs[i]) /\ (v.segs[i].sent <=> i = k \/ w.segs[i].sent)

OneEach(w, n) == \A i, j \in 1..n : w.segs[i].seq = w.segs[j].seq => i = j

LEMMA TransmitIs ==
  ASSUME NEW u \in WindowSet, NEW n, Len(u.segs) = n,
         OneEach(u, n), NEW k \in 1..n, NEW v, v = Transmit(u, u.segs[k].seq)
  PROVE  /\ v \in WindowSet /\ Len(v.segs) = n /\ SentToo(u, v, n, k)
         /\ v.wait = Append(u.wait, u.segs[k].seq) /\ v.prio = u.prio /\ v.txq = u.txq
         /\ v.head = u.head /\ v.cur = u.cur /\ v.highest = u.highest /\ v.next = u.next
<1>1. u.segs \in Seq(SegmentSet) /\ u.segs[k] \in SegmentSet /\ u.wait \in Seq(Number) /\ u.txWin \in Nat /\ n \in Nat
  BY WindowFields
<1>2. PICK c : c = Lesser(u.segs[k].count, MAX_TRANSMIT_COUNT_USING_LARGE_WINDOW) + 1
  OBVIOUS
<1>3. c \in Nat
  <2>1. u.segs[k].count \in Nat
    BY <1>1 DEF SegmentSet
  <2> QED  BY <1>2, <2>1 DEF Lesser, MAX_TRANSMIT_COUNT_USING_LARGE_WINDOW
<1>4. PICK t : t = IF c = MAX_TRANSMIT_COUNT_USING_LARGE_WINDOW THEN Lesser(u.txWin, 2 * MSS) ELSE u.txWin
  OBVIOUS
<1>5. t \in Nat
  BY <1>1, <1>4, WindowConstants DEF Lesser
<1>6. PICK s : s = [u.segs[k] EXCEPT !.sent = TRUE, !.count = c]
  OBVIOUS
<1>7. s \in SegmentSet /\ Alike(u.segs[k], s) /\ s.sent
  BY <1>1, <1>3, <1>6 DEF SegmentSet, Alike
<1>8. PICK segs : segs = [u.segs EXCEPT ![k] = s]
  OBVIOUS
<1>9. segs \in Seq(SegmentSet) /\ Len(segs) = n /\ segs[k] = s /\ \A i \in 1..n : i # k => segs[i] = u.segs[i]
  BY <1>1, <1>7, <1>8, Changed
<1>10. PICK wait : wait = Append(u.wait, u.segs[k].seq)
  OBVIOUS
<1>11. wait \in Seq(Number)
  <2>1. u.segs[k].seq \in Number
    BY <1>1, SegmentFields
  <2> QED  BY <1>1, <1>10, <2>1, AppendProperties
<1>12. v = [u EXCEPT !.wait = wait, !.segs = segs, !.txWin = t]
  <2>1. Index(u, u.segs[k].seq) = k
    BY IndexOnly DEF OneEach
  <2>2. v = [u EXCEPT !.wait = Append(@, u.segs[k].seq), !.segs[k].sent = TRUE, !.segs[k].count = c, !.txWin = t]
    BY <1>2, <1>4, <2>1 DEF Transmit
  <2>3. [[u.segs EXCEPT ![k].sent = TRUE] EXCEPT ![k].count = c] = segs
    <3>1. DOMAIN u.segs = 1..n
      BY <1>1, LenProperties
    <3> QED  BY <1>6, <1>8, <3>1
  <2> QED  BY <1>10, <2>2, <2>3
<1>13. /\ v \in WindowSet /\ v.segs = segs /\ v.wait = wait /\ v.prio = u.prio /\ v.txq = u.txq
       /\ v.head = u.head /\ v.cur = u.cur /\ v.highest = u.highest /\ v.next = u.next
  BY <1>5, <1>9, <1>11, <1>12 DEF WindowSet
<1>14. ASSUME NEW i \in 1..n PROVE Alike(u.segs[i], v.segs[i]) /\ (v.segs[i].sent <=> i = k \/ u.segs[i].sent)
  <2>1. CASE i = k
    BY <1>7, <1>9, <1>13, <2>1
  <2>2. CASE i # k
    <3>1. v.segs[i] = u.segs[i]
      BY <1>9, <1>13, <2>2
    <3> QED  BY <2>2, <3>1 DEF Alike
  <2> QED  BY <2>1, <2>2
<1> QED  BY <1>9, <1>10, <1>13, <1>14 DEF SentToo

\* The waiting segments may change queues, and the counts of segments change.
LEMMA Redistributed ==
  ASSUME NEW w, NEW o, NEW n, NEW m, Laid(w, o, n, m), NEW v \in WindowSet, Len(v.segs) = n,
         Resembles(w, v, n),
         v.txq = w.txq, v.head = w.head, v.cur = w.cur, v.highest = w.highest, v.next = w.next,
         Elements(v.prio) \cup Elements(v.wait) = Elements(w.prio) \cup Elements(w.wait),
         Elements(v.prio) \cap Elements(v.wait) = {}, Once(v.prio), Once(v.wait)
  PROVE  Laid(v, o, n, m) /\ Going(v) = Going(w)
<1>1. /\ Counted(w, n, m) /\ Marked(w, n, m) /\ Ranged(w, o, n, m) /\ Placed(w, o, n)
      /\ Queued(w, n, m) /\ Waiting(w) /\ Headed(w, n, m)
  BY DEF Laid
<1>2. n \in Nat /\ m \in Nat /\ m <= n
  BY Ordered
<1>3. Counted(v, n, m)
  BY <1>1 DEF Counted
<1>4. Marked(v, n, m)
  BY <1>1 DEF Marked, Resembles, Alike
<1>5. Going(v) = Going(w) /\ Due(v) = Due(w)
  <2>1. \A i \in 1..m : i \in 1..n
    BY <1>2
  <2>2. SameFirst(w, v, m)
    BY <2>1 DEF SameFirst, Resembles, Alike
  <2> QED  BY <1>1, <1>3, <1>4, <2>2, SameSent
<1>6. Waiting(v)
  BY <1>1, <1>5 DEF Waiting
<1>7. Ranged(v, o, n, m)
  BY <1>1 DEF Ranged
<1>8. Placed(v, o, n)
  BY <1>1 DEF Placed, Resembles, Alike
<1>9. Queued(v, n, m)
  <2>1. \A j \in 1..n - m : m + j \in 1..n
    BY <1>2
  <2> QED  BY <1>1, <2>1 DEF Queued, Resembles, Alike
<1>10. Headed(v, n, m)
  <2>1. n > m => n \in 1..n
    BY <1>2
  <2> QED  BY <1>1, <2>1 DEF Headed, Resembles, Alike
<1> QED  BY <1>3, <1>4, <1>5, <1>6, <1>7, <1>8, <1>9, <1>10 DEF Laid

\* One of the segments that wait is the segment i of those that were sent.
LEMMA DueIs ==
  ASSUME NEW w, NEW o, NEW n, NEW m, Laid(w, o, n, m), NEW seq \in Elements(w.prio) \cup Elements(w.wait)
  PROVE  \E i \in 1..n : w.segs[i].seq = seq /\ w.segs[i].sent /\ ~w.segs[i].acked
<1>1. seq \in Due(w)
  BY DEF Laid, Waiting
<1>2. Len(w.segs) = n
  BY DEF Laid, Counted
<1> QED  BY <1>1, <1>2 DEF Due

\* A segment that was sent before goes out again.
LEMMA Resent ==
  ASSUME NEW w, NEW o, NEW n, NEW m, Laid(w, o, n, m), NEW u \in WindowSet, Len(u.segs) = n,
         Resembles(w, u, n),
         u.txq = w.txq, u.head = w.head, u.cur = w.cur, u.highest = w.highest, u.next = w.next,
         NEW seq, {seq} \cup Elements(u.prio) \cup Elements(u.wait) = Elements(w.prio) \cup Elements(w.wait),
         seq \notin Elements(u.prio), seq \notin Elements(u.wait),
         Elements(u.prio) \cap Elements(u.wait) = {}, Once(u.prio), Once(u.wait),
         NEW v, v = Transmit(u, seq)
  PROVE  /\ Laid(v, o, n, m) /\ Going(v) = Going(w)
         /\ v.cur = w.cur /\ v.highest = w.highest /\ v.next = w.next
         /\ \E i \in 1..n : v.segs[i].seq = seq /\ v.segs[i].sent
<1>1. PICK k \in 1..n : w.segs[k].seq = seq /\ w.segs[k].sent
  <2>1. seq \in Elements(w.prio) \cup Elements(w.wait)
    OBVIOUS
  <2> QED  BY <2>1, DueIs
<1>2. OneEach(w, n)
  BY Ordered DEF OneEach
<1>3. OneEach(u, n)
  BY <1>2 DEF OneEach, Resembles, Alike
<1>4. u.segs[k].seq = seq /\ u.segs[k].sent
  BY <1>1 DEF Resembles, Alike
<1>5. /\ v \in WindowSet /\ Len(v.segs) = n /\ SentToo(u, v, n, k)
      /\ v.wait = Append(u.wait, u.segs[k].seq) /\ v.prio = u.prio /\ v.txq = u.txq
      /\ v.head = u.head /\ v.cur = u.cur /\ v.highest = u.highest /\ v.next = u.next
  <2>1. v = Transmit(u, u.segs[k].seq)
    BY <1>4
  <2> QED  BY <1>3, <2>1, TransmitIs
<1>6. Resembles(w, v, n)
  <2>1. SentToo(u, v, n, k)
    BY <1>5
  <2> QED  BY <1>4, <2>1 DEF SentToo, Resembles, Alike
<1>7. Elements(v.wait) = Elements(u.wait) \cup {seq} /\ Once(v.wait) /\ v.prio = u.prio
  <2>1. u.wait \in Seq(Number) /\ seq \in Number
    <3>1. w.segs[k].seq \in Number
      BY Ordered
    <3> QED  BY <1>1, <3>1, WindowFields
  <2>2. v.wait = Append(u.wait, seq)
    BY <1>4, <1>5
  <2> QED  BY <1>5, <2>1, <2>2, AppendIs
<1>8. Laid(v, o, n, m) /\ Going(v) = Going(w)
  <2>1. v.txq = w.txq /\ v.head = w.head /\ v.cur = w.cur /\ v.highest = w.highest /\ v.next = w.next
    BY <1>5
  <2>2. /\ Elements(v.prio) \cup Elements(v.wait) = Elements(w.prio) \cup Elements(w.wait)
        /\ Elements(v.prio) \cap Elements(v.wait) = {} /\ Once(v.prio) /\ Once(v.wait)
    BY <1>7
  <2>3. v \in WindowSet /\ Len(v.segs) = n
    BY <1>5
  <2> QED  BY <1>6, <2>1, <2>2, <2>3, Redistributed
<1>9. v.segs[k].seq = seq /\ v.segs[k].sent
  BY <1>1, <1>6 DEF Resembles, Alike
<1> QED  BY <1>5, <1>8, <1>9

\* What sending a segment does to a window: an old one goes out again, or a new one for the
\* first time.
Sends(w, v, seq) ==
  /\ v.cur = w.cur /\ v.next = w.next
  /\ \E i \in 1..Len(v.segs) : v.segs[i].seq = seq /\ v.segs[i].sent
  /\ \/ v.highest = w.highest /\ Going(v) = Going(w)
     \/ \E l \in 1..MSS : Off(v.highest) = Off(w.highest) + l /\ Going(v) = Going(w) \cup {<<Off(w.highest), l>>}

\* The window after the urgent segment, the oldest of those that wait, the first new one.
AfterUrgent(w) == Transmit([w EXCEPT !.prio = Tail(@)], Head(w.prio))

AfterOldest(w, k) == Transmit([w EXCEPT !.wait = Tail(@), !.segs[k].dups = 0], Head(w.wait))

AfterFirst(w, s) ==
  Transmit([w EXCEPT !.txq = Tail(@), !.highest = Plus(s.seq, s.len), !.head = IF @ = s.seq THEN None ELSE @],
           s.seq)

LEMMA SendPrio ==
  ASSUME NEW w, WindowInv(w), w.prio # <<>>, NEW v, v = AfterUrgent(w)
  PROVE  WindowInv(v) /\ Sends(w, v, Head(w.prio))
<1>1. PICK o, n, m : Laid(w, o, n, m)
  BY DEF WindowInv
<1>2. w \in WindowSet /\ Len(w.segs) = n /\ Waiting(w)
  BY <1>1 DEF Laid, Counted
<1>3. PICK u : u = [w EXCEPT !.prio = Tail(@)]
  OBVIOUS
<1>4. w.prio \in Seq(Number)
  BY <1>2, WindowFields
<1>5. PICK q : q = Tail(w.prio)
  OBVIOUS
<1>6. PICK h : h = Head(w.prio)
  OBVIOUS
<1>7. q \in Seq(Number) /\ Elements(w.prio) = Elements(q) \cup {h} /\ (Once(w.prio) => Once(q) /\ h \notin Elements(q))
  BY <1>4, <1>5, <1>6, TailIs
<1>8. /\ u \in WindowSet /\ u.segs = w.segs /\ u.txq = w.txq /\ u.head = w.head /\ u.cur = w.cur
      /\ u.highest = w.highest /\ u.next = w.next /\ u.prio = q /\ u.wait = w.wait
  BY <1>2, <1>3, <1>5, <1>7 DEF WindowSet
<1>9. /\ Once(w.prio) /\ Once(w.wait) /\ Elements(w.prio) \cap Elements(w.wait) = {}
  BY <1>2 DEF Waiting
<1>10. /\ {h} \cup Elements(u.prio) \cup Elements(u.wait) = Elements(w.prio) \cup Elements(w.wait)
       /\ h \notin Elements(u.prio) /\ h \notin Elements(u.wait)
       /\ Elements(u.prio) \cap Elements(u.wait) = {} /\ Once(u.prio) /\ Once(u.wait)
  BY <1>7, <1>8, <1>9
<1>11. Resembles(w, u, n)
  BY <1>8 DEF Resembles, Alike
<1>12. v = Transmit(u, h)
  BY <1>3, <1>6 DEF AfterUrgent
<1>13. Len(u.segs) = n
  BY <1>2, <1>8
<1>14. /\ Laid(v, o, n, m) /\ Going(v) = Going(w)
       /\ v.cur = w.cur /\ v.highest = w.highest /\ v.next = w.next
       /\ \E i \in 1..n : v.segs[i].seq = h /\ v.segs[i].sent
  BY <1>1, <1>8, <1>10, <1>11, <1>12, <1>13, Resent
<1>15. Len(v.segs) = n
  BY <1>14 DEF Laid, Counted
<1> QED  BY <1>6, <1>14, <1>15 DEF WindowInv, Sends

LEMMA SendWaiting ==
  ASSUME NEW w, WindowInv(w), w.wait # <<>>, NEW k, k = Index(w, Head(w.wait)),
         NEW v, v = AfterOldest(w, k)
  PROVE  WindowInv(v) /\ Sends(w, v, Head(w.wait))
<1>1. PICK o, n, m : Laid(w, o, n, m)
  BY DEF WindowInv
<1>2. w \in WindowSet /\ Len(w.segs) = n /\ Waiting(w)
  BY <1>1 DEF Laid, Counted
<1>3. w.wait \in Seq(Number) /\ w.segs \in Seq(SegmentSet) /\ n \in Nat
  BY <1>2, WindowFields
<1>4. PICK q : q = Tail(w.wait)
  OBVIOUS
<1>5. PICK h : h = Head(w.wait)
  OBVIOUS
<1>6. q \in Seq(Number) /\ Elements(w.wait) = Elements(q) \cup {h} /\ (Once(w.wait) => Once(q) /\ h \notin Elements(q))
  BY <1>3, <1>4, <1>5, TailIs
<1>7. k \in 1..n /\ w.segs[k] \in SegmentSet
  <2>1. h \in Elements(w.prio) \cup Elements(w.wait)
    BY <1>6
  <2>2. PICK i \in 1..n : w.segs[i].seq = h
    BY <1>1, <2>1, DueIs
  <2>3. k = i
    BY <1>1, <1>5, <2>2, IndexIs
  <2> QED  BY <1>1, <2>3, Ordered
<1>8. PICK s : s = [w.segs[k] EXCEPT !.dups = 0]
  OBVIOUS
<1>9. s \in SegmentSet /\ Alike(w.segs[k], s) /\ s.sent = w.segs[k].sent
  BY <1>7, <1>8 DEF SegmentSet, Alike
<1>10. PICK segs : segs = [w.segs EXCEPT ![k] = s]
  OBVIOUS
<1>11. segs \in Seq(SegmentSet) /\ Len(segs) = n /\ segs[k] = s /\ \A i \in 1..n : i # k => segs[i] = w.segs[i]
  BY <1>2, <1>3, <1>7, <1>9, <1>10, Changed
<1>12. PICK u : u = [w EXCEPT !.wait = q, !.segs = segs]
  OBVIOUS
<1>13. /\ u \in WindowSet /\ u.segs = segs /\ u.txq = w.txq /\ u.head = w.head /\ u.cur = w.cur
       /\ u.highest = w.highest /\ u.next = w.next /\ u.prio = w.prio /\ u.wait = q
  BY <1>2, <1>6, <1>11, <1>12 DEF WindowSet
<1>14. /\ Once(w.prio) /\ Once(w.wait) /\ Elements(w.prio) \cap Elements(w.wait) = {}
  BY <1>2 DEF Waiting
<1>15. /\ {h} \cup Elements(u.prio) \cup Elements(u.wait) = Elements(w.prio) \cup Elements(w.wait)
       /\ h \notin Elements(u.prio) /\ h \notin Elements(u.wait)
       /\ Elements(u.prio) \cap Elements(u.wait) = {} /\ Once(u.prio) /\ Once(u.wait)
  BY <1>6, <1>13, <1>14
<1>16. Resembles(w, u, n)
  <2>1. ASSUME NEW i \in 1..n PROVE Alike(w.segs[i], u.segs[i]) /\ (u.segs[i].sent <=> w.segs[i].sent)
    <3>1. CASE i = k
      BY <1>9, <1>11, <1>13, <3>1
    <3>2. CASE i # k
      <4>1. u.segs[i] = w.segs[i]
        BY <1>11, <1>13, <3>2
      <4> QED  BY <4>1 DEF Alike
    <3> QED  BY <3>1, <3>2
  <2> QED  BY <2>1 DEF Resembles
<1>17. v = Transmit(u, h)
  BY <1>4, <1>5, <1>8, <1>10, <1>12 DEF AfterOldest
<1>18. Len(u.segs) = n
  BY <1>11, <1>13
<1>19. /\ Laid(v, o, n, m) /\ Going(v) = Going(w)
       /\ v.cur = w.cur /\ v.highest = w.highest /\ v.next = w.next
       /\ \E i \in 1..n : v.segs[i].seq = h /\ v.segs[i].sent
  BY <1>1, <1>13, <1>15, <1>16, <1>17, <1>18, Resent
<1>20. Len(v.segs) = n
  BY <1>19 DEF Laid, Counted
<1> QED  BY <1>5, <1>19, <1>20 DEF WindowInv, Sends

\* The first segment that has not been sent goes out.
LEMMA SendFirst ==
  ASSUME Unambiguous, NEW w, WindowInv(w), w.txq # <<>>, NEW s, s = Segment(w, Head(w.txq)),
         NEW v, v = AfterFirst(w, s)
  PROVE  WindowInv(v) /\ Sends(w, v, s.seq)
<1>1. PICK o, n, m : Laid(w, o, n, m)
  BY DEF WindowInv
<1>2. /\ Counted(w, n, m) /\ Marked(w, n, m) /\ Ranged(w, o, n, m) /\ Placed(w, o, n)
      /\ Queued(w, n, m) /\ Waiting(w) /\ Headed(w, n, m)
  BY <1>1 DEF Laid
<1>3. w \in WindowSet /\ Len(w.segs) = n /\ Len(w.txq) = n - m /\ n \in 0..SegCount
  BY <1>2 DEF Counted
<1>4. n \in Nat /\ m \in Nat /\ m <= n
  BY <1>1, Ordered
<1>5. w.txq \in Seq(Number) /\ w.wait \in Seq(Number) /\ w.head \in Number \cup {None}
  BY <1>3, WindowFields
<1>6. PICK q : q = Tail(w.txq)
  OBVIOUS
<1>7. /\ q \in Seq(Number) /\ Len(w.txq) \in Nat \ {0} /\ Head(w.txq) = w.txq[1] /\ Len(q) = Len(w.txq) - 1
      /\ \A i \in 1..Len(w.txq) - 1 : q[i] = w.txq[i + 1]
  BY <1>5, <1>6, TailIs
<1>8. m < n /\ m + 1 \in 1..n /\ 1 \in 1..n - m /\ m + 1 \in 0..n
  BY <1>3, <1>4, <1>7
<1>9. PICK k : k = m + 1
  OBVIOUS
<1>10. s = w.segs[k] /\ k \in 1..n /\ k \in 1..n + 1
  <2>1. Head(w.txq) = w.segs[k].seq
    BY <1>2, <1>7, <1>8, <1>9 DEF Queued
  <2> QED  BY <1>1, <1>4, <1>8, <1>9, <2>1, IndexIs
<1>11. s \in SegmentSet /\ s.len \in 1..MSS /\ s.seq \in Number
  BY <1>1, <1>10, Ordered
<1>12. /\ o[k] = Off(s.seq) /\ o[k + 1] = o[k] + s.len /\ o[k] = Off(w.highest) /\ o[k + 1] \in 0..Total
  <2>1. o[k] = Off(s.seq) /\ o[k + 1] = o[k] + s.len
    BY <1>2, <1>10 DEF Placed
  <2>2. o[k] = Off(w.highest)
    BY <1>2, <1>9 DEF Ranged
  <2>3. k + 1 \in 1..n + 1
    BY <1>4, <1>10
  <2>4. o[k + 1] \in 0..Total
    BY <1>1, <2>3, Ordered
  <2> QED  BY <2>1, <2>2, <2>4
<1>13. PICK high : high = Plus(s.seq, s.len)
  OBVIOUS
<1>14. high \in Number /\ Off(high) = o[k + 1]
  <2>1. Off(s.seq) + s.len <= Total /\ s.len \in Nat
    BY <1>11, <1>12, WindowConstants
  <2> QED  BY <1>11, <1>12, <1>13, <2>1, NumberSum
<1>15. PICK head : head = IF w.head = s.seq THEN None ELSE w.head
  OBVIOUS
<1>16. PICK u : u = [w EXCEPT !.txq = q, !.highest = high, !.head = head]
  OBVIOUS
<1>17. head \in Number \cup {None}
  BY <1>5, <1>15
<1>18. /\ u \in WindowSet /\ u.segs = w.segs /\ u.txq = q /\ u.head = head /\ u.cur = w.cur
       /\ u.highest = high /\ u.next = w.next /\ u.prio = w.prio /\ u.wait = w.wait
  BY <1>3, <1>7, <1>14, <1>16, <1>17 DEF WindowSet
<1>19. v = Transmit(u, u.segs[k].seq)
  <2>1. v = Transmit(u, s.seq)
    BY <1>6, <1>13, <1>15, <1>16 DEF AfterFirst
  <2> QED  BY <1>10, <1>18, <2>1
<1>20. OneEach(w, n)
  BY <1>1, Ordered DEF OneEach
<1>21. /\ v \in WindowSet /\ Len(v.segs) = n
       /\ v.wait = Append(w.wait, s.seq) /\ v.prio = w.prio /\ v.txq = q
       /\ v.head = head /\ v.cur = w.cur /\ v.highest = high /\ v.next = w.next
       /\ SentToo(w, v, n, k)
  <2>1. u \in WindowSet /\ Len(u.segs) = n /\ OneEach(u, n)
    BY <1>3, <1>18, <1>20 DEF OneEach
  <2>2. /\ v \in WindowSet /\ Len(v.segs) = n /\ SentToo(u, v, n, k)
        /\ v.wait = Append(u.wait, u.segs[k].seq) /\ v.prio = u.prio /\ v.txq = u.txq
        /\ v.head = u.head /\ v.cur = u.cur /\ v.highest = u.highest /\ v.next = u.next
    BY <1>10, <1>19, <2>1, TransmitIs
  <2> QED  BY <1>10, <1>18, <2>2 DEF SentToo
<1>22. ASSUME NEW i \in 1..n
       PROVE  /\ v.segs[i].seq = w.segs[i].seq /\ v.segs[i].len = w.segs[i].len /\ v.segs[i].pos = w.segs[i].pos
              /\ v.segs[i].acked <=> w.segs[i].acked
              /\ v.segs[i].sent <=> i = k \/ w.segs[i].sent
              /\ w.segs[i].sent <=> i <= m
              /\ w.segs[i].acked => i <= m
              /\ v.segs[i].sent <=> i <= k
  <2>1. Alike(w.segs[i], v.segs[i]) /\ (v.segs[i].sent <=> i = k \/ w.segs[i].sent)
    BY <1>21 DEF SentToo
  <2>2. (w.segs[i].sent <=> i <= m) /\ (w.segs[i].acked => i <= m)
    BY <1>2 DEF Marked
  <2>3. i <= k <=> i = k \/ i <= m
    BY <1>4, <1>9
  <2> QED  BY <2>1, <2>2, <2>3 DEF Alike
<1>23. Counted(v, n, k)
  <2>1. n - k = Len(w.txq) - 1
    BY <1>3, <1>4, <1>9
  <2> QED  BY <1>3, <1>7, <1>8, <1>9, <1>21, <2>1 DEF Counted
<1>24. Marked(v, n, k)
  <2>1. ASSUME NEW i \in 1..n, v.segs[i].acked PROVE i <= k
    BY <1>4, <1>9, <1>22, <2>1
  <2> QED  BY <1>22, <2>1 DEF Marked
<1>25. Ranged(v, o, n, k)
  <2>1. v.cur = w.cur /\ v.highest = high /\ v.next = w.next
    BY <1>21
  <2> QED  BY <1>2, <1>14, <2>1 DEF Ranged
<1>26. Placed(v, o, n)
  <2>1. \A i \in 1..n : v.segs[i].seq = w.segs[i].seq /\ v.segs[i].len = w.segs[i].len /\ v.segs[i].pos = w.segs[i].pos
    BY <1>22
  <2> QED  BY <1>2, <2>1 DEF Placed
<1>27. Queued(v, n, k)
  <2>1. ASSUME NEW j \in 1..n - k PROVE v.txq[j] = v.segs[k + j].seq
    <3>1. j \in 1..(n - m) - 1 /\ j + 1 \in 1..n - m /\ k + j = m + (j + 1) /\ k + j \in 1..n
      <4>1. n \in Nat /\ m \in Nat /\ k = m + 1
        BY <1>4, <1>9
      <4> QED  BY <4>1
    <3>2. w.txq[j + 1] = w.segs[m + (j + 1)].seq
      BY <1>2, <3>1 DEF Queued
    <3>3. v.txq[j] = w.txq[j + 1]
      BY <1>3, <1>7, <1>21, <3>1
    <3>4. v.segs[k + j].seq = w.segs[k + j].seq
      BY <1>22, <3>1
    <3> QED  BY <3>1, <3>2, <3>3, <3>4
  <2> QED  BY <2>1 DEF Queued
<1>28. Headed(v, n, k)
  <2>1. ASSUME head # None PROVE n > k /\ head = w.segs[n].seq /\ w.segs[n].len < MSS
    <3>1. head = w.head /\ w.head # s.seq
      BY <1>15, <2>1
    <3>2. w.head = w.segs[n].seq /\ w.segs[n].len < MSS
      BY <1>2, <2>1, <3>1 DEF Headed
    <3>3. n # k
      BY <1>10, <3>1, <3>2
    <3> QED  BY <1>4, <1>10, <3>1, <3>2, <3>3
  <2>2. n \in 1..n
    BY <1>4, <1>10
  <2>3. v.segs[n].seq = w.segs[n].seq /\ v.segs[n].len = w.segs[n].len
    BY <1>22, <2>2
  <2>4. v.head = head
    BY <1>21
  <2> QED  BY <2>1, <2>3, <2>4 DEF Headed
<1>29. Due(v) = Due(w) \cup {s.seq}
  <2>1. /\ Due(w) = {w.segs[i].seq : i \in {j \in 1..n : w.segs[j].sent /\ ~w.segs[j].acked}}
        /\ Due(v) = {v.segs[i].seq : i \in {j \in 1..n : v.segs[j].sent /\ ~v.segs[j].acked}}
    BY <1>3, <1>21 DEF Due
  <2>2. ~w.segs[k].acked
    <3>1. ~(k <= m)
      BY <1>4, <1>9
    <3> QED  BY <1>10, <1>22, <3>1
  <2>3. {j \in 1..n : v.segs[j].sent /\ ~v.segs[j].acked} = {j \in 1..n : w.segs[j].sent /\ ~w.segs[j].acked} \cup {k}
    BY <1>10, <1>22, <2>2
  <2>4. \A i \in 1..n : v.segs[i].seq = w.segs[i].seq
    BY <1>22
  <2>5. PICK D : D = {j \in 1..n : w.segs[j].sent /\ ~w.segs[j].acked} /\ D \subseteq 1..n
    OBVIOUS
  <2>6. Due(w) = {w.segs[i].seq : i \in D} /\ Due(v) = {v.segs[i].seq : i \in D \cup {k}}
    BY <2>1, <2>3, <2>5
  <2>7. Due(v) = {w.segs[i].seq : i \in D \cup {k}}
    BY <1>10, <2>4, <2>5, <2>6
  <2> QED  BY <1>10, <2>6, <2>7
<1>30. Going(v) = Going(w) \cup {<<Off(w.highest), s.len>>}
  <2>1. /\ Going(w) = {<<Off(w.segs[i].seq), w.segs[i].len>> : i \in {j \in 1..n : w.segs[j].sent}}
        /\ Going(v) = {<<Off(v.segs[i].seq), v.segs[i].len>> : i \in {j \in 1..n : v.segs[j].sent}}
    BY <1>3, <1>21 DEF Going
  <2>2. \A i \in 1..n : <<Off(v.segs[i].seq), v.segs[i].len>> = <<Off(w.segs[i].seq), w.segs[i].len>>
    BY <1>22
  <2>3. {j \in 1..n : v.segs[j].sent} = {j \in 1..n : w.segs[j].sent} \cup {k}
    BY <1>10, <1>22
  <2>4. <<Off(w.highest), s.len>> = <<Off(w.segs[k].seq), w.segs[k].len>>
    BY <1>10, <1>12
  <2>5. PICK D : D = {j \in 1..n : w.segs[j].sent} /\ D \subseteq 1..n
    OBVIOUS
  <2>6. /\ Going(w) = {<<Off(w.segs[i].seq), w.segs[i].len>> : i \in D}
        /\ Going(v) = {<<Off(v.segs[i].seq), v.segs[i].len>> : i \in D \cup {k}}
    BY <2>1, <2>3, <2>5
  <2>7. Going(v) = {<<Off(w.segs[i].seq), w.segs[i].len>> : i \in D \cup {k}}
    BY <1>10, <2>2, <2>5, <2>6
  <2>8. Going(v) = Going(w) \cup {<<Off(w.segs[k].seq), w.segs[k].len>>}
    BY <2>6, <2>7
  <2> QED  BY <2>4, <2>8
<1>31. Waiting(v)
  <2>1. s.seq \notin Due(w)
    <3>1. ASSUME NEW i \in 1..n, w.segs[i].sent, w.segs[i].seq = s.seq PROVE FALSE
      <4>1. i = k
        BY <1>10, <1>20, <3>1 DEF OneEach
      <4>2. ~(k <= m)
        BY <1>4, <1>9
      <4> QED  BY <1>22, <3>1, <4>1, <4>2
    <3> QED  BY <1>3, <3>1 DEF Due
  <2>2. /\ Elements(w.prio) \cup Elements(w.wait) = Due(w) /\ Elements(w.prio) \cap Elements(w.wait) = {}
        /\ Once(w.prio) /\ Once(w.wait)
    BY <1>2 DEF Waiting
  <2>3. Elements(v.wait) = Elements(w.wait) \cup {s.seq} /\ Once(v.wait) /\ v.prio = w.prio
    <3>1. s.seq \notin Elements(w.wait)
      BY <2>1, <2>2
    <3>2. v.wait = Append(w.wait, s.seq) /\ v.prio = w.prio
      BY <1>21
    <3>3. PICK q0, x : q0 = w.wait /\ x = s.seq
      OBVIOUS
    <3>4. q0 \in Seq(Number) /\ x \in Number
      BY <1>5, <1>11, <3>3
    <3>5. Elements(Append(q0, x)) = Elements(q0) \cup {x} /\ (Once(q0) /\ x \notin Elements(q0) => Once(Append(q0, x)))
      BY <3>4, AppendIs
    <3> QED  BY <2>2, <3>1, <3>2, <3>3, <3>5
  <2> QED  BY <1>29, <2>1, <2>2, <2>3 DEF Waiting
<1>32. WindowInv(v)
  BY <1>23, <1>24, <1>25, <1>26, <1>27, <1>28, <1>31 DEF Laid, WindowInv
<1>33. Sends(w, v, s.seq)
  <2>1. v.segs[k].seq = s.seq /\ v.segs[k].sent
    BY <1>10, <1>22
  <2>2. Off(v.highest) = Off(w.highest) + s.len
    BY <1>12, <1>14, <1>21
  <2>3. \E i \in 1..Len(v.segs) : v.segs[i].seq = s.seq /\ v.segs[i].sent
    BY <1>10, <1>21, <2>1
  <2>4. v.cur = w.cur /\ v.next = w.next
    BY <1>21
  <2> QED  BY <1>11, <1>30, <2>2, <2>3, <2>4 DEF Sends
<1> QED  BY <1>32, <1>33

\* ulTCPWindowTxGet.
LEMMA TxGetIs ==
  ASSUME Unambiguous, NEW w, WindowInv(w), NEW window, NEW due,
         NEW get, get = TxGet(w, window, due), get.seq # None
  PROVE  WindowInv(get.w) /\ Sends(w, get.w, get.seq)
<1>1. CASE w.prio # <<>>
  <2>1. get.seq = Head(w.prio) /\ get.w = AfterUrgent(w)
    BY <1>1 DEF TxGet, AfterUrgent
  <2> QED  BY <1>1, <2>1, SendPrio
<1>2. CASE w.prio = <<>> /\ w.wait # <<>> /\ due
  <2>1. PICK k : k = Index(w, Head(w.wait))
    OBVIOUS
  <2>2. get.seq = Head(w.wait) /\ get.w = AfterOldest(w, k)
    BY <1>2, <2>1 DEF TxGet, AfterOldest
  <2> QED  BY <1>2, <2>1, <2>2, SendWaiting
<1>3. CASE w.prio = <<>> /\ ~(w.wait # <<>> /\ due) /\ TxHasSpace(w, window)
  <2>1. PICK s : s = Segment(w, Head(w.txq))
    OBVIOUS
  <2>2. get.seq = s.seq /\ get.w = AfterFirst(w, s)
    BY <1>3, <2>1 DEF TxGet, AfterFirst
  <2>3. w.txq # <<>>
    BY <1>3 DEF TxHasSpace
  <2> QED  BY <2>1, <2>2, <2>3, SendFirst
<1>4. CASE w.prio = <<>> /\ ~(w.wait # <<>> /\ due) /\ ~TxHasSpace(w, window)
  BY <1>4 DEF TxGet
<1> QED  BY <1>1, <1>2, <1>3, <1>4

-----------------------------------------------------------------------------
(* Acknowledgements.  When i segments of a window w have been looked at, c  *)
(* are gone, and A are those that need no acknowledgement any more.         *)

AckSet == [w : WindowSet, segs : Seq(SegmentSet), at : Number, confirmed : Nat, done : BOOLEAN]

AckBase(a, w) ==
  /\ a.w.segs = w.segs /\ a.w.txq = w.txq /\ a.w.head = w.head
  /\ a.w.highest = w.highest /\ a.w.next = w.next

AckCount(a, o, m, i, c, A) ==
  /\ c \in 0..i /\ c \in 0..m /\ A \subseteq 1..m /\ 1..c \subseteq A
  /\ Off(a.w.cur) = o[c + 1] /\ a.confirmed = o[c + 1] - o[1] /\ Off(a.at) <= Total

Similar(s, t) == t.seq = s.seq /\ t.len = s.len /\ t.pos = s.pos /\ (t.sent <=> s.sent)

AckKept(a, w, i, c, A) ==
  /\ Len(a.segs) = i - c
  /\ \A j \in 1..i - c : Similar(w.segs[c + j], a.segs[j]) /\ (a.segs[j].acked <=> c + j \in A)

AckAhead(w, n, i, A) == \A k \in i + 1..n : w.segs[k].acked <=> k \in A

NumbersOf(w, K) == {w.segs[k].seq : k \in K}

AckQueues(v, w, m, A) ==
  /\ Elements(v.prio) \cup Elements(v.wait) = NumbersOf(w, (1..m) \ A)
  /\ Elements(v.prio) \cap Elements(v.wait) = {}
  /\ Once(v.prio) /\ Once(v.wait)

AckParts(a, w, o, n, m, i, c, A) ==
  /\ AckBase(a, w) /\ AckCount(a, o, m, i, c, A) /\ AckKept(a, w, i, c, A) /\ AckAhead(w, n, i, A)
  /\ AckQueues(a.w, w, m, A)

Acking(a, w, o, n, m, i) == a \in AckSet /\ \E c, A : AckParts(a, w, o, n, m, i, c, A)

\* A segment is kept as it is.
LEMMA AckKeep ==
  ASSUME NEW w, NEW o, NEW n, NEW m, Laid(w, o, n, m), NEW i \in 1..n,
         NEW a, Acking(a, w, o, n, m, i - 1), NEW s, s = w.segs[i], NEW done \in BOOLEAN,
         NEW b, b = [a EXCEPT !.segs = Append(@, s), !.done = done]
  PROVE  Acking(b, w, o, n, m, i)
<1>1. PICK c, A : AckParts(a, w, o, n, m, i - 1, c, A)
  BY DEF Acking
<1>2. /\ AckBase(a, w) /\ AckCount(a, o, m, i - 1, c, A) /\ AckKept(a, w, i - 1, c, A) /\ AckAhead(w, n, i - 1, A)
      /\ AckQueues(a.w, w, m, A)
  BY <1>1 DEF AckParts
<1>3. a \in AckSet /\ s \in SegmentSet /\ n \in Nat /\ m \in Nat
  BY Ordered DEF Acking
<1>4. a.segs \in Seq(SegmentSet)
  BY <1>3 DEF AckSet
<1>5. PICK segs : segs = Append(a.segs, s)
  OBVIOUS
<1>6. /\ segs \in Seq(SegmentSet) /\ Len(segs) = Len(a.segs) + 1 /\ segs[Len(a.segs) + 1] = s
      /\ \A j \in 1..Len(a.segs) : segs[j] = a.segs[j]
  BY <1>3, <1>4, <1>5, AppendProperties
<1>7. b \in AckSet /\ b.segs = segs /\ b.w = a.w /\ b.at = a.at /\ b.confirmed = a.confirmed
  <2>1. b = [a EXCEPT !.segs = segs, !.done = done]
    BY <1>5
  <2> QED  BY <1>3, <1>6, <2>1 DEF AckSet
<1>8. c \in 0..i - 1 /\ c \in Nat /\ i \in Nat
  BY <1>2 DEF AckCount
<1>9. AckBase(b, w) /\ AckQueues(b.w, w, m, A)
  BY <1>2, <1>7 DEF AckBase
<1>10. AckCount(b, o, m, i, c, A)
  BY <1>2, <1>7, <1>8 DEF AckCount
<1>11. AckKept(b, w, i, c, A)
  <2>1. Len(a.segs) = (i - 1) - c
    BY <1>2 DEF AckKept
  <2>2. Len(a.segs) + 1 = i - c /\ c + (i - c) = i
    BY <1>8, <2>1
  <2>3. \A j \in 1..i - c : j \in 1..(i - 1) - c \/ j = i - c
    BY <1>8
  <2>4. s.acked <=> i \in A
    <3>1. i \in (i - 1) + 1..n
      BY <1>3
    <3> QED  BY <1>2, <3>1 DEF AckAhead
  <2>5. ASSUME NEW j \in 1..i - c
        PROVE  Similar(w.segs[c + j], b.segs[j]) /\ (b.segs[j].acked <=> c + j \in A)
    <3>1. CASE j \in 1..(i - 1) - c
      <4>1. b.segs[j] = a.segs[j]
        BY <1>6, <1>7, <2>1, <3>1
      <4>2. Similar(w.segs[c + j], a.segs[j]) /\ (a.segs[j].acked <=> c + j \in A)
        BY <1>2, <3>1 DEF AckKept
      <4> QED  BY <4>1, <4>2
    <3>2. CASE j = i - c
      <4>1. b.segs[j] = s /\ c + j = i
        BY <1>6, <1>7, <2>2, <3>2
      <4> QED  BY <2>4, <4>1 DEF Similar
    <3> QED  BY <2>3, <3>1, <3>2
  <2> QED  BY <1>6, <1>7, <2>2, <2>5 DEF AckKept
<1>12. AckAhead(w, n, i, A)
  <2>1. \A k \in i + 1..n : k \in (i - 1) + 1..n
    BY <1>3
  <2> QED  BY <1>2, <2>1 DEF AckAhead
<1> QED  BY <1>7, <1>9, <1>10, <1>11, <1>12 DEF Acking, AckParts

\* A segment that is acknowledged leaves the queues.
Unlinked(v, u, w, m, A) ==
  /\ u \in WindowSet /\ u.segs = v.segs /\ u.txq = v.txq /\ u.head = v.head /\ u.cur = v.cur
  /\ u.highest = v.highest /\ u.next = v.next /\ AckQueues(u, w, m, A)

LEMMA UnlinkIs ==
  ASSUME NEW w, NEW o, NEW n, NEW m, Laid(w, o, n, m), NEW i \in 1..m,
         NEW v \in WindowSet, v.txq = w.txq, NEW A, AckQueues(v, w, m, A),
         NEW seq, seq = w.segs[i].seq, NEW u, u = Unlink(v, seq)
  PROVE  Unlinked(v, u, w, m, A \cup {i})
<1>1. seq = w.segs[i].seq
  OBVIOUS
<1>2. n \in Nat /\ m \in Nat /\ m <= n /\ \A j, k \in 1..n : w.segs[j].seq = w.segs[k].seq => j = k
  BY Ordered
<1>3. v.prio \in Seq(Number) /\ v.txq \in Seq(Number) /\ v.wait \in Seq(Number)
  BY WindowFields
<1>4. PICK prio : prio = Without(v.prio, {seq})
  OBVIOUS
<1>5. PICK wait : wait = Without(v.wait, {seq})
  OBVIOUS
<1>6. PICK txq : txq = Without(v.txq, {seq})
  OBVIOUS
<1>7. prio \in Seq(Number) /\ Elements(prio) = Elements(v.prio) \ {seq} /\ (Once(v.prio) => Once(prio))
  BY <1>3, <1>4, WithoutIs
<1>8. wait \in Seq(Number) /\ Elements(wait) = Elements(v.wait) \ {seq} /\ (Once(v.wait) => Once(wait))
  BY <1>3, <1>5, WithoutIs
<1>9. txq = v.txq
  <2>1. Len(w.txq) = n - m
    BY DEF Laid, Counted
  <2>2. ASSUME NEW j \in 1..n - m, w.txq[j] = seq PROVE FALSE
    <3>1. w.txq[j] = w.segs[m + j].seq
      BY DEF Laid, Queued
    <3>2. m + j \in 1..n /\ i \in 1..n /\ m + j # i
      BY <1>2
    <3> QED  BY <1>1, <1>2, <2>2, <3>1, <3>2
  <2>3. Elements(v.txq) \cap {seq} = {}
    BY <2>1, <2>2 DEF Elements
  <2> QED  BY <1>3, <1>6, <2>3, WithoutIs
<1>10. u = [v EXCEPT !.prio = prio, !.txq = txq, !.wait = wait]
  BY <1>1, <1>4, <1>5, <1>6 DEF Unlink
<1>11. /\ u \in WindowSet /\ u.segs = v.segs /\ u.txq = v.txq /\ u.head = v.head /\ u.cur = v.cur
       /\ u.highest = v.highest /\ u.next = v.next /\ u.txWin = v.txWin /\ u.prio = prio /\ u.wait = wait
  BY <1>3, <1>7, <1>8, <1>9, <1>10 DEF WindowSet
<1>12. NumbersOf(w, (1..m) \ (A \cup {i})) = NumbersOf(w, (1..m) \ A) \ {seq}
  <2>1. \A k \in 1..m : k \in 1..n
    BY <1>2
  <2>2. \A k \in 1..m : w.segs[k].seq = seq <=> k = i
    BY <1>1, <1>2, <2>1
  <2> QED  BY <2>2 DEF NumbersOf
<1>13. /\ Elements(v.prio) \cup Elements(v.wait) = NumbersOf(w, (1..m) \ A)
       /\ Elements(v.prio) \cap Elements(v.wait) = {}
       /\ Once(v.prio) /\ Once(v.wait)
  BY DEF AckQueues
<1>14. AckQueues(u, w, m, A \cup {i})
  BY <1>7, <1>8, <1>11, <1>12, <1>13 DEF AckQueues
<1> QED  BY <1>11, <1>14 DEF Unlinked

\* The first segment is gone; a later one is marked.
FirstGone(a, u, len, end) == [a EXCEPT !.w = [u EXCEPT !.cur = end], !.confirmed = @ + len, !.at = end]

LaterMarked(a, u, s, end) ==
  [a EXCEPT !.w = u, !.segs = Append(@, [s EXCEPT !.acked = TRUE]), !.at = end]

\* The first segment is acknowledged, and gone.
LEMMA AckFirst ==
  ASSUME Unambiguous, NEW w, NEW o, NEW n, NEW m, Laid(w, o, n, m), NEW i \in 1..m,
         NEW a, Acking(a, w, o, n, m, i - 1), NEW s, s = w.segs[i], s.seq = a.w.cur,
         NEW u, u = Unlink(a.w, s.seq), NEW end, end = Plus(s.seq, s.len),
         NEW b, b = FirstGone(a, u, s.len, end)
  PROVE  Acking(b, w, o, n, m, i)
<1>1. PICK c, A : AckParts(a, w, o, n, m, i - 1, c, A)
  BY DEF Acking
<1>2. /\ AckBase(a, w) /\ AckCount(a, o, m, i - 1, c, A) /\ AckKept(a, w, i - 1, c, A) /\ AckAhead(w, n, i - 1, A)
      /\ AckQueues(a.w, w, m, A)
  BY <1>1 DEF AckParts
<1>3. /\ n \in Nat /\ m \in Nat /\ m <= n /\ i \in 1..n
      /\ \A j, k \in 1..n + 1 : j < k => o[j] < o[k]
      /\ \A j \in 1..n + 1 : o[j] \in 0..Total
  BY Ordered
<1>4. a \in AckSet /\ s \in SegmentSet /\ s.seq \in Number /\ s.len \in 1..MSS
  <2>1. s \in SegmentSet
    BY <1>3, Ordered
  <2> QED  BY <2>1, SegmentFields DEF Acking
<1>5. a.w \in WindowSet /\ a.confirmed \in Nat
  BY <1>4 DEF AckSet
<1>6. c \in 0..i - 1 /\ c \in 0..m /\ c \in Nat /\ A \subseteq 1..m /\ 1..c \subseteq A
      /\ Off(a.w.cur) = o[c + 1] /\ a.confirmed = o[c + 1] - o[1]
  BY <1>2 DEF AckCount
<1>7. o[i] = Off(s.seq) /\ o[i + 1] = o[i] + s.len
  BY <1>3 DEF Laid, Placed
<1>8. c = i - 1
  <2>1. i \in 1..n + 1 /\ c + 1 \in 1..n + 1
    BY <1>3, <1>6
  <2>2. o[i] = o[c + 1] /\ o[i] \in Nat
    BY <1>3, <1>6, <1>7, <2>1
  <2>3. ~(c + 1 < i)
    BY <1>3, <2>1, <2>2
  <2> QED  BY <1>6, <2>3
<1>9. i \in 1..n + 1 /\ i + 1 \in 1..n + 1 /\ 1 \in 1..n + 1
  BY <1>3
<1>10. o[i] \in 0..Total /\ o[i + 1] \in 0..Total /\ o[1] \in 0..Total
  BY <1>3, <1>9
<1>11. end \in Number /\ Off(end) = o[i + 1]
  <2>1. s.len \in Nat /\ Off(s.seq) + s.len <= Total
    BY <1>4, <1>7, <1>10, WindowConstants
  <2> QED  BY <1>4, <1>7, <2>1, NumberSum
<1>12. /\ u \in WindowSet /\ u.segs = w.segs /\ u.txq = w.txq /\ u.head = w.head
       /\ u.highest = w.highest /\ u.next = w.next
       /\ AckQueues(u, w, m, A \cup {i})
  <2>1. a.w.segs = w.segs /\ a.w.txq = w.txq /\ a.w.head = w.head /\ a.w.highest = w.highest /\ a.w.next = w.next
    BY <1>2 DEF AckBase
  <2>2. PICK v0 : v0 = a.w
    OBVIOUS
  <2>3. u = Unlink(v0, s.seq) /\ s.seq = w.segs[i].seq /\ v0 \in WindowSet /\ v0.txq = w.txq /\ AckQueues(v0, w, m, A)
    BY <1>2, <1>5, <2>1, <2>2
  <2>4. PICK seq : seq = s.seq /\ seq = w.segs[i].seq /\ u = Unlink(v0, seq)
    BY <2>3
  <2>5. Unlinked(v0, u, w, m, A \cup {i})
    BY <2>3, <2>4, UnlinkIs
  <2> QED  BY <2>1, <2>2, <2>5 DEF Unlinked
<1>13. PICK v : v = [u EXCEPT !.cur = end]
  OBVIOUS
<1>14. /\ v \in WindowSet /\ v.segs = w.segs /\ v.txq = w.txq /\ v.head = w.head
       /\ v.highest = w.highest /\ v.next = w.next /\ v.cur = end /\ v.prio = u.prio /\ v.wait = u.wait
  BY <1>11, <1>12, <1>13 DEF WindowSet
<1>15. PICK confirmed \in Nat : confirmed = a.confirmed + s.len
  BY <1>4, <1>5, WindowConstants
<1>16. /\ b \in AckSet /\ b.w = v /\ b.at = end /\ b.confirmed = confirmed /\ b.segs = a.segs
  <2>1. b = [a EXCEPT !.w = v, !.confirmed = confirmed, !.at = end]
    BY <1>13, <1>15 DEF FirstGone
  <2> QED  BY <1>4, <1>11, <1>14, <1>15, <2>1 DEF AckSet
<1>17. AckBase(b, w)
  BY <1>14, <1>16 DEF AckBase
<1>18. AckQueues(b.w, w, m, A \cup {i})
  BY <1>12, <1>14, <1>16 DEF AckQueues
<1>19. AckCount(b, o, m, i, i, A \cup {i})
  <2>1. 1..i = 1..c \cup {i} /\ i \in 0..i /\ i \in 0..m
    BY <1>6, <1>8
  <2>2. A \cup {i} \subseteq 1..m /\ 1..i \subseteq A \cup {i}
    BY <1>6, <2>1
  <2>3. confirmed = o[i + 1] - o[1]
    <3>1. a.confirmed = o[i] - o[1]
      BY <1>6, <1>8
    <3> QED  BY <1>4, <1>7, <1>10, <1>15, <3>1, WindowConstants
  <2>4. Off(end) <= Total
    BY <1>10, <1>11, WindowConstants
  <2> QED  BY <1>11, <1>14, <1>16, <2>1, <2>2, <2>3, <2>4 DEF AckCount
<1>20. AckKept(b, w, i, i, A \cup {i})
  <2>1. Len(a.segs) = (i - 1) - c
    BY <1>2 DEF AckKept
  <2>2. Len(b.segs) = i - i /\ 1..i - i = {}
    BY <1>6, <1>8, <1>16, <2>1
  <2> QED  BY <2>2 DEF AckKept
<1>21. AckAhead(w, n, i, A \cup {i})
  <2>1. \A k \in i + 1..n : k \in (i - 1) + 1..n /\ k # i
    BY <1>3
  <2> QED  BY <1>2, <2>1 DEF AckAhead
<1> QED  BY <1>16, <1>17, <1>18, <1>19, <1>20, <1>21 DEF Acking, AckParts

\* A segment behind the first one is acknowledged, and marked.
LEMMA AckLater ==
  ASSUME Unambiguous, NEW w, NEW o, NEW n, NEW m, Laid(w, o, n, m), NEW i \in 1..m,
         NEW a, Acking(a, w, o, n, m, i - 1), NEW s, s = w.segs[i],
         NEW u, u = Unlink(a.w, s.seq), NEW end, end = Plus(s.seq, s.len),
         NEW b, b = LaterMarked(a, u, s, end)
  PROVE  Acking(b, w, o, n, m, i)
<1>1. PICK c, A : AckParts(a, w, o, n, m, i - 1, c, A)
  BY DEF Acking
<1>2. /\ AckBase(a, w) /\ AckCount(a, o, m, i - 1, c, A) /\ AckKept(a, w, i - 1, c, A) /\ AckAhead(w, n, i - 1, A)
      /\ AckQueues(a.w, w, m, A)
  BY <1>1 DEF AckParts
<1>3. /\ n \in Nat /\ m \in Nat /\ m <= n /\ i \in 1..n
      /\ \A j, k \in 1..n + 1 : j < k => o[j] < o[k]
      /\ \A j \in 1..n + 1 : o[j] \in 0..Total
  BY Ordered
<1>4. a \in AckSet /\ s \in SegmentSet /\ s.seq \in Number /\ s.len \in 1..MSS
  <2>1. s \in SegmentSet
    BY <1>3, Ordered
  <2> QED  BY <2>1, SegmentFields DEF Acking
<1>5. a.w \in WindowSet /\ a.segs \in Seq(SegmentSet)
  BY <1>4 DEF AckSet
<1>6. c \in 0..i - 1 /\ c \in 0..m /\ c \in Nat /\ A \subseteq 1..m /\ 1..c \subseteq A
      /\ Off(a.w.cur) = o[c + 1] /\ a.confirmed = o[c + 1] - o[1]
  BY <1>2 DEF AckCount
<1>7. o[i] = Off(s.seq) /\ o[i + 1] = o[i] + s.len
  BY <1>3 DEF Laid, Placed
<1>9. i \in 1..n + 1 /\ i + 1 \in 1..n + 1
  BY <1>3
<1>10. o[i] \in 0..Total /\ o[i + 1] \in 0..Total
  BY <1>3, <1>9
<1>11. end \in Number /\ Off(end) = o[i + 1]
  <2>1. s.len \in Nat /\ Off(s.seq) + s.len <= Total
    BY <1>4, <1>7, <1>10, WindowConstants
  <2> QED  BY <1>4, <1>7, <2>1, NumberSum
<1>12. /\ u \in WindowSet /\ u.segs = w.segs /\ u.txq = w.txq /\ u.head = w.head /\ u.cur = a.w.cur
       /\ u.highest = w.highest /\ u.next = w.next
       /\ AckQueues(u, w, m, A \cup {i})
  <2>1. a.w.segs = w.segs /\ a.w.txq = w.txq /\ a.w.head = w.head /\ a.w.highest = w.highest /\ a.w.next = w.next
    BY <1>2 DEF AckBase
  <2>2. PICK v0 : v0 = a.w
    OBVIOUS
  <2>3. u = Unlink(v0, s.seq) /\ s.seq = w.segs[i].seq /\ v0 \in WindowSet /\ v0.txq = w.txq /\ AckQueues(v0, w, m, A)
    BY <1>2, <1>5, <2>1, <2>2
  <2>4. PICK seq : seq = s.seq /\ seq = w.segs[i].seq /\ u = Unlink(v0, seq)
    BY <2>3
  <2>5. Unlinked(v0, u, w, m, A \cup {i})
    BY <2>3, <2>4, UnlinkIs
  <2> QED  BY <2>1, <2>2, <2>5 DEF Unlinked
<1>13. PICK t : t = [s EXCEPT !.acked = TRUE]
  OBVIOUS
<1>14. t \in SegmentSet /\ Similar(s, t) /\ t.acked
  BY <1>4, <1>13 DEF SegmentSet, Similar
<1>15. PICK segs : segs = Append(a.segs, t)
  OBVIOUS
<1>16. /\ segs \in Seq(SegmentSet) /\ Len(segs) = Len(a.segs) + 1 /\ segs[Len(a.segs) + 1] = t
       /\ \A j \in 1..Len(a.segs) : segs[j] = a.segs[j]
  BY <1>5, <1>14, <1>15, AppendProperties
<1>17. /\ b \in AckSet /\ b.w = u /\ b.at = end /\ b.confirmed = a.confirmed /\ b.segs = segs
  <2>1. b = [a EXCEPT !.w = u, !.segs = segs, !.at = end]
    BY <1>13, <1>15 DEF LaterMarked
  <2> QED  BY <1>4, <1>11, <1>12, <1>16, <2>1 DEF AckSet
<1>18. AckBase(b, w) /\ AckQueues(b.w, w, m, A \cup {i})
  BY <1>12, <1>17 DEF AckBase
<1>19. AckCount(b, o, m, i, c, A \cup {i})
  <2>1. c \in 0..i /\ A \cup {i} \subseteq 1..m /\ 1..c \subseteq A \cup {i}
    <3>1. c \in 0..i
      BY <1>6
    <3> QED  BY <1>6, <3>1
  <2>2. Off(end) <= Total
    BY <1>10, <1>11, WindowConstants
  <2> QED  BY <1>6, <1>12, <1>17, <2>1, <2>2 DEF AckCount
<1>20. AckKept(b, w, i, c, A \cup {i})
  <2>1. Len(a.segs) = (i - 1) - c
    BY <1>2 DEF AckKept
  <2>2. Len(a.segs) + 1 = i - c /\ c + (i - c) = i
    BY <1>6, <2>1
  <2>3. \A j \in 1..i - c : j \in 1..(i - 1) - c \/ j = i - c
    BY <1>6
  <2>5. ASSUME NEW j \in 1..i - c
        PROVE  Similar(w.segs[c + j], b.segs[j]) /\ (b.segs[j].acked <=> c + j \in A \cup {i})
    <3>1. CASE j \in 1..(i - 1) - c
      <4>1. b.segs[j] = a.segs[j]
        BY <1>16, <1>17, <2>1, <3>1
      <4>2. Similar(w.segs[c + j], a.segs[j]) /\ (a.segs[j].acked <=> c + j \in A)
        BY <1>2, <3>1 DEF AckKept
      <4>3. c + j # i
        BY <1>6, <3>1
      <4> QED  BY <4>1, <4>2, <4>3
    <3>2. CASE j = i - c
      <4>1. b.segs[j] = t /\ c + j = i
        BY <1>16, <1>17, <2>2, <3>2
      <4> QED  BY <1>14, <4>1
    <3> QED  BY <2>3, <3>1, <3>2
  <2> QED  BY <1>16, <1>17, <2>2, <2>5 DEF AckKept
<1>21. AckAhead(w, n, i, A \cup {i})
  <2>1. \A k \in i + 1..n : k \in (i - 1) + 1..n /\ k # i
    BY <1>3
  <2> QED  BY <1>2, <2>1 DEF AckAhead
<1> QED  BY <1>17, <1>18, <1>19, <1>20, <1>21 DEF Acking, AckParts
\* One round of the loop.
LEMMA AckingOn ==
  ASSUME Unambiguous, NEW w, NEW o, NEW n, NEW m, Laid(w, o, n, m), NEW i \in 1..n,
         NEW last \in Number, Off(last) <= Off(w.highest),
         NEW a, Acking(a, w, o, n, m, i - 1), NEW s, s = w.segs[i]
  PROVE  Acking(CheckSegment(a, s, last), w, o, n, m, i)
<1>1. /\ n \in Nat /\ m \in Nat /\ m <= n
      /\ \A j, k \in 1..n + 1 : j < k => o[j] < o[k]
      /\ \A j \in 1..n + 1 : o[j] \in 0..Total
      /\ s \in SegmentSet /\ s.seq \in Number /\ s.len \in 1..MSS
  BY Ordered
<1>2. a \in AckSet
  BY DEF Acking
<1>3. PICK end : end = Plus(s.seq, s.len)
  OBVIOUS
<1>4. PICK u : u = Unlink(a.w, s.seq)
  OBVIOUS
<1>5. PICK keep : keep = [a EXCEPT !.segs = Append(@, s)]
  OBVIOUS
<1>6. Acking(keep, w, o, n, m, i)
  <2>1. a.done \in BOOLEAN /\ a = [a EXCEPT !.done = a.done]
    BY <1>2 DEF AckSet
  <2>2. keep = [a EXCEPT !.segs = Append(@, s), !.done = a.done]
    BY <1>2, <1>5 DEF AckSet
  <2> QED  BY <2>1, <2>2, AckKeep
<1>7. Acking([keep EXCEPT !.done = TRUE], w, o, n, m, i)
  <2>1. PICK b : b = [keep EXCEPT !.done = TRUE]
    OBVIOUS
  <2>2. b = [a EXCEPT !.segs = Append(@, s), !.done = TRUE]
    BY <1>5, <2>1
  <2>3. Acking(b, w, o, n, m, i)
    BY <2>2, AckKeep
  <2> QED  BY <2>1, <2>3
<1>8. CASE a.done \/ GreaterThan(a.at, s.seq)
  BY <1>5, <1>6, <1>8 DEF CheckSegment
<1>9. CASE /\ ~(a.done \/ GreaterThan(a.at, s.seq))
           /\ ~LessThan(a.at, last) \/ a.at # s.seq \/ (~s.acked /\ GreaterThan(end, last))
  BY <1>3, <1>5, <1>7, <1>9 DEF CheckSegment
<1>10. CASE /\ ~(a.done \/ GreaterThan(a.at, s.seq))
            /\ ~(~LessThan(a.at, last) \/ a.at # s.seq \/ (~s.acked /\ GreaterThan(end, last)))
  <2>1. i \in 1..m
    <3>1. LessThan(s.seq, last)
      BY <1>10
    <3>2. o[i] = Off(s.seq) /\ o[m + 1] = Off(w.highest)
      BY DEF Laid, Placed, Ranged
    <3>3. i \in 1..n + 1 /\ m + 1 \in 1..n + 1
      BY <1>1
    <3>4. o[i] \in 0..Total /\ o[m + 1] \in 0..Total
      BY <1>1, <3>3
    <3>5. Off(last) \in Nat
      BY OffType, WindowConstants
    <3>6. Off(s.seq) < Off(last)
      BY <1>1, <3>1, <3>2, <3>4, <3>5, Comparisons, WindowConstants
    <3>7. o[i] < o[m + 1]
      BY <3>2, <3>4, <3>5, <3>6, WindowConstants
    <3>8. ~(m + 1 < i) /\ i # m + 1
      BY <1>1, <3>3, <3>4, <3>7
    <3> QED  BY <1>1, <3>8
  <2>2. CASE s.seq = a.w.cur
    <3>1. CheckSegment(a, s, last) = FirstGone(a, u, s.len, end)
      BY <1>3, <1>4, <1>8, <1>10, <2>2 DEF CheckSegment, FirstGone
    <3>2. PICK b : b = FirstGone(a, u, s.len, end)
      OBVIOUS
    <3>3. Acking(b, w, o, n, m, i)
      BY <1>3, <1>4, <2>1, <2>2, <3>2, AckFirst
    <3> QED  BY <3>1, <3>2, <3>3
  <2>3. CASE s.seq # a.w.cur
    <3>1. CheckSegment(a, s, last) = LaterMarked(a, u, s, end)
      BY <1>3, <1>4, <1>8, <1>10, <2>3 DEF CheckSegment, LaterMarked
    <3>2. PICK b : b = LaterMarked(a, u, s, end)
      OBVIOUS
    <3>3. Acking(b, w, o, n, m, i)
      BY <1>3, <1>4, <2>1, <3>2, AckLater
    <3> QED  BY <3>1, <3>2, <3>3
  <2> QED  BY <2>2, <2>3
<1> QED  BY <1>8, <1>9, <1>10

\* The loop.
AckLoop(w, last, a, n) == Repeat(LAMBDA x, i : CheckSegment(x, w.segs[i], last), a, n)

LEMMA AckingAll ==
  ASSUME Unambiguous, NEW w, NEW o, NEW n, NEW m, Laid(w, o, n, m),
         NEW last \in Number, Off(last) <= Off(w.highest), NEW a, Acking(a, w, o, n, m, 0)
  PROVE  Acking(AckLoop(w, last, a, n), w, o, n, m, n)
<1> DEFINE T == [i \in 0..n |-> {x \in AckSet : Acking(x, w, o, n, m, i)}]
           R(f) == f = [i \in 0..n |-> IF i = 0 THEN a ELSE CheckSegment(f[i - 1], w.segs[i], last)]
           step == [i \in 1..n |-> [x \in T[i - 1] |-> CheckSegment(x, w.segs[i], last)]]
           after == CHOOSE f : R(f)
<1>0. n \in Nat
  BY Ordered
<1>1. a \in T[0]
  <2>1. a \in AckSet /\ 0 \in 0..n
    BY <1>0 DEF Acking
  <2> QED  BY <2>1
<1>2. ASSUME NEW i \in 1..n, NEW x \in T[i - 1] PROVE CheckSegment(x, w.segs[i], last) \in T[i]
  <2>1. i - 1 \in 0..n /\ i \in 0..n
    BY <1>0
  <2>2. Acking(x, w, o, n, m, i - 1)
    BY <2>1
  <2>3. Acking(CheckSegment(x, w.segs[i], last), w, o, n, m, i)
    BY <2>2, AckingOn
  <2>4. CheckSegment(x, w.segs[i], last) \in AckSet
    BY <2>3 DEF Acking
  <2> QED  BY <2>1, <2>3, <2>4
<1> HIDE DEF T
<1>3. \E f : R(f)
  <2>1. \A i \in 1..n : \A x \in T[i - 1] : step[i][x] = CheckSegment(x, w.segs[i], last)
    OBVIOUS
  <2>2. \A i \in 1..n : \A x \in T[i - 1] : step[i][x] \in T[i]
    BY <1>2, <2>1
  <2> HIDE DEF step
  <2>3. Stepped(n, T, a, step)
    BY <1>0, <1>1, <2>2, Steps
  <2>4. PICK f : /\ f = [i \in 0..n |-> IF i = 0 THEN a ELSE step[i][f[i - 1]]]
                 /\ \A i \in 0..n : f[i] \in T[i]
    BY <2>3 DEF Stepped
  <2>5. ASSUME NEW i \in 0..n
        PROVE (IF i = 0 THEN a ELSE step[i][f[i - 1]]) = IF i = 0 THEN a ELSE CheckSegment(f[i - 1], w.segs[i], last)
    <3>1. i # 0 => i \in 1..n /\ i - 1 \in 0..n
      BY <1>0
    <3>2. i # 0 => f[i - 1] \in T[i - 1]
      BY <2>4, <3>1
    <3> QED  BY <2>1, <3>1, <3>2
  <2>6. R(f)
    BY <2>4, <2>5
  <2> HIDE DEF R
  <2> QED  BY <2>6
<1>4. R(after)
  BY <1>3
<1>5. AckLoop(w, last, a, n) = after[n]
  BY DEF Repeat, AckLoop
<1> HIDE DEF after
<1>6. \A i \in 0..n : after[i] \in T[i]
  <2> DEFINE U == {i \in 0..n : after[i] \in T[i]}
  <2>1. \A i \in 0..n : after[i] = IF i = 0 THEN a ELSE CheckSegment(after[i - 1], w.segs[i], last)
    BY <1>4
  <2>2. 0 \in U
    BY <1>0, <1>1, <2>1
  <2>3. ASSUME NEW i \in 1..n, i - 1 \in U PROVE i \in U
    BY <1>2, <2>1, <2>3
  <2> HIDE DEF U
  <2>4. \A i \in 0..n : i \in U
    BY <1>0, <2>2, <2>3, Upward
  <2> QED  BY <2>4 DEF U
<1>7. after[n] \in T[n] /\ n \in 0..n
  BY <1>0, <1>6
<1>8. Acking(after[n], w, o, n, m, n)
  BY <1>7 DEF T
<1> QED  BY <1>5, <1>8

AckStart(w, first) == [w |-> w, segs |-> <<>>, at |-> first, confirmed |-> 0, done |-> FALSE]

\* Nothing has been looked at.
LEMMA AckingStart ==
  ASSUME NEW w, NEW o, NEW n, NEW m, Laid(w, o, n, m), NEW first \in Number, Off(first) <= Total,
         NEW a, a = AckStart(w, first)
  PROVE  Acking(a, w, o, n, m, 0)
<1>1. /\ Counted(w, n, m) /\ Marked(w, n, m) /\ Ranged(w, o, n, m) /\ Waiting(w)
  BY DEF Laid
<1>2. n \in Nat /\ m \in Nat /\ m <= n /\ \A j \in 1..n + 1 : o[j] \in 0..Total
  BY Ordered
<1>3. w \in WindowSet /\ Len(w.segs) = n
  BY <1>1 DEF Counted
<1>4. PICK A : A = {k \in 1..m : w.segs[k].acked}
  OBVIOUS
<1>5. <<>> \in Seq(SegmentSet) /\ Len(<<>>) = 0
  BY EmptySeq
<1>6. a \in AckSet /\ a.w = w /\ a.segs = <<>> /\ a.at = first /\ a.confirmed = 0
  BY <1>3, <1>5 DEF AckStart, AckSet
<1>7. AckBase(a, w)
  BY <1>6 DEF AckBase
<1>8. AckCount(a, o, m, 0, 0, A)
  <2>1. o[0 + 1] = Off(w.cur)
    BY <1>1 DEF Ranged
  <2>2. 0 \in 0..0 /\ 0 \in 0..m /\ 1..0 = {}
    BY <1>2
  <2>3. o[0 + 1] \in 0..Total
    BY <1>2
  <2>4. 0 = o[0 + 1] - o[1]
    BY <2>3, WindowConstants
  <2> QED  BY <1>4, <1>6, <2>1, <2>2, <2>4 DEF AckCount
<1>9. AckKept(a, w, 0, 0, A)
  <2>1. 1..0 - 0 = {} /\ 0 - 0 = 0
    OBVIOUS
  <2> QED  BY <1>5, <1>6, <2>1 DEF AckKept
<1>10. AckAhead(w, n, 0, A)
  <2>1. ASSUME NEW k \in 0 + 1..n PROVE w.segs[k].acked <=> k \in A
    <3>1. k \in 1..n
      OBVIOUS
    <3>2. w.segs[k].acked => k <= m
      BY <1>1, <3>1 DEF Marked
    <3> QED  BY <1>2, <1>4, <3>1, <3>2
  <2> QED  BY <2>1 DEF AckAhead
<1>11. AckQueues(w, w, m, A)
  <2>1. {j \in 1..Len(w.segs) : w.segs[j].sent /\ ~w.segs[j].acked} = (1..m) \ A
    <3>1. \A j \in 1..n : w.segs[j].sent <=> j <= m
      BY <1>1 DEF Marked
    <3>2. \A j : j \in 1..m <=> j \in 1..n /\ j <= m
      BY <1>2
    <3> QED  BY <1>3, <1>4, <3>1, <3>2
  <2>2. Due(w) = NumbersOf(w, (1..m) \ A)
    BY <2>1 DEF Due, NumbersOf
  <2> QED  BY <1>1, <2>2 DEF AckQueues, Waiting
<1> QED  BY <1>6, <1>7, <1>8, <1>9, <1>10, <1>11 DEF Acking, AckParts

\* What an acknowledgement of some bytes does to a window.
Acks(w, v, confirmed) ==
  /\ WindowInv(v) /\ confirmed \in Nat /\ Off(v.cur) = Off(w.cur) + confirmed
  /\ v.highest = w.highest /\ v.next = w.next /\ Going(v) \subseteq Going(w)

\* All have been looked at.
LEMMA AckingEnd ==
  ASSUME Unambiguous, NEW w, NEW o, NEW n, NEW m, Laid(w, o, n, m), NEW a, Acking(a, w, o, n, m, n),
         NEW v, v = [a.w EXCEPT !.segs = a.segs]
  PROVE  Acks(w, v, a.confirmed)
<1>1. PICK c, A : AckParts(a, w, o, n, m, n, c, A)
  BY DEF Acking
<1>2. /\ AckBase(a, w) /\ AckCount(a, o, m, n, c, A) /\ AckKept(a, w, n, c, A) /\ AckQueues(a.w, w, m, A)
  BY <1>1 DEF AckParts
<1>3. /\ Counted(w, n, m) /\ Marked(w, n, m) /\ Ranged(w, o, n, m) /\ Placed(w, o, n)
      /\ Queued(w, n, m) /\ Headed(w, n, m)
  BY DEF Laid
<1>4. /\ n \in Nat /\ m \in Nat /\ m <= n
      /\ \A j, k \in 1..n + 1 : j < k => o[j] < o[k]
      /\ \A j \in 1..n + 1 : o[j] \in 0..Total
  BY Ordered
<1>5. a.w \in WindowSet /\ a.segs \in Seq(SegmentSet) /\ a.confirmed \in Nat
  BY DEF Acking, AckSet
<1>6. /\ v \in WindowSet /\ v.segs = a.segs /\ v.txq = a.w.txq /\ v.head = a.w.head /\ v.cur = a.w.cur
      /\ v.highest = a.w.highest /\ v.next = a.w.next /\ v.prio = a.w.prio /\ v.wait = a.w.wait
  BY <1>5 DEF WindowSet
<1>7. v.txq = w.txq /\ v.head = w.head /\ v.highest = w.highest /\ v.next = w.next
  BY <1>2, <1>6 DEF AckBase
<1>8. c \in Nat /\ c <= m /\ A \subseteq 1..m /\ 1..c \subseteq A /\ Off(v.cur) = o[c + 1] /\ a.confirmed = o[c + 1] - o[1]
  BY <1>2, <1>6 DEF AckCount
<1>9. PICK k \in Nat : k = n - c
  BY <1>4, <1>8
<1>10. PICK l \in Nat : l = m - c
  BY <1>4, <1>8
<1>11. Len(v.segs) = k /\ l <= k /\ k - l = n - m /\ \A j \in 1..k : c + j \in 1..n /\ (j <= l <=> c + j <= m)
  <2>1. Len(v.segs) = k
    BY <1>2, <1>6, <1>9 DEF AckKept
  <2> QED  BY <1>4, <1>8, <1>9, <1>10, <2>1
<1>a. /\ n \in Nat /\ m \in Nat /\ c \in Nat /\ k \in Nat /\ l \in Nat /\ c <= m /\ m <= n
      /\ k = n - c /\ l = m - c
  BY <1>4, <1>8, <1>9, <1>10
<1>12. ASSUME NEW j \in 1..k
       PROVE  /\ v.segs[j].seq = w.segs[c + j].seq /\ v.segs[j].len = w.segs[c + j].len
              /\ v.segs[j].pos = w.segs[c + j].pos /\ (v.segs[j].sent <=> w.segs[c + j].sent)
              /\ (v.segs[j].acked <=> c + j \in A)
  <2>1. Similar(w.segs[c + j], a.segs[j]) /\ (a.segs[j].acked <=> c + j \in A)
    BY <1>2, <1>9 DEF AckKept
  <2> QED  BY <1>6, <2>1 DEF Similar
<1>13. Counted(v, k, l)
  <2>1. n \in 0..SegCount /\ Len(w.txq) = n - m
    BY <1>3 DEF Counted
  <2>2. k \in 0..SegCount /\ l \in 0..k
    BY <1>4, <1>8, <1>9, <1>11, <2>1, WindowConstants
  <2> QED  BY <1>6, <1>7, <1>11, <2>1, <2>2 DEF Counted
<1>14. Marked(v, k, l)
  <2>1. ASSUME NEW j \in 1..k PROVE (v.segs[j].sent <=> j <= l) /\ (v.segs[j].acked => j <= l)
    <3>1. w.segs[c + j].sent <=> c + j <= m
      BY <1>3, <1>11 DEF Marked
    <3>2. c + j \in A => c + j <= m
      BY <1>8
    <3> QED  BY <1>11, <1>12, <3>1, <3>2
  <2> QED  BY <2>1 DEF Marked
<1> DEFINE p == [j \in 1..k + 1 |-> o[c + j]]
<1>15. \A j \in 1..k + 1 : p[j] = o[c + j] /\ c + j \in 1..n + 1
  BY <1>4, <1>8, <1>9
<1>16. p \in [1..k + 1 -> 0..Total]
  BY <1>4, <1>15
<1> HIDE DEF p
<1>17. Ranged(v, p, k, l)
  <2>1. 1 \in 1..k + 1 /\ l + 1 \in 1..k + 1 /\ k + 1 \in 1..k + 1 /\ c + (l + 1) = m + 1 /\ c + (k + 1) = n + 1
    BY <1>a
  <2>2. o[m + 1] = Off(w.highest) /\ o[n + 1] = Off(w.next)
    BY <1>3 DEF Ranged
  <2>3. p[1] = o[c + 1] /\ p[l + 1] = o[m + 1] /\ p[k + 1] = o[n + 1]
    BY <1>15, <2>1
  <2> QED  BY <1>7, <1>8, <1>16, <2>2, <2>3 DEF Ranged
<1>18. Placed(v, p, k)
  <2>1. ASSUME NEW j \in 1..k
        PROVE  /\ p[j] = Off(v.segs[j].seq) /\ p[j + 1] = p[j] + v.segs[j].len
               /\ v.segs[j].pos = Slot(p[j], TxLength)
    <3>1. /\ o[c + j] = Off(w.segs[c + j].seq) /\ o[(c + j) + 1] = o[c + j] + w.segs[c + j].len
          /\ w.segs[c + j].pos = Slot(o[c + j], TxLength)
      BY <1>3, <1>11 DEF Placed
    <3>2. j \in 1..k + 1 /\ j + 1 \in 1..k + 1 /\ c + (j + 1) = (c + j) + 1
      BY <1>8, <1>9
    <3>3. p[j] = o[c + j] /\ p[j + 1] = o[(c + j) + 1]
      BY <1>15, <3>2
    <3> QED  BY <1>12, <3>1, <3>3
  <2> QED  BY <2>1 DEF Placed
<1>19. Queued(v, k, l)
  <2>1. ASSUME NEW j \in 1..k - l PROVE v.txq[j] = v.segs[l + j].seq
    <3>1. j \in 1..n - m /\ l + j \in 1..k /\ c + (l + j) = m + j
      BY <1>a
    <3>2. w.txq[j] = w.segs[m + j].seq
      BY <1>3, <3>1 DEF Queued
    <3>3. v.segs[l + j].seq = w.segs[c + (l + j)].seq
      BY <1>12, <3>1
    <3> QED  BY <1>7, <3>1, <3>2, <3>3
  <2> QED  BY <2>1 DEF Queued
<1>20. Headed(v, k, l)
  <2>1. ASSUME v.head # None PROVE k > l /\ v.head = v.segs[k].seq /\ v.segs[k].len < MSS
    <3>1. n > m /\ w.head = w.segs[n].seq /\ w.segs[n].len < MSS
      BY <1>3, <1>7, <2>1 DEF Headed
    <3>2. k > l /\ k \in 1..k /\ c + k = n
      BY <1>4, <1>8, <1>9, <1>10, <3>1
    <3>3. v.segs[k].seq = w.segs[c + k].seq /\ v.segs[k].len = w.segs[c + k].len
      BY <1>12, <3>2
    <3> QED  BY <1>7, <3>1, <3>2, <3>3
  <2> QED  BY <2>1 DEF Headed
<1>21. Waiting(v)
  <2>1. \A j : j \in 1..k => (v.segs[j].sent <=> j <= l)
    BY <1>14 DEF Marked
  <2>2. Due(v) \subseteq NumbersOf(w, (1..m) \ A)
    <3>1. ASSUME NEW j \in 1..k, v.segs[j].sent, ~v.segs[j].acked PROVE v.segs[j].seq \in NumbersOf(w, (1..m) \ A)
      <4>1. c + j \in 1..n /\ c + j <= m /\ c + j \notin A
        BY <1>11, <1>12, <2>1, <3>1
      <4>2. c + j \in (1..m) \ A
        BY <1>4, <4>1
      <4>3. v.segs[j].seq = w.segs[c + j].seq
        BY <1>12
      <4> QED  BY <4>2, <4>3 DEF NumbersOf
    <3> QED  BY <1>11, <3>1 DEF Due
  <2>3. NumbersOf(w, (1..m) \ A) \subseteq Due(v)
    <3>1. ASSUME NEW i \in (1..m) \ A PROVE w.segs[i].seq \in Due(v)
      <4>1. i \notin 1..c
        BY <1>8
      <4>2. PICK j \in Nat : j = i - c /\ i = c + j
        BY <1>8, <4>1
      <4>3. j \in 1..k /\ j <= l
        BY <1>4, <1>8, <1>9, <1>10, <4>1, <4>2
      <4>4. v.segs[j].seq = w.segs[i].seq /\ v.segs[j].sent /\ ~v.segs[j].acked
        BY <1>12, <2>1, <4>2, <4>3
      <4> QED  BY <1>11, <4>3, <4>4 DEF Due
    <3> QED  BY <3>1 DEF NumbersOf
  <2>4. Due(v) = NumbersOf(w, (1..m) \ A)
    BY <2>2, <2>3
  <2> QED  BY <1>2, <1>6, <2>4 DEF AckQueues, Waiting
<1>22. WindowInv(v)
  BY <1>13, <1>14, <1>17, <1>18, <1>19, <1>20, <1>21 DEF Laid, WindowInv
<1>23. Going(v) \subseteq Going(w)
  <2>1. ASSUME NEW j \in 1..k, v.segs[j].sent PROVE <<Off(v.segs[j].seq), v.segs[j].len>> \in Going(w)
    <3>1. c + j \in 1..Len(w.segs)
      BY <1>3, <1>11 DEF Counted
    <3>2. w.segs[c + j].sent /\ v.segs[j].seq = w.segs[c + j].seq /\ v.segs[j].len = w.segs[c + j].len
      BY <1>12, <2>1
    <3> QED  BY <3>1, <3>2 DEF Going
  <2> QED  BY <1>11, <2>1 DEF Going
<1>24. Off(v.cur) = Off(w.cur) + a.confirmed
  <2>1. o[1] = Off(w.cur)
    BY <1>3 DEF Ranged
  <2>2. c + 1 \in 1..n + 1 /\ 1 \in 1..n + 1
    BY <1>4, <1>8
  <2>3. o[c + 1] \in 0..Total /\ o[1] \in 0..Total
    BY <1>4, <2>2
  <2> QED  BY <1>8, <2>1, <2>3, WindowConstants
<1> QED  BY <1>5, <1>7, <1>22, <1>23, <1>24 DEF Acks

\* prvTCPWindowTxCheckAck, for bytes that have been sent.
LEMMA CheckAckIs ==
  ASSUME Unambiguous, NEW w, WindowInv(w), NEW first \in Number, Off(first) <= Total,
         NEW last \in Number, Off(last) <= Off(w.highest), NEW c, c = CheckAck(w, first, last)
  PROVE  Acks(w, c.w, c.confirmed)
<1>1. PICK o, n, m : Laid(w, o, n, m)
  BY DEF WindowInv
<1>2. Len(w.segs) = n
  BY <1>1 DEF Laid, Counted
<1>3. PICK s : s = AckStart(w, first)
  OBVIOUS
<1>4. PICK a : a = AckLoop(w, last, s, n)
  OBVIOUS
<1>5. c = [w |-> [a.w EXCEPT !.segs = a.segs], confirmed |-> a.confirmed]
  BY <1>2, <1>3, <1>4 DEF CheckAck, AckStart, AckLoop
<1>6. Acking(s, w, o, n, m, 0)
  BY <1>1, <1>3, AckingStart
<1>7. Acking(a, w, o, n, m, n)
  BY <1>1, <1>4, <1>6, AckingAll
<1>8. PICK v : v = [a.w EXCEPT !.segs = a.segs]
  OBVIOUS
<1>9. Acks(w, v, a.confirmed)
  BY <1>1, <1>7, <1>8, AckingEnd
<1> QED  BY <1>5, <1>8, <1>9

\* The window has bytes up to next, of which those up to highest have been sent.
LEMMA WindowOrder ==
  ASSUME NEW w, WindowInv(w)
  PROVE  /\ w \in WindowSet /\ w.cur \in Number /\ w.highest \in Number /\ w.next \in Number
         /\ Off(w.cur) \in 0..Total /\ Off(w.highest) \in 0..Total /\ Off(w.next) \in 0..Total
         /\ Off(w.cur) <= Off(w.highest) /\ Off(w.highest) <= Off(w.next)
<1>1. PICK o, n, m : Laid(w, o, n, m)
  BY DEF WindowInv
<1>2. w \in WindowSet
  BY <1>1 DEF Laid, Counted
<1>3. /\ n \in Nat /\ m \in Nat /\ m <= n
      /\ \A j, k \in 1..n + 1 : j < k => o[j] < o[k]
      /\ \A j \in 1..n + 1 : o[j] \in 0..Total
  BY <1>1, Ordered
<1>4. o[1] = Off(w.cur) /\ o[m + 1] = Off(w.highest) /\ o[n + 1] = Off(w.next)
  BY <1>1 DEF Laid, Ranged
<1>5. 1 \in 1..n + 1 /\ m + 1 \in 1..n + 1 /\ n + 1 \in 1..n + 1
  BY <1>3
<1>6. o[1] \in 0..Total /\ o[m + 1] \in 0..Total /\ o[n + 1] \in 0..Total
  BY <1>3, <1>5
<1>7. o[1] <= o[m + 1]
  <2>1. 1 = m + 1 \/ 1 < m + 1
    BY <1>3
  <2>2. 1 < m + 1 => o[1] < o[m + 1]
    BY <1>3, <1>5
  <2> QED  BY <1>6, <2>1, <2>2, WindowConstants
<1>8. o[m + 1] <= o[n + 1]
  <2>1. m + 1 = n + 1 \/ m + 1 < n + 1
    BY <1>3
  <2>2. m + 1 < n + 1 => o[m + 1] < o[n + 1]
    BY <1>3, <1>5
  <2> QED  BY <1>6, <2>1, <2>2, WindowConstants
<1>9. w.cur \in Number /\ w.highest \in Number /\ w.next \in Number
  BY <1>2, WindowFields
<1> QED  BY <1>2, <1>4, <1>6, <1>7, <1>8, <1>9

\* ulTCPWindowTxAck.
LEMMA TxAckIs ==
  ASSUME Unambiguous, NEW w, WindowInv(w), NEW ack \in Number, Off(ack) <= Off(w.highest),
         NEW c, c = TxAck(w, ack)
  PROVE  Acks(w, c.w, c.confirmed)
<1>1. /\ w.cur \in Number /\ Off(w.cur) \in 0..Total
  BY WindowOrder
<1>2. CASE LessThanOrEqual(ack, w.cur)
  <2>1. c.w = w /\ c.confirmed = 0
    BY <1>2 DEF TxAck
  <2>2. Off(w.cur) = Off(w.cur) + 0
    BY <1>1, WindowConstants
  <2> QED  BY <2>1, <2>2 DEF Acks
<1>3. CASE ~LessThanOrEqual(ack, w.cur)
  <2>1. c = CheckAck(w, w.cur, ack)
    BY <1>3 DEF TxAck
  <2>2. PICK first \in Number : first = w.cur /\ Off(first) <= Total
    BY <1>1, WindowConstants
  <2> QED  BY <2>1, <2>2, CheckAckIs
<1> QED  BY <1>2, <1>3

\* The same bytes, and those that wait once more in other queues.
Retransmits(w, v) ==
  /\ WindowInv(v) /\ v.cur = w.cur /\ v.highest = w.highest /\ v.next = w.next /\ Going(v) = Going(w)

\* prvTCPWindowFastRetransmit.
LEMMA FastRetransmitIs ==
  ASSUME NEW w, WindowInv(w), NEW first, NEW v, v = FastRetransmit(w, first)
  PROVE  Retransmits(w, v)
<1> DEFINE waiting == {w.wait[k] : k \in DOMAIN w.wait}
           passed  == {i \in DOMAIN w.segs : w.segs[i].seq \in waiting /\ LessThan(w.segs[i].seq, first)}
           again   == {i \in passed : w.segs[i].dups + 1 = DUPLICATE_ACKS_BEFORE_FAST_RETRANSMIT}
           urgent  == {w.segs[i].seq : i \in again}
           new(i)  == IF i \in again THEN [w.segs[i] EXCEPT !.dups = @ + 1, !.count = 0]
                      ELSE IF i \in passed THEN [w.segs[i] EXCEPT !.dups = @ + 1] ELSE w.segs[i]
<1>1. v = [w EXCEPT !.segs = [i \in DOMAIN w.segs |-> new(i)],
                    !.prio = w.prio \o Without(w.wait, waiting \ urgent), !.wait = Without(w.wait, urgent)]
  BY Zenon DEF FastRetransmit
<1>2. PICK o, n, m : Laid(w, o, n, m)
  BY DEF WindowInv
<1>3. w \in WindowSet /\ Len(w.segs) = n /\ n \in Nat /\ Waiting(w)
  BY <1>2, Ordered DEF Laid, Counted
<1>4. w.wait \in Seq(Number) /\ w.prio \in Seq(Number) /\ w.segs \in Seq(SegmentSet)
  BY <1>3, WindowFields
<1>5. DOMAIN w.segs = 1..n /\ DOMAIN w.wait = 1..Len(w.wait)
  BY <1>3, <1>4, LenProperties
<1>6. waiting = Elements(w.wait)
  BY <1>5 DEF Elements
<1>7. ASSUME NEW i \in 1..n
      PROVE  new(i) \in SegmentSet /\ Alike(w.segs[i], new(i)) /\ (new(i).sent <=> w.segs[i].sent)
  <2>1. w.segs[i] \in SegmentSet
    BY <1>2, Ordered
  <2>2. PICK s \in SegmentSet : s = w.segs[i]
    BY <2>1
  <2>3. ASSUME NEW t, t = [s EXCEPT !.dups = @ + 1, !.count = 0] \/ t = [s EXCEPT !.dups = @ + 1] \/ t = s
        PROVE  t \in SegmentSet /\ Alike(s, t) /\ (t.sent <=> s.sent)
    <3>1. s.dups + 1 \in Nat
      BY DEF SegmentSet
    <3>2. CASE t = [s EXCEPT !.dups = @ + 1, !.count = 0]
      BY <3>1, <3>2 DEF SegmentSet, Alike
    <3>3. CASE t = [s EXCEPT !.dups = @ + 1]
      BY <3>1, <3>3 DEF SegmentSet, Alike
    <3>4. CASE t = s
      BY <3>4 DEF Alike
    <3> QED  BY <2>3, <3>2, <3>3, <3>4
  <2>4. new(i) = [s EXCEPT !.dups = @ + 1, !.count = 0] \/ new(i) = [s EXCEPT !.dups = @ + 1] \/ new(i) = s
    <3> HIDE DEF again, passed
    <3> QED  BY <2>2
  <2> HIDE DEF new
  <2> QED  BY <2>2, <2>3, <2>4
<1> HIDE DEF new, waiting, urgent
<1>8. PICK segs : segs = [i \in 1..n |-> new(i)]
  OBVIOUS
<1>9. segs \in Seq(SegmentSet) /\ Len(segs) = n /\ \A i \in 1..n : segs[i] = new(i)
  <2>1. segs \in [1..n -> SegmentSet] /\ \A i \in 1..n : segs[i] = new(i)
    BY <1>7, <1>8
  <2> QED  BY <1>3, <2>1, SeqDef, LenProperties
<1>10. PICK back : back = Without(w.wait, waiting \ urgent)
  OBVIOUS
<1>11. PICK wait : wait = Without(w.wait, urgent)
  OBVIOUS
<1>12. PICK other : other = waiting \ urgent
  OBVIOUS
<1>13. back \in Seq(Number) /\ Elements(back) = Elements(w.wait) \ other /\ (Once(w.wait) => Once(back))
  BY <1>4, <1>10, <1>12, WithoutIs
<1>14. wait \in Seq(Number) /\ Elements(wait) = Elements(w.wait) \ urgent /\ (Once(w.wait) => Once(wait))
  BY <1>4, <1>11, WithoutIs
<1>15. PICK prio : prio = w.prio \o back
  OBVIOUS
<1>16. /\ prio \in Seq(Number) /\ Elements(prio) = Elements(w.prio) \cup Elements(back)
       /\ (Once(w.prio) /\ Once(back) /\ Elements(w.prio) \cap Elements(back) = {} => Once(prio))
  BY <1>4, <1>13, <1>15, ConcatIs
<1>17. v = [w EXCEPT !.segs = segs, !.prio = prio, !.wait = wait]
  BY <1>1, <1>5, <1>8, <1>10, <1>11, <1>15
<1>18. /\ v \in WindowSet /\ v.segs = segs /\ v.txq = w.txq /\ v.head = w.head /\ v.cur = w.cur
       /\ v.highest = w.highest /\ v.next = w.next /\ v.prio = prio /\ v.wait = wait
  BY <1>3, <1>9, <1>14, <1>16, <1>17 DEF WindowSet
<1>19. /\ Once(w.prio) /\ Once(w.wait) /\ Elements(w.prio) \cap Elements(w.wait) = {}
  BY <1>3 DEF Waiting
<1>20. Once(back) /\ Once(wait) /\ Elements(w.prio) \cap Elements(back) = {}
  BY <1>13, <1>14, <1>19
<1>21. /\ Once(prio) /\ Elements(prio) \cup Elements(wait) = Elements(w.prio) \cup Elements(w.wait)
       /\ Elements(prio) \cap Elements(wait) = {}
  BY <1>6, <1>12, <1>13, <1>14, <1>16, <1>19, <1>20
<1>22. Resembles(w, v, n)
  BY <1>7, <1>9, <1>18 DEF Resembles
<1>23. Len(v.segs) = n
  BY <1>9, <1>18
<1>24. Laid(v, o, n, m) /\ Going(v) = Going(w)
  BY <1>2, <1>18, <1>20, <1>21, <1>22, <1>23, Redistributed
<1> QED  BY <1>18, <1>24 DEF Retransmits, WindowInv

\* ulTCPWindowTxSack.
LEMMA TxSackIs ==
  ASSUME Unambiguous, NEW w, WindowInv(w), NEW first \in Number, Off(first) <= Total,
         NEW last \in Number, Off(last) <= Off(w.highest), NEW c, c = TxSack(w, first, last)
  PROVE  Acks(w, c.w, c.confirmed)
<1>1. PICK d : d = CheckAck(w, first, last)
  OBVIOUS
<1>2. Acks(w, d.w, d.confirmed)
  BY <1>1, CheckAckIs
<1>3. PICK v : v = FastRetransmit(d.w, first)
  OBVIOUS
<1>4. d = [w |-> d.w, confirmed |-> d.confirmed]
  BY <1>1 DEF CheckAck
<1>5. c = [w |-> v, confirmed |-> d.confirmed]
  <2>1. c = [d EXCEPT !.w = v]
    BY <1>1, <1>3 DEF TxSack
  <2> QED  BY <1>4, <2>1
<1>6. PICK u : u = d.w
  OBVIOUS
<1>7. Retransmits(u, v)
  <2>1. WindowInv(u)
    BY <1>2, <1>6 DEF Acks
  <2> QED  BY <1>3, <1>6, <2>1, FastRetransmitIs
<1>8. Acks(w, v, d.confirmed)
  BY <1>2, <1>6, <1>7 DEF Acks, Retransmits
<1> QED  BY <1>5, <1>8
=============================================================================
