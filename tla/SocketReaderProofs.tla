------------------------- MODULE SocketReaderProofs -------------------------
(***************************************************************************)
(* A broker that writes one packet at a time, no part of it late, has its  *)
(* packets delivered whole, whatever their sizes, their segments and the   *)
(* moment the connection is closed or reset.                               *)
(***************************************************************************)
EXTENDS SocketReader, WellFoundedInduction, TLAPS

\* Packets do not overtake the reader, recv does not time out within one, and
\* the bytes that tell its length come together.
OneByOne == ~Coalesce /\ ~Stalls /\ FirstBytes >= 3 /\ HeaderSize >= 3

-----------------------------------------------------------------------------
(* The inductive invariant. *)

\* The packets of the stream follow each other.
StreamInv ==
  /\ ends \in Seq(Nat)
  /\ \A i \in DOMAIN ends : ends[i] - Start(i) \in Sizes
  /\ \A i, j \in DOMAIN ends : i < j => ends[i] < ends[j]

DeliveredInv ==
  /\ delivered \in Seq([from : Nat, to : Nat, length : Nat])
  /\ Len(delivered) <= Len(ends)
  /\ DeliveredWhole

\* The first segment of a packet is there.
Begun(c) == conn = "reset" \/ arrived >= Start(c) + 3 \/ arrived = ends[c]

\* What the thread knows where it is; c is the packet to be delivered next.
Between(c) ==
  /\ position = base /\ got = 0 /\ remaining = 0
  /\ Len(ends) <= c
  /\ Len(ends) = c => Begun(c)

Inside(c) ==
  /\ Len(ends) = c
  /\ position < ends[c]
  /\ got \in Nat /\ got <= position - base
  /\ remaining \in Nat /\ remaining < Modulus
  /\ conn # "reset" => got = position - base /\ remaining = ends[c] - position

Complete(c) ==
  /\ Len(ends) = c \/ Len(ends) = c + 1
  /\ position = ends[c] /\ got = position - base /\ remaining = 0
  /\ Len(ends) = c + 1 => Begun(c + 1)

Counted(c) ==
  /\ arrived \in Nat /\ position \in Nat /\ base \in Nat
  /\ base = Start(c) /\ base <= position /\ position <= arrived /\ arrived <= Written
  /\ conn \in {"open", "closed", "reset"}
  /\ conn = "reset" => arrived = position

Stands(c) ==
  \/ pc \in {"read", "probe"} /\ Between(c)
  \/ pc = "done" /\ conn = "reset" /\ Between(c)
  \/ pc = "more" /\ Inside(c)
  \/ pc = "deliver" /\ Complete(c)

Place(c) == Counted(c) /\ Stands(c)

PlaceInv == \A c \in Nat : c = Len(delivered) + 1 => Place(c)

FrameInv == StreamInv /\ DeliveredInv /\ PlaceInv

-----------------------------------------------------------------------------
(* What the operators give. *)

LEMMA MinTwo ==
  ASSUME NEW a \in Nat, NEW b \in Nat
  PROVE  Min({a, b}) = IF a <= b THEN a ELSE b
<1>1. \A x \in {a, b} : (\A y \in {a, b} : x <= y) <=> x = (IF a <= b THEN a ELSE b)
  BY SMT
<1>2. (IF a <= b THEN a ELSE b) \in {a, b}
  OBVIOUS
<1> QED
  BY <1>1, <1>2 DEF Min

LEMMA LeastNatural ==
  ASSUME NEW S \in SUBSET Nat, S # {}
  PROVE  \E x \in S : \A y \in S : x <= y
<1>1. PICK x \in S : \A y \in S : ~ (<<y, x>> \in OpToRel(<, Nat))
  BY NatLessThanWellFounded, WFMin
<1>2. ASSUME NEW y \in S PROVE x <= y
  <2>1. x \in Nat /\ y \in Nat
    OBVIOUS
  <2>2. ~ (y < x)
    BY <1>1, <2>1 DEF OpToRel
  <2> QED
    BY SMT, <2>1, <2>2
<1> QED
  BY <1>2

LEMMA SizeTypes ==
  ASSUME NEW size \in Sizes
  PROVE  size \in Nat /\ size >= 2 /\ size <= 16386 /\ size # 130 /\ Modulus > size
<1>1. size \in 2..16386 /\ size # 130
  BY SMTT(30), SizesAssumption
<1>2. size \in Nat /\ size >= 2 /\ size <= 16386
  BY SMT, <1>1
<1>3. Modulus > (MaxPackets + 1) * size + HeaderSize
  BY ModulusAssumption
<1>4. MaxPackets \in Nat /\ HeaderSize \in Nat /\ Modulus \in Nat
  BY HeaderAssumption, PacketsAssumption, ModulusAssumption
<1>5. \A n, k \in Nat : n * k \in Nat /\ (n + 1) * k = n * k + k
  BY SMT
<1> DEFINE others == MaxPackets * size
<1>6. others \in Nat /\ (MaxPackets + 1) * size = others + size
  BY <1>2, <1>4, <1>5
<1> HIDE DEF others
<1>7. Modulus > others + size + HeaderSize
  BY <1>3, <1>6
<1>8. Modulus > size
  BY SMT, <1>2, <1>4, <1>6, <1>7
<1> QED
  BY <1>1, <1>2, <1>8

\* The largest size: the one the least below what two length bytes can say.
LEMMA MaxSize == Max(Sizes) \in Sizes /\ \A size \in Sizes : size <= Max(Sizes)
<1> DEFINE below == {16386 - size : size \in Sizes}
<1>1. ASSUME NEW size \in Sizes PROVE size \in Nat /\ 16386 - size \in Nat
  <2>1. size \in Nat /\ size <= 16386
    BY SizeTypes
  <2> QED
    BY SMT, <2>1
<1>2. \A size \in Sizes : size \in Nat /\ 16386 - size \in Nat
  BY <1>1
<1>3. below \in SUBSET Nat /\ below # {}
  <2>1. Sizes # {}
    BY SizesAssumption
  <2> QED
    BY <1>2, <2>1
<1>4. \E x \in below : \A y \in below : x <= y
  <2> HIDE DEF below
  <2> QED
    BY <1>3, LeastNatural
<1>5. \E largest \in Sizes : \A size \in Sizes : 16386 - largest <= 16386 - size
  BY <1>4
<1>6. \E largest \in Sizes : \A size \in Sizes : largest >= size
  BY SMT, <1>2, <1>5
<1>7. Max(Sizes) \in Sizes /\ \A size \in Sizes : Max(Sizes) >= size
  BY <1>6 DEF Max
<1> QED
  BY SMT, <1>2, <1>7

LEMMA AppendFacts ==
  ASSUME NEW S, NEW s \in Seq(S), NEW x \in S
  PROVE  /\ Append(s, x) \in Seq(S) /\ Len(Append(s, x)) = Len(s) + 1 /\ Len(s) \in Nat
         /\ DOMAIN s = 1..Len(s) /\ DOMAIN Append(s, x) = 1..Len(s) + 1
         /\ \A i \in 1..Len(s) : Append(s, x)[i] = s[i]
         /\ Append(s, x)[Len(s) + 1] = x
BY SMT

-----------------------------------------------------------------------------
(* The stream. *)

\* Where the packets around the current one begin and end.
LEMMA StreamFacts ==
  ASSUME FrameInv, NEW c, c = Len(delivered) + 1
  PROVE  /\ c \in Nat /\ c >= 1 /\ Len(ends) \in Nat /\ Len(ends) >= c - 1
         /\ Start(c) \in Nat /\ Written \in Nat
         /\ Len(ends) = c - 1 => Start(c) = Written
         /\ Len(ends) >= c =>
              /\ c \in DOMAIN ends /\ ends[c] \in Nat
              /\ ends[c] - Start(c) \in Sizes
         /\ Len(ends) = c => ends[c] = Written
         /\ Len(ends) = c + 1 =>
              /\ ends[c + 1] = Written /\ Start(c + 1) = ends[c]
              /\ c + 1 \in DOMAIN ends /\ Written - ends[c] \in Sizes
<1>1. /\ ends \in Seq(Nat) /\ Len(ends) \in Nat /\ DOMAIN ends = 1..Len(ends)
      /\ Len(delivered) \in Nat /\ Len(delivered) <= Len(ends)
  BY SMT DEF FrameInv, StreamInv, DeliveredInv
<1>2. \A k \in 1..Len(ends) : ends[k] \in Nat
  BY SMT, <1>1
<1>3. \A k \in 1..Len(ends) : ends[k] - Start(k) \in Sizes
  BY <1>1 DEF FrameInv, StreamInv
<1>4. ends = <<>> <=> Len(ends) = 0
  BY SMT, <1>1
<1>5. Written \in Nat
  BY SMT, <1>1, <1>2, <1>4 DEF Written
<1>6. Start(c) \in Nat
  BY SMT, <1>1, <1>2 DEF Start
<1>7. Len(ends) = c - 1 => Start(c) = Written
  BY SMT, <1>1, <1>4 DEF Start, Written
<1>8. Len(ends) >= c => c \in 1..Len(ends)
  BY SMT, <1>1
<1>9. Len(ends) = c => ends[c] = Written
  BY SMT, <1>1, <1>4 DEF Written
<1>10. Len(ends) = c + 1 =>
         /\ ends[c + 1] = Written /\ Start(c + 1) = ends[c]
         /\ c + 1 \in 1..Len(ends)
  BY SMT, <1>1, <1>4 DEF Written, Start
<1>11. c \in Nat /\ c >= 1 /\ Len(ends) >= c - 1
  BY SMT, <1>1
<1>12. Len(ends) = c + 1 => Written - ends[c] \in Sizes
  BY <1>3, <1>10
<1>13. Len(ends) >= c => ends[c] \in Nat /\ ends[c] - Start(c) \in Sizes
  BY <1>2, <1>3, <1>8
<1> QED
  BY <1>1, <1>5, <1>6, <1>7, <1>8, <1>9, <1>10, <1>11, <1>12, <1>13

\* No two packets start at one place.
LEMMA StartsDiffer ==
  ASSUME FrameInv, NEW i \in DOMAIN ends, NEW j \in DOMAIN ends, Start(j) = Start(i)
  PROVE  j = i
<1>1. /\ ends \in Seq(Nat) /\ Len(ends) \in Nat /\ DOMAIN ends = 1..Len(ends)
      /\ \A k \in 1..Len(ends) : ends[k] - Start(k) \in Sizes
      /\ \A k, l \in 1..Len(ends) : k < l => ends[k] < ends[l]
  BY SMT DEF FrameInv, StreamInv
<1>2. \A k \in 1..Len(ends) : ends[k] \in Nat
  BY SMT, <1>1
<1>3. ASSUME NEW k \in 1..Len(ends) PROVE Start(k) \in Nat /\ ends[k] \in Nat /\ Start(k) < ends[k]
  <2>1. Start(k) \in Nat
    BY SMT, <1>1, <1>2 DEF Start
  <2>2. ends[k] - Start(k) \in Sizes
    BY <1>1
  <2>3. ends[k] - Start(k) >= 2
    BY <2>2, SizeTypes
  <2>4. ends[k] \in Nat
    BY <1>2
  <2> QED
    BY SMT, <2>1, <2>3, <2>4
<1>4. ASSUME NEW k \in 1..Len(ends), NEW l \in 1..Len(ends), k < l PROVE Start(k) < Start(l)
  <2>1. l - 1 \in 1..Len(ends) /\ l # 1 /\ (k = l - 1 \/ k < l - 1)
    BY SMT, <1>1, <1>4
  <2>2. Start(l) = ends[l - 1]
    BY <2>1 DEF Start
  <2>3. ends[k] = ends[l - 1] \/ ends[k] < ends[l - 1]
    BY <1>1, <2>1
  <2>4. ends[k] \in Nat /\ ends[l - 1] \in Nat /\ Start(k) \in Nat /\ Start(k) < ends[k]
    BY <1>3, <2>1
  <2> QED
    BY SMT, <2>2, <2>3, <2>4
<1>5. i \in 1..Len(ends) /\ j \in 1..Len(ends)
  BY <1>1
<1>6. ~ (Start(i) < Start(i))
  <2>1. Start(i) \in Nat
    BY <1>3, <1>5
  <2> QED
    BY SMT, <2>1
<1>7. ~ (i < j) /\ ~ (j < i)
  BY <1>4, <1>5, <1>6
<1>8. i \in Nat /\ j \in Nat
  BY SMT, <1>1, <1>5
<1> QED
  BY SMT, <1>7, <1>8

\* A header is read at the start of one packet only.
LEMMA ClaimsOne ==
  ASSUME FrameInv, NEW i \in DOMAIN ends, NEW n
  PROVE  Claims(Start(i), n) = {Declared(ends[i] - Start(i), n)}
<1>1. {j \in DOMAIN ends : Start(j) = Start(i)} = {i}
  BY StartsDiffer
<1> QED
  BY <1>1 DEF Claims

-----------------------------------------------------------------------------
(* The steps. *)

LEMMA FrameInit == Init => FrameInv
<1> SUFFICES ASSUME Init PROVE FrameInv
  OBVIOUS
<1>1. /\ ends = <<>> /\ arrived = 0 /\ conn = "open" /\ pc = "read" /\ position = 0 /\ base = 0
      /\ got = 0 /\ remaining = 0 /\ delivered = <<>>
  BY DEF Init
<1>2. Len(ends) = 0 /\ Len(delivered) = 0 /\ DOMAIN ends = {} /\ DOMAIN delivered = {}
  BY SMT, <1>1
<1>3. StreamInv
  BY SMT, <1>1, <1>2 DEF StreamInv
<1>4. DeliveredInv
  BY SMT, <1>1, <1>2 DEF DeliveredInv, DeliveredWhole
<1>5. Len(delivered) + 1 = 1 /\ 0 <= 1 /\ 0 # 1 /\ 0 <= 0 /\ 0 \in Nat
  BY SMT, <1>2
<1>6. Between(1)
  BY <1>1, <1>2, <1>5 DEF Between
<1>7. Start(1) = 0 /\ Written = 0
  BY <1>1 DEF Start, Written
<1>8. Place(1)
  BY <1>1, <1>5, <1>6, <1>7 DEF Place, Counted, Stands
<1>9. PlaceInv
  BY <1>5, <1>8 DEF PlaceInv
<1> QED
  BY <1>3, <1>4, <1>9 DEF FrameInv

\* Steps of the thread and the connection that neither begin a packet nor deliver one.
LEMMA SameStream ==
  ASSUME FrameInv, UNCHANGED <<ends, delivered>>, NEW c, c = Len(delivered) + 1, Place(c)'
  PROVE  FrameInv'
<1>1. StreamInv' /\ DeliveredInv'
  BY DEF FrameInv, StreamInv, DeliveredInv, DeliveredWhole, Start
<1>2. \A d \in Nat : d = Len(delivered') + 1 => d = c
  OBVIOUS
<1>3. PlaceInv'
  BY <1>2 DEF PlaceInv
<1> QED
  BY <1>1, <1>3 DEF FrameInv

\* The arithmetic of a place: the start h and the end e of the current packet and the
\* end w of the stream.
\* Packet c lies between h and e in a stream of w bytes.
Borders(c, h, e, w) ==
  /\ c \in Int /\ h \in Int /\ e \in Int /\ w \in Int
  /\ Place(c)
  /\ c >= 1 /\ h >= 0 /\ w >= 0 /\ Len(ends) \in Nat /\ Len(ends) >= c - 1
  /\ Len(ends) = c - 1 => h = w
  /\ Len(ends) >= c =>
       /\ e = ends[c] /\ c \in DOMAIN ends
       /\ e >= h + 2 /\ e <= h + 16386 /\ e # h + 130 /\ Modulus > e - h
  /\ Len(ends) = c => e = w
  /\ Len(ends) = c + 1 => ends[c + 1] = w /\ Start(c + 1) = e /\ w >= e + 2

LEMMA PlaceFacts ==
  ASSUME FrameInv,
         NEW c, c = Len(delivered) + 1, NEW h, h = Start(c), NEW w, w = Written,
         NEW e, e = IF Len(ends) >= c THEN ends[c] ELSE 0
  PROVE  Borders(c, h, e, w)
<1>1. /\ c \in Nat /\ c >= 1 /\ Len(ends) \in Nat /\ Len(ends) >= c - 1
      /\ h \in Nat /\ w \in Nat /\ (Len(ends) = c - 1 => h = w)
  BY StreamFacts
<1>2. /\ c \in Nat /\ c >= 1 /\ Len(ends) \in Nat /\ h \in Nat /\ w \in Nat
      /\ Len(ends) >= c =>
           /\ c \in DOMAIN ends /\ ends[c] \in Nat /\ ends[c] - h \in Sizes
      /\ (Len(ends) = c => ends[c] = w)
      /\ Len(ends) = c + 1 =>
           /\ ends[c + 1] = w /\ Start(c + 1) = ends[c] /\ w - ends[c] \in Sizes
  BY StreamFacts
<1>3. Place(c)
  BY <1>2 DEF FrameInv, PlaceInv
<1>4. Len(ends) >= c => e = ends[c]
  OBVIOUS
<1>5. ~(Len(ends) >= c) => e = 0
  OBVIOUS
<1>6. e \in Nat
  BY <1>2, <1>4, <1>5
<1>7. Len(ends) >= c => e - h >= 2 /\ e - h <= 16386 /\ e - h # 130 /\ Modulus > e - h
  BY <1>2, <1>4, SizeTypes
<1>8. Len(ends) >= c => e >= h + 2 /\ e <= h + 16386 /\ e # h + 130 /\ Modulus > e - h
  <2>1. h \in Nat /\ e \in Nat
    BY <1>2, <1>6
  <2>2. e - h >= 2 /\ e - h <= 16386 /\ e - h # 130 => e >= h + 2 /\ e <= h + 16386 /\ e # h + 130
    BY SMT, <2>1
  <2> QED
    BY <1>7, <2>2
<1>9. Len(ends) = c \/ Len(ends) = c + 1 => Len(ends) >= c
  BY SMT, <1>2
<1>10. Len(ends) = c => e = w
  BY <1>2, <1>4, <1>9
<1>11. Len(ends) = c + 1 => ends[c + 1] = w /\ Start(c + 1) = e /\ w - e >= 2
  BY <1>2, <1>4, <1>9, SizeTypes
<1>12. Len(ends) = c + 1 => w >= e + 2
  BY SMT, <1>2, <1>6, <1>11
<1>13. c \in Int /\ h \in Int /\ e \in Int /\ w \in Int /\ h >= 0 /\ w >= 0
  BY SMT, <1>2, <1>6
<1>14. Len(ends) >= c =>
         /\ e = ends[c] /\ c \in DOMAIN ends
         /\ e >= h + 2 /\ e <= h + 16386 /\ e # h + 130 /\ Modulus > e - h
  BY <1>2, <1>4, <1>8
<1>15. Len(ends) = c + 1 => ends[c + 1] = w /\ Start(c + 1) = e /\ w >= e + 2
  BY <1>11, <1>12
<1> QED
  BY <1>3, <1>10, <1>13, <1>14, <1>15, <1>1 DEF Borders

LEMMA FrameStep == OneByOne /\ FrameInv /\ [Next]_vars => FrameInv'
<1> SUFFICES ASSUME OneByOne, FrameInv, [Next]_vars PROVE FrameInv'
  OBVIOUS
<1> USE DEF wire, reader
<1>1. PICK c : c = Len(delivered) + 1
  OBVIOUS
<1>2. PICK h : h = Start(c)
  OBVIOUS
<1>3. PICK w : w = Written
  OBVIOUS
<1>4. PICK e : e = IF Len(ends) >= c THEN ends[c] ELSE 0
  OBVIOUS
<1>5. /\ c \in Int /\ h \in Int /\ e \in Int /\ w \in Int
      /\ c = Len(delivered) + 1 /\ h = Start(c) /\ w = Written
      /\ Place(c)
      /\ c >= 1 /\ h >= 0 /\ w >= 0 /\ Len(ends) \in Nat /\ Len(ends) >= c - 1
      /\ Len(ends) = c - 1 => h = w
      /\ Len(ends) >= c =>
           /\ e = ends[c] /\ c \in DOMAIN ends
           /\ e >= h + 2 /\ e <= h + 16386 /\ e # h + 130 /\ Modulus > e - h
      /\ Len(ends) = c => e = w
      /\ Len(ends) = c + 1 => ends[c + 1] = w /\ Start(c + 1) = e /\ w >= e + 2
  <2>1. Borders(c, h, e, w)
    BY <1>1, <1>2, <1>3, <1>4, PlaceFacts
  <2> QED
    BY <1>1, <1>2, <1>3, <2>1 DEF Borders
<1>6. /\ arrived \in Nat /\ position \in Nat /\ base \in Nat
      /\ base = h /\ base <= position /\ position <= arrived /\ arrived <= w
      /\ conn \in {"open", "closed", "reset"} /\ (conn = "reset" => arrived = position)
  BY <1>5 DEF Place, Counted, Stands
<1>7. /\ Modulus \in Nat /\ HeaderSize \in Nat /\ FirstBytes \in Nat /\ HeaderSize >= 3
      /\ FirstBytes >= 3 /\ ~Coalesce /\ ~Stalls
  BY HeaderAssumption, ModulusAssumption DEF OneByOne
<1>8. c \in Nat /\ c + 1 \in Nat /\ c # c + 1
  BY SMT, <1>5
<1>9. /\ h \in Int /\ e \in Int /\ w \in Int
      /\ Len(ends) \in Nat /\ Len(ends) >= c - 1 /\ (Len(ends) = c - 1 => h = w)
      /\ Len(ends) >= c =>
           e >= h + 2 /\ e <= h + 16386 /\ e # h + 130 /\ Modulus > e - h
      /\ (Len(ends) = c => e = w) /\ (Len(ends) = c + 1 => w >= e + 2)
  BY <1>5
<1>10. CASE RecvHeader
  <2> DEFINE n == Min({HeaderSize, arrived - position})
  <2>1. arrived - position \in Nat
    BY SMT, <1>6
  <2>2. n = IF HeaderSize <= arrived - position THEN HeaderSize ELSE arrived - position
    BY <1>7, <2>1, MinTwo
  <2> HIDE DEF n
  <2>3. /\ pc = "read" /\ n >= 2 /\ base' = position /\ got' = n /\ position' = position + n
        /\ \E claim \in Claims(position, n) : remaining' = (claim - n) % Modulus
        /\ pc' = (IF remaining' = 0 THEN "deliver" ELSE "more")
        /\ UNCHANGED <<ends, arrived, conn, delivered>>
    BY <1>10 DEF RecvHeader, n
  <2>4. position = base /\ Len(ends) <= c /\ (Len(ends) = c => Begun(c))
    BY <1>5, <2>3 DEF Place, Counted, Stands, Between
  <2>5. n \in Nat /\ n <= arrived - position /\ arrived - position >= 2 /\ n <= HeaderSize
    BY SMT, <1>6, <1>7, <2>1, <2>2, <2>3
  <2>6. Len(ends) = c /\ Len(ends) >= c /\ conn # "reset"
    BY SMT, <1>6, <1>8, <1>9, <2>4, <2>5
  <2>7. arrived >= h + 3 \/ arrived = e
    BY <1>5, <2>4, <2>6 DEF Begun
  <2>8. Claims(position, n) = {Declared(e - h, n)}
    <3>1. position = Start(c) /\ c \in DOMAIN ends /\ ends[c] - Start(c) = e - h
      BY <1>5, <1>6, <2>4, <2>6
    <3>2. Claims(Start(c), n) = {Declared(ends[c] - Start(c), n)}
      BY <3>1, ClaimsOne
    <3> QED
      BY <3>1, <3>2
  <2>9. e - h <= 129 \/ n >= 3
    BY SMT, <1>6, <1>7, <1>9, <2>2, <2>4, <2>5, <2>6, <2>7
  <2>10. Declared(e - h, n) = e - h
    BY <2>9 DEF Declared
  <2>11. e - h - n \in 0..Modulus - 1
    BY SMT, <1>6, <1>7, <1>9, <2>4, <2>5, <2>6
  <2>12. remaining' = e - h - n
    <3>1. remaining' = (e - h - n) % Modulus
      BY <2>3, <2>8, <2>10
    <3>2. \A k \in 0..Modulus - 1 : k % Modulus = k
      BY SMT, <1>7
    <3> QED
      BY <2>11, <3>1, <3>2
  <2>13. /\ position' \in Nat /\ base' = h /\ base' <= position' /\ position' <= arrived
         /\ got' = position' - base' /\ got' \in Nat /\ got' <= position' - base'
         /\ remaining' = e - position' /\ remaining' \in Nat /\ remaining' < Modulus
         /\ (remaining' = 0 => position' = e) /\ (remaining' # 0 => position' < e)
    BY SMT, <1>6, <1>7, <1>9, <2>3, <2>4, <2>5, <2>6, <2>11, <2>12
  <2>14. Start(c)' = h /\ Written' = w /\ Len(ends') = c /\ ends'[c] = e /\ Len(ends') # c + 1
    BY <1>5, <1>8, <2>3, <2>6 DEF Start, Written
  <2>15. pc' = "more" => Inside(c)'
    BY <2>3, <2>13, <2>14 DEF Inside
  <2>16. pc' = "deliver" => Complete(c)'
    BY <2>3, <2>13, <2>14 DEF Complete
  <2>17. Place(c)'
    BY <1>6, <2>3, <2>6, <2>13, <2>14, <2>15, <2>16 DEF Place, Counted, Stands
  <2> QED
    BY <1>5, <2>3, <2>17, SameStream
<1>11. CASE RecvShort
  <2>1. /\ pc = "read" /\ arrived - position < 2 /\ position' = arrived /\ pc' = "probe"
        /\ UNCHANGED <<ends, arrived, conn, base, got, remaining, delivered>>
    BY <1>11 DEF RecvShort
  <2>2. /\ position = base /\ got = 0 /\ remaining = 0 /\ Len(ends) <= c
        /\ (Len(ends) = c => Begun(c))
    BY <1>5, <2>1 DEF Place, Counted, Stands, Between
  <2>3. arrived = position
    <3>1. CASE Len(ends) = c /\ conn # "reset"
      <4>1. arrived >= h + 3 \/ arrived = e
        BY <1>5, <1>9, <2>2, <3>1 DEF Begun
      <4> QED
        BY SMT, <1>6, <1>8, <1>9, <2>1, <2>2, <3>1, <4>1
    <3>2. CASE Len(ends) # c \/ conn = "reset"
      BY SMT, <1>6, <1>8, <1>9, <2>2, <3>2
    <3> QED
      BY <3>1, <3>2
  <2>4. Start(c)' = Start(c) /\ Written' = Written /\ (Begun(c) => Begun(c)')
    BY <2>1 DEF Start, Written, Begun
  <2>5. Between(c)'
    BY <2>1, <2>2, <2>3, <2>4 DEF Between
  <2>6. Place(c)'
    BY <1>5, <1>6, <2>1, <2>3, <2>4, <2>5 DEF Place, Counted, Stands
  <2> QED
    BY <1>5, <2>1, <2>6, SameStream
<1>12. CASE Probe
  <2>1. /\ pc = "probe" /\ pc' = (IF conn = "reset" THEN "done" ELSE "read")
        /\ UNCHANGED <<ends, arrived, conn, position, base, got, remaining, delivered>>
    BY <1>12 DEF Probe
  <2>2. Between(c)
    BY <1>5, <2>1 DEF Place, Counted, Stands
  <2>3. Between(c)'
    BY <2>1, <2>2 DEF Between, Begun, Start
  <2>4. Place(c)'
    BY <1>5, <2>1, <2>3 DEF Place, Counted, Stands, Start, Written
  <2> QED
    BY <1>5, <2>1, <2>4, SameStream
<1>13. CASE RecvMore
  <2> DEFINE n == Min({remaining, arrived - position})
  <2>1. pc = "more" /\ arrived - position \in Nat
    BY SMT, <1>6, <1>13 DEF RecvMore
  <2>2. /\ Len(ends) = c /\ position < ends[c] /\ got \in Nat /\ got <= position - base
        /\ remaining \in Nat /\ remaining < Modulus
        /\ (conn # "reset" => got = position - base /\ remaining = ends[c] - position)
    BY <1>5, <2>1 DEF Place, Counted, Stands, Inside
  <2>3. n = IF remaining <= arrived - position THEN remaining ELSE arrived - position
    BY <2>1, <2>2, MinTwo
  <2> HIDE DEF n
  <2>4. /\ n > 0 /\ position' = position + n /\ got' = got + n /\ remaining' = remaining - n
        /\ pc' = (IF remaining' = 0 THEN "deliver" ELSE "more")
        /\ UNCHANGED <<ends, arrived, conn, base, delivered>>
    BY <1>13 DEF RecvMore, n
  <2>5. n \in Nat /\ n <= arrived - position /\ n <= remaining
    BY SMT, <1>6, <2>1, <2>2, <2>3
  <2>6. conn # "reset" /\ Len(ends) >= c
    BY SMT, <1>6, <1>8, <2>2, <2>4, <2>5
  <2>7. ends[c] = e
    BY <1>5, <2>6
  <2>8. got = position - base /\ remaining = e - position
    BY <2>2, <2>6, <2>7
  <2>9. /\ position' \in Nat /\ base' = h /\ base' <= position' /\ position' <= arrived
        /\ got' = position' - base' /\ got' \in Nat /\ got' <= position' - base'
        /\ remaining' = e - position' /\ remaining' \in Nat /\ remaining' < Modulus
        /\ (remaining' = 0 => position' = e) /\ (remaining' # 0 => position' < e)
    <3>1. remaining \in Nat /\ remaining < Modulus
      BY <2>2
    <3> QED
      BY SMT, <1>6, <1>7, <1>9, <2>4, <2>5, <2>8, <3>1
  <2>10. Start(c)' = h /\ Written' = w /\ Len(ends') = c /\ ends'[c] = e /\ Len(ends') # c + 1
    BY <1>5, <1>8, <2>2, <2>4, <2>7 DEF Start, Written
  <2>11. pc' = "more" => Inside(c)'
    BY <2>4, <2>9, <2>10 DEF Inside
  <2>12. pc' = "deliver" => Complete(c)'
    BY <2>4, <2>9, <2>10 DEF Complete
  <2>13. Place(c)'
    BY <1>6, <2>4, <2>6, <2>9, <2>10, <2>11, <2>12 DEF Place, Counted, Stands
  <2> QED
    BY <1>5, <2>4, <2>13, SameStream
<1>14. CASE RecvFailed
  <2>1. /\ pc = "more" /\ conn = "reset" /\ got > 0 /\ got' = got - 1
        /\ remaining' = (remaining + 1) % Modulus
        /\ UNCHANGED <<ends, arrived, conn, pc, position, base, delivered>>
    BY <1>7, <1>14 DEF RecvFailed
  <2>2. Inside(c)
    BY <1>5, <2>1 DEF Place, Counted, Stands
  <2>3. /\ Len(ends) = c /\ position < ends[c] /\ got \in Nat /\ got <= position - base
        /\ remaining \in Nat /\ remaining < Modulus
    BY <2>2 DEF Inside
  <2>4. got' \in Nat /\ got' <= position - base
    BY SMT, <1>6, <2>1, <2>3
  <2>5. remaining' \in Nat /\ remaining' < Modulus
    BY SMT, <1>7, <2>1, <2>3
  <2>6. Inside(c)'
    BY <2>1, <2>3, <2>4, <2>5 DEF Inside
  <2>7. Place(c)'
    BY <1>5, <2>1, <2>6 DEF Place, Counted, Stands, Start, Written
  <2> QED
    BY <1>5, <2>1, <2>7, SameStream
<1>15. CASE Deliver
  <2> DEFINE Buffers == [from : Nat, to : Nat, length : Nat]
             packet  == [from |-> base, to |-> position, length |-> got]
  <2>1. /\ pc = "deliver" /\ delivered' = Append(delivered, packet)
        /\ base' = position /\ got' = 0 /\ pc' = "read"
        /\ UNCHANGED <<ends, arrived, conn, position, remaining>>
    BY <1>15 DEF Deliver
  <2>2. /\ Len(ends) = c \/ Len(ends) = c + 1
        /\ position = ends[c] /\ got = position - base
        /\ remaining = 0 /\ (Len(ends) = c + 1 => Begun(c + 1))
    BY <1>5, <2>1 DEF Place, Counted, Stands, Complete
  <2>3. Len(ends) >= c
    BY SMT, <1>8, <2>2
  <2>4. ends[c] = e /\ c \in DOMAIN ends /\ position = e
    BY <1>5, <2>2, <2>3
  <2>5. delivered \in Seq(Buffers)
    BY DEF FrameInv, DeliveredInv
  <2>6. packet \in Buffers
    <3>1. got \in Nat
      BY SMT, <1>6, <2>2
    <3> QED
      BY <1>6, <3>1
  <2>7. packet = [from |-> Start(c), to |-> ends[c], length |-> ends[c] - Start(c)]
    BY <1>5, <1>6, <2>2
  <2> HIDE DEF packet, Buffers
  <2>8. /\ delivered' \in Seq(Buffers) /\ Len(delivered') = Len(delivered) + 1
        /\ DOMAIN delivered = 1..Len(delivered) /\ DOMAIN delivered' = 1..Len(delivered) + 1
        /\ \A i \in 1..Len(delivered) : delivered'[i] = delivered[i]
        /\ delivered'[Len(delivered) + 1] = packet /\ Len(delivered) \in Nat
    BY <2>1, <2>5, <2>6, AppendFacts
  <2>9. \A i : Start(i)' = Start(i)
    BY <2>1 DEF Start
  <2>10. DeliveredWhole'
    <3> SUFFICES ASSUME NEW i \in DOMAIN delivered'
                 PROVE  /\ i \in DOMAIN ends
                        /\ delivered'[i] = [from |-> Start(i), to |-> ends[i],
                                            length |-> ends[i] - Start(i)]
      BY <2>1, <2>9 DEF DeliveredWhole
    <3>1. CASE i \in DOMAIN delivered
      BY <2>8, <3>1 DEF FrameInv, DeliveredInv, DeliveredWhole
    <3>2. CASE i = c
      BY <1>5, <2>4, <2>7, <2>8, <3>2
    <3>3. i \in 1..Len(delivered) \/ i = Len(delivered) + 1
      BY SMT, <2>8
    <3> QED
      BY <1>5, <2>8, <3>1, <3>2, <3>3
  <2>11. DeliveredInv'
    <3>1. Len(delivered') <= Len(ends')
      BY SMT, <1>5, <2>1, <2>3, <2>8
    <3> QED
      BY <2>8, <2>10, <3>1 DEF DeliveredInv, Buffers
  <2>12. StreamInv'
    BY <2>1, <2>9 DEF FrameInv, StreamInv
  <2>13. c + 1 = Len(delivered') + 1 /\ Start(c + 1)' = e /\ Written' = w
    <3>1. c + 1 # 1 /\ c + 1 - 1 = c
      BY SMT, <1>5
    <3> QED
      BY <1>5, <2>1, <2>4, <2>8, <3>1 DEF Start, Written
  <2>14. Begun(c + 1) => Begun(c + 1)'
    BY <2>1, <2>9 DEF Begun
  <2>15. Between(c + 1)'
    <3>1. Len(ends) <= c + 1
      BY SMT, <1>5, <2>2
    <3> QED
      BY <2>1, <2>2, <2>14, <3>1 DEF Between
  <2>16. Place(c + 1)'
    <3>1. position <= position
      BY SMT, <1>6
    <3> QED
      BY <1>6, <2>1, <2>4, <2>13, <2>15, <3>1 DEF Place, Counted, Stands
  <2>17. PlaceInv'
    BY <2>13, <2>16 DEF PlaceInv
  <2> QED
    BY <2>11, <2>12, <2>17 DEF FrameInv
<1>16. CASE Begin
  <2>1. /\ conn = "open" /\ arrived = w /\ position = arrived
        /\ UNCHANGED <<conn, pc, position, base, got, remaining, delivered>>
    BY <1>5, <1>7, <1>16 DEF Begin
  <2>2. PICK size \in Sizes : \E k \in Min({FirstBytes, size})..size :
          ends' = Append(ends, arrived + size) /\ arrived' = arrived + k
    BY <1>16 DEF Begin
  <2>3. PICK k \in Min({FirstBytes, size})..size :
          ends' = Append(ends, arrived + size) /\ arrived' = arrived + k
    BY <2>2
  <2>4. size \in Nat /\ size >= 2 /\ size <= 16386
    BY SizeTypes
  <2>5. k \in Nat /\ k <= size /\ (k >= 3 \/ k = size)
    <3>1. Min({FirstBytes, size}) = IF FirstBytes <= size THEN FirstBytes ELSE size
      BY <1>7, <2>4, MinTwo
    <3>2. k \in (IF FirstBytes <= size THEN FirstBytes ELSE size)..size
      BY <2>3, <3>1
    <3> QED
      BY SMT, <1>7, <2>4, <3>2
  <2>6. arrived + size \in Nat
    BY SMT, <1>6, <2>4
  <2>7. ends \in Seq(Nat)
    BY DEF FrameInv, StreamInv
  <2>8. PICK m \in Nat : m = Len(ends)
    BY <1>9
  <2>9. /\ m \in Nat /\ m >= c - 1 /\ (m = c - 1 => h = w) /\ (m = c => e = w)
        /\ (m >= c => e >= h + 2) /\ (m = c + 1 => w >= e + 2)
    BY <1>9, <2>8
  <2>10. /\ ends' \in Seq(Nat) /\ Len(ends) = m /\ Len(ends') = m + 1
         /\ DOMAIN ends = 1..m /\ DOMAIN ends' = 1..m + 1
         /\ \A i \in 1..m : ends'[i] = ends[i]
         /\ ends'[m + 1] = w + size
    BY <2>1, <2>3, <2>6, <2>7, <2>8, AppendFacts
  <2>11. \A i \in 1..m : ends[i] \in Nat
    BY SMT, <2>7, <2>10
  <2>12. ASSUME NEW i, i = m + 1 PROVE Start(i)' = w
    <3>1. ends = <<>> <=> m = 0
      BY SMT, <2>7, <2>10
    <3>2. CASE m = 0
      <4>1. m + 1 = 1
        BY SMT, <3>2
      <4> QED
        BY <1>5, <3>1, <3>2, <2>12, <4>1 DEF Start, Written
    <3>3. CASE m # 0
      <4>1. m + 1 # 1 /\ m + 1 - 1 = m /\ m \in 1..m
        BY SMT, <1>9, <2>9, <3>3
      <4> QED
        BY <1>5, <2>10, <3>1, <3>3, <2>12, <4>1 DEF Start, Written
    <3> QED
      BY <3>2, <3>3
  <2>13. ASSUME NEW i \in 1..m PROVE Start(i)' = Start(i)
    <3>1. CASE i = 1
      BY <3>1 DEF Start
    <3>2. CASE i # 1
      <4>1. i - 1 \in 1..m
        BY SMT, <1>9, <2>9, <3>2
      <4> QED
        BY <2>10, <3>2, <4>1 DEF Start
    <3> QED
      BY <3>1, <3>2
  <2>14. ASSUME NEW i \in 1..m PROVE ends[i] \in Nat /\ ends[i] <= w
    <3>1. /\ m \in 1..m /\ m # 0 /\ (i = m \/ i < m)
      BY SMT, <1>9, <2>9
    <3>2. ends # <<>>
      <4>1. Len(<<>>) = 0
        BY SMT
      <4> QED
        BY <2>10, <3>1, <4>1
    <3>3. w = ends[m]
      BY <1>5, <2>10, <3>2 DEF Written
    <3>4. ends[i] = ends[m] \/ ends[i] < ends[m]
      BY <2>10, <3>1 DEF FrameInv, StreamInv
    <3>5. ends[i] \in Nat /\ ends[m] \in Nat
      BY <2>11, <3>1
    <3> QED
      BY SMT, <3>3, <3>4, <3>5
  <2>15. StreamInv'
    <3>1. ASSUME NEW i \in DOMAIN ends' PROVE ends'[i] - Start(i)' \in Sizes
      <4>1. CASE i \in 1..m
        BY <2>10, <2>13, <4>1 DEF FrameInv, StreamInv
      <4>2. CASE i = m + 1
        <5>1. ends'[i] = w + size /\ Start(i)' = w /\ size \in Sizes
          BY <2>2, <2>10, <2>12, <4>2
        <5>2. ends'[i] - Start(i)' = size
          BY SMT, <1>9, <2>4, <5>1
        <5> QED
          BY <5>1, <5>2
      <4>3. i \in 1..m + 1
        BY <2>10
      <4>4. i \in 1..m \/ i = m + 1
        BY SMT, <1>9, <2>9, <4>3
      <4> QED
        BY <4>1, <4>2, <4>4
    <3>2. ASSUME NEW i \in DOMAIN ends', NEW j \in DOMAIN ends', i < j PROVE ends'[i] < ends'[j]
      <4>1. i \in 1..m + 1 /\ j \in 1..m + 1
        BY <2>10
      <4>2. i \in 1..m /\ (j \in 1..m \/ j = m + 1)
        BY SMT, <1>9, <2>9, <3>2, <4>1
      <4>3. CASE j \in 1..m
        BY <2>10, <3>2, <4>2, <4>3 DEF FrameInv, StreamInv
      <4>4. CASE j = m + 1
        <5>1. ends'[i] = ends[i] /\ ends[i] \in Nat /\ ends[i] <= w /\ ends'[j] = w + size
          BY <2>10, <2>14, <4>2, <4>4
        <5> QED
          BY SMT, <1>9, <2>4, <5>1
      <4> QED
        BY <4>2, <4>3, <4>4
    <3> QED
      BY <2>10, <3>1, <3>2 DEF StreamInv
  <2>16. DeliveredInv'
    <3>1. Len(delivered') <= Len(ends')
      <4>1. Len(delivered) <= m /\ c = Len(delivered) + 1
        BY <1>5, <2>10 DEF FrameInv, DeliveredInv
      <4>2. Len(delivered) \in Nat
        BY SMT DEF FrameInv, DeliveredInv
      <4>3. Len(delivered) <= m + 1
        BY SMT, <2>9, <4>1, <4>2
      <4> QED
        BY <2>1, <2>10, <4>3
    <3>2. DeliveredWhole'
      <4> SUFFICES ASSUME NEW i \in DOMAIN delivered
                   PROVE  /\ i \in DOMAIN ends'
                          /\ delivered[i] = [from |-> Start(i)', to |-> ends'[i],
                                             length |-> ends'[i] - Start(i)']
        BY <2>1 DEF DeliveredWhole
      <4>1. i \in 1..m
        BY <2>10 DEF FrameInv, DeliveredInv, DeliveredWhole
      <4>2. i \in 1..m + 1
        BY SMT, <1>9, <2>9, <4>1
      <4>3. Start(i)' = Start(i) /\ ends'[i] = ends[i]
        BY <2>10, <2>13, <4>1
      <4>4. delivered[i] = [from |-> Start(i), to |-> ends[i], length |-> ends[i] - Start(i)]
        BY DEF FrameInv, DeliveredInv, DeliveredWhole
      <4> QED
        BY <2>10, <4>2, <4>3, <4>4
    <3> QED
      BY <2>1, <3>1, <3>2 DEF FrameInv, DeliveredInv
  <2>17. Written' = w + size
    <3>1. ends' # <<>>
      <4>1. m + 1 # 0 /\ Len(<<>>) = 0
        BY SMT, <2>9
      <4> QED
        BY <2>10, <4>1
    <3> QED
      BY <2>10, <3>1 DEF Written
  <2>18. Start(c)' = h
    <3>1. CASE c \in 1..m
      BY <1>5, <2>13, <3>1
    <3>2. CASE c = m + 1
      <4>1. m = c - 1
        BY SMT, <1>8, <2>9, <3>2
      <4> QED
        BY <2>9, <2>12, <3>2, <4>1
    <3>3. c \in 1..m \/ c = m + 1
      BY SMT, <1>5, <2>9, <2>10
    <3> QED
      BY <3>1, <3>2, <3>3
  <2>19. Begun(m + 1)'
    <3>1. arrived' >= w + 3 \/ arrived' = w + size
      BY SMT, <1>6, <1>9, <2>1, <2>3, <2>4, <2>5
    <3> QED
      BY <2>10, <2>12, <3>1 DEF Begun
  <2>20. position <= arrived' /\ arrived' <= Written' /\ arrived' \in Nat
    BY SMT, <1>6, <2>1, <2>3, <2>4, <2>5, <2>17
  <2>21. Between(c) => Between(c)' /\ m # c
    <3> SUFFICES ASSUME Between(c) PROVE Between(c)' /\ m # c
      OBVIOUS
    <3>1. position = base /\ got = 0 /\ remaining = 0 /\ m <= c
      BY <2>10 DEF Between
    <3>2. m # c
      BY SMT, <1>6, <1>8, <2>1, <2>9, <3>1
    <3>3. m + 1 = c /\ c <= c
      BY SMT, <1>8, <2>9, <3>1, <3>2
    <3>4. Begun(c)'
      BY <2>19, <3>3
    <3> QED
      BY <2>1, <2>10, <3>1, <3>2, <3>3, <3>4 DEF Between
  <2>22. ~ Inside(c)
    <3> SUFFICES ASSUME Inside(c) PROVE FALSE
      OBVIOUS
    <3>1. m = c /\ position < ends[c] /\ m >= c
      <4>1. m = c /\ position < ends[c]
        BY <2>10 DEF Inside
      <4> QED
        BY SMT, <1>8, <4>1
    <3>2. position < e
      BY <1>5, <2>10, <3>1
    <3>3. m = c
      BY <3>1
    <3> QED
      BY SMT, <1>6, <1>9, <2>9, <2>1, <3>2, <3>3
  <2>23. Complete(c) => Complete(c)'
    <3> SUFFICES ASSUME Complete(c) PROVE Complete(c)'
      OBVIOUS
    <3>1. /\ m = c \/ m = c + 1
          /\ position = ends[c] /\ got = position - base /\ remaining = 0
      BY <2>10 DEF Complete
    <3>2. m >= c
      <4>1. m = c \/ m = c + 1
        BY <3>1
      <4> QED
        BY SMT, <1>8, <4>1
    <3>3. ends[c] = e /\ c \in DOMAIN ends /\ position = e
      BY <1>5, <2>10, <3>1, <3>2
    <3>4. m # c + 1
      <4>1. position = e
        BY <3>3
      <4> QED
        BY SMT, <1>6, <1>9, <2>1, <2>9, <4>1
    <3>5. m = c /\ Len(ends') = c + 1 /\ ends'[c] = ends[c] /\ Begun(c + 1)'
      BY <2>10, <2>19, <3>1, <3>3, <3>4
    <3> QED
      BY <2>1, <3>1, <3>5 DEF Complete
  <2>24. Place(c)'
    BY <1>5, <1>6, <2>1, <2>18, <2>20, <2>21, <2>22, <2>23 DEF Place, Counted, Stands
  <2>25. PlaceInv'
    BY <1>5, <2>1, <2>24 DEF PlaceInv
  <2> QED
    BY <2>15, <2>16, <2>25 DEF FrameInv
<1>17. CASE Continue
  <2>1. /\ conn = "open" /\ UNCHANGED <<ends, conn, pc, position, base, got, remaining, delivered>>
        /\ \E k \in 1..(w - arrived) : arrived' = arrived + k
    BY <1>5, <1>17 DEF Continue
  <2>2. arrived' \in Nat /\ arrived < arrived' /\ arrived' <= w /\ position <= arrived'
    <3>1. PICK k \in 1..(w - arrived) : arrived' = arrived + k
      BY <2>1
    <3> QED
      BY SMT, <1>6, <1>9, <3>1
  <2>3. Written' = w /\ \A i : Start(i)' = Start(i)
    BY <1>5, <2>1 DEF Written, Start
  <2>4. Len(ends) = c /\ Begun(c) => Begun(c)'
    <3> SUFFICES ASSUME Len(ends) = c, Begun(c) PROVE Begun(c)'
      OBVIOUS
    <3>1. Len(ends) >= c
      BY SMT, <1>8
    <3>2. arrived >= h + 3 \/ arrived = e
      BY <1>5, <2>1, <3>1 DEF Begun
    <3>3. arrived' >= h + 3
      <4>1. arrived \in Nat /\ arrived' \in Nat /\ arrived < arrived' /\ arrived' <= e /\ h \in Int /\ e \in Int
        BY <1>6, <1>9, <2>2
      <4> QED
        BY SMT, <3>2, <4>1
    <3> QED
      BY <1>5, <2>3, <3>3 DEF Begun
  <2>5. Len(ends) = c + 1 /\ Begun(c + 1) => Begun(c + 1)'
    <3> SUFFICES ASSUME Len(ends) = c + 1, Begun(c + 1) PROVE Begun(c + 1)'
      OBVIOUS
    <3>1. arrived >= e + 3 \/ arrived = w
      BY <1>5, <2>1 DEF Begun
    <3>2. arrived' >= e + 3
      <4>1. arrived \in Nat /\ arrived' \in Nat /\ arrived < arrived' /\ arrived' <= w /\ e \in Int /\ w \in Int
        BY <1>6, <1>9, <2>2
      <4> QED
        BY SMT, <3>1, <4>1
    <3> QED
      BY <1>5, <2>3, <3>2 DEF Begun
  <2>6. Between(c) => Between(c)'
    BY <2>1, <2>4 DEF Between
  <2>7. Inside(c) => Inside(c)'
    BY <2>1 DEF Inside
  <2>8. Complete(c) => Complete(c)'
    BY <2>1, <2>5 DEF Complete
  <2>9. Place(c)'
    <3>1. Counted(c)'
      BY <1>5, <2>1, <2>2, <2>3 DEF Place, Counted
    <3>2. Stands(c)'
      BY <1>5, <2>1, <2>6, <2>7, <2>8 DEF Place, Stands
    <3> QED
      BY <3>1, <3>2 DEF Place
  <2> QED
    BY <1>5, <2>1, <2>9, SameStream
<1>18. CASE Close \/ UNCHANGED vars
  <2>1. /\ UNCHANGED <<ends, arrived, pc, position, base, got, remaining, delivered>>
        /\ conn' = conn \/ (conn = "open" /\ conn' = "closed")
    BY <1>18 DEF Close, vars
  <2>2. Written' = Written /\ \A i : Start(i)' = Start(i) /\ (Begun(i) => Begun(i)')
    BY <2>1 DEF Written, Start, Begun
  <2>3. (Between(c) => Between(c)') /\ (Complete(c) => Complete(c)')
    BY <2>1, <2>2 DEF Between, Complete
  <2>4. Inside(c) => Inside(c)'
    BY <2>1 DEF Inside
  <2>5. Place(c)'
    <3>1. Counted(c)'
      <4>1. conn \in {"open", "closed", "reset"} => conn' \in {"open", "closed", "reset"}
        BY <2>1
      <4>2. conn' = "reset" => conn = "reset"
        BY <2>1
      <4> QED
        BY <1>5, <2>1, <2>2, <4>1, <4>2 DEF Place, Counted
    <3>2. Stands(c)'
      <4>1. CASE conn = "reset"
        BY <1>5, <2>1, <2>3, <2>4, <4>1 DEF Place, Stands
      <4>2. CASE conn # "reset"
        BY <1>5, <2>1, <2>3, <2>4, <4>2 DEF Place, Stands
      <4> QED
        BY <4>1, <4>2
    <3> QED
      BY <3>1, <3>2 DEF Place
  <2> QED
    BY <1>5, <2>1, <2>5, SameStream
<1>19. CASE Reset
  <2>1. /\ conn' = "reset" /\ arrived' = position
        /\ UNCHANGED <<ends, pc, position, base, got, remaining, delivered>>
    BY <1>19 DEF Reset
  <2>2. Written' = Written /\ \A i : Start(i)' = Start(i) /\ Begun(i)'
    BY <2>1 DEF Written, Start, Begun
  <2>3. (Between(c) => Between(c)') /\ (Complete(c) => Complete(c)')
    BY <2>1, <2>2 DEF Between, Complete
  <2>4. Inside(c) => Inside(c)'
    BY <2>1 DEF Inside
  <2>5. position <= arrived' /\ arrived' <= w
    BY SMT, <1>6, <1>9, <2>1
  <2>6. Place(c)'
    <3>1. Counted(c)'
      BY <1>5, <1>6, <2>1, <2>2, <2>5 DEF Place, Counted
    <3>2. Stands(c)'
      BY <1>5, <2>1, <2>3, <2>4 DEF Place, Stands
    <3> QED
      BY <3>1, <3>2 DEF Place
  <2> QED
    BY <1>5, <2>1, <2>6, SameStream
<1> QED
  BY <1>10, <1>11, <1>12, <1>13, <1>14, <1>15, <1>16, <1>17, <1>18, <1>19 DEF Next, ReaderSteps

-----------------------------------------------------------------------------
(* The theorems. *)

\* No buffer is longer than the largest packet, and the counts of the loops are what
\* their types hold (socket_read_write.c 73-120).
THEOREM ReaderTypes == OneByOne => (Spec => []TypeOK)
<1> SUFFICES ASSUME OneByOne PROVE Spec => []TypeOK
  OBVIOUS
<1>1. FrameInv => TypeOK
  <2> SUFFICES ASSUME FrameInv PROVE TypeOK
    OBVIOUS
  <2>1. PICK c : c = Len(delivered) + 1
    OBVIOUS
  <2>2. PICK h : h = Start(c)
    OBVIOUS
  <2>3. PICK w : w = Written
    OBVIOUS
  <2>4. PICK e : e = IF Len(ends) >= c THEN ends[c] ELSE 0
    OBVIOUS
  <2>5. /\ c \in Int /\ h \in Int /\ e \in Int /\ w \in Int
        /\ c = Len(delivered) + 1 /\ h = Start(c) /\ w = Written /\ Place(c)
        /\ h >= 0 /\ Len(ends) \in Nat
        /\ Len(ends) >= c => e = ends[c] /\ c \in DOMAIN ends
    <3>1. Borders(c, h, e, w)
      BY <2>1, <2>2, <2>3, <2>4, PlaceFacts
    <3> QED
      BY <2>1, <2>2, <2>3, <3>1 DEF Borders
  <2>6. /\ arrived \in Nat /\ position \in Nat /\ base \in Nat
        /\ base = h /\ base <= position /\ position <= arrived /\ arrived <= w
        /\ conn \in {"open", "closed", "reset"}
        /\ pc \in {"read", "more", "deliver", "probe", "done"}
    BY <2>5 DEF Place, Counted, Stands
  <2>7. arrived \in 0..Written /\ position \in 0..arrived /\ base \in 0..position
    BY SMT, <2>5, <2>6
  <2>8. Max(Sizes) \in Nat /\ Modulus \in Nat /\ Modulus > 0
    <3>1. Max(Sizes) \in Nat /\ Modulus > Max(Sizes)
      BY MaxSize, SizeTypes
    <3>2. Modulus \in Nat
      BY ModulusAssumption
    <3> QED
      BY SMT, <3>1, <3>2
  <2>9. Len(ends) >= c => e - h <= Max(Sizes)
    BY <2>5, MaxSize DEF FrameInv, StreamInv
  <2>10. /\ got \in Nat /\ remaining \in Nat /\ remaining < Modulus /\ got <= Max(Sizes)
    <3>1. CASE Between(c)
      BY SMT, <2>8, <3>1 DEF Between
    <3>2. CASE Inside(c)
      <4>1. /\ Len(ends) = c /\ position < ends[c] /\ got \in Nat /\ got <= position - base
            /\ remaining \in Nat /\ remaining < Modulus
        BY <3>2 DEF Inside
      <4>2. Len(ends) >= c
        BY SMT, <2>5, <4>1
      <4>3. position < e /\ e - h <= Max(Sizes)
        BY <2>5, <2>9, <4>1, <4>2
      <4>4. got <= Max(Sizes)
        <5>1. h \in Int /\ e \in Int
          BY <2>5
        <5> QED
          BY SMT, <2>6, <2>8, <4>1, <4>3, <5>1
      <4> QED
        BY <4>1, <4>4
    <3>3. CASE Complete(c)
      <4>1. /\ Len(ends) = c \/ Len(ends) = c + 1
            /\ position = ends[c] /\ got = position - base /\ remaining = 0
        BY <3>3 DEF Complete
      <4>2. Len(ends) >= c
        BY SMT, <2>5, <4>1
      <4>3. position = e /\ e - h <= Max(Sizes)
        BY <2>5, <2>9, <4>1, <4>2
      <4> QED
        BY SMT, <2>6, <2>8, <4>1, <4>3
    <3> QED
      BY <2>5, <3>1, <3>2, <3>3 DEF Place, Counted, Stands
  <2>11. got \in 0..Max(Sizes) /\ remaining \in 0..(Modulus - 1)
    BY SMT, <2>8, <2>10
  <2> QED
    BY <2>6, <2>7, <2>11 DEF TypeOK, FrameInv, StreamInv, DeliveredInv
<1> QED
  BY <1>1, FrameInit, FrameStep, PTL DEF Spec

\* mqtt_receive is given the packets of the stream, whole, in order and none left
\* out: for any sizes of two length bytes at most, any segments, any number of
\* packets, and a connection closed or reset at any moment.
THEOREM PacketsWhole == OneByOne => (Spec => []DeliveredWhole)
<1> SUFFICES ASSUME OneByOne PROVE Spec => []DeliveredWhole
  OBVIOUS
<1>1. FrameInv => DeliveredWhole
  BY DEF FrameInv, DeliveredInv
<1> QED
  BY <1>1, FrameInit, FrameStep, PTL DEF Spec

\* The thread asks for more only while the packet is not complete.
THEOREM NoWait == OneByOne => (Spec => []FitsDirectly)
<1> SUFFICES ASSUME OneByOne PROVE Spec => []FitsDirectly
  OBVIOUS
<1>1. FrameInv => FitsDirectly
  <2> SUFFICES ASSUME FrameInv, pc = "more", NEW i \in DOMAIN ends, Start(i) = base
               PROVE  position < ends[i]
    BY DEF FitsDirectly
  <2>1. PICK c : c = Len(delivered) + 1
    OBVIOUS
  <2>2. /\ Place(c) /\ Len(ends) \in Nat /\ c \in Int
        /\ Len(ends) >= c => c \in DOMAIN ends
    <3>1. PICK h, w, e : h = Start(c) /\ w = Written /\ e = IF Len(ends) >= c THEN ends[c] ELSE 0
      OBVIOUS
    <3>2. Borders(c, h, e, w)
      BY <2>1, <3>1, PlaceFacts
    <3> QED
      BY <3>2 DEF Borders
  <2>3. Inside(c) /\ base = Start(c)
    BY <2>2 DEF Place, Counted, Stands
  <2>4. Len(ends) = c /\ position < ends[c]
    BY <2>3 DEF Inside
  <2>5. Len(ends) >= c
    BY SMT, <2>2, <2>4
  <2>6. i = c
    BY <2>2, <2>3, <2>5, StartsDiffer
  <2> QED
    BY <2>4, <2>6
<1> QED
  BY <1>1, FrameInit, FrameStep, PTL DEF Spec
=============================================================================
