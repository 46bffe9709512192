-------------------------- MODULE TcpStreamProofs ---------------------------
(*****************************************************************************)
(* TcpStream implements ByteStream.  First what a segment does to the        *)
(* receiver, and what the sender cuts and sends; then the inductive invariant*)
(* StreamInv of the two hosts and the network; then its preservation, step by*)
(* step, and the theorems that follow from it.                               *)
(*****************************************************************************)
EXTENDS TcpWindowProofs

-----------------------------------------------------------------------------
(* Pieces of the stream: where each starts, and how long it is. *)

Lengths(P, top) == \A p \in P : p[1] \in Nat /\ p[2] \in Nat \ {0} /\ p[1] + p[2] <= top

Apart(p, q) == p = q \/ p[1] + p[2] <= q[1] \/ q[1] + q[2] <= p[1]

Disjoint(P) == \A p, q \in P : Apart(p, q)

\* No piece lies across a position.
Border(P, here) == \A p \in P : here <= p[1] \/ p[1] + p[2] <= here

Cut(P, here, top) == Lengths(P, top) /\ Disjoint(P) /\ Border(P, here)

LEMMA CutLess ==
  ASSUME NEW P, NEW here, NEW top, Cut(P, here, top), NEW Q, Q \subseteq P
  PROVE  Cut(Q, here, top)
BY DEF Cut, Lengths, Disjoint, Border

LEMMA PieceIs ==
  ASSUME NEW P, NEW top, Lengths(P, top), NEW a, NEW l, <<a, l>> \in P
  PROVE  a \in Nat /\ l \in Nat \ {0} /\ a + l <= top
<1>1. PICK p \in P : p = <<a, l>>
  OBVIOUS
<1>2. p[1] = a /\ p[2] = l
  BY <1>1
<1> QED  BY <1>2 DEF Lengths

LEMMA ApartIs ==
  ASSUME NEW P, Disjoint(P), NEW a, NEW l, <<a, l>> \in P, NEW b, NEW k, <<b, k>> \in P
  PROVE  (a = b /\ l = k) \/ a + l <= b \/ b + k <= a
<1>1. PICK p \in P, q \in P : p = <<a, l>> /\ q = <<b, k>>
  OBVIOUS
<1>2. p[1] = a /\ p[2] = l /\ q[1] = b /\ q[2] = k
  BY <1>1
<1>3. p = q \/ p[1] + p[2] <= q[1] \/ q[1] + q[2] <= p[1]
  BY DEF Disjoint, Apart
<1> QED  BY <1>2, <1>3

LEMMA BorderIs ==
  ASSUME NEW P, NEW here, Border(P, here), NEW a, NEW l, <<a, l>> \in P
  PROVE  here <= a \/ a + l <= here
<1>1. PICK p \in P : p = <<a, l>>
  OBVIOUS
<1>2. p[1] = a /\ p[2] = l
  BY <1>1
<1> QED  BY <1>2 DEF Border

\* The end of a piece is a border.
LEMMA EndIsBorder ==
  ASSUME NEW P, NEW top, Lengths(P, top), Disjoint(P), NEW a, NEW l, <<a, l>> \in P
  PROVE  Border(P, a + l)
<1>1. a \in Nat /\ l \in Nat \ {0}
  BY PieceIs
<1>2. ASSUME NEW p \in P PROVE a + l <= p[1] \/ p[1] + p[2] <= a + l
  <2>1. PICK q \in P : q = <<a, l>>
    OBVIOUS
  <2>2. q[1] = a /\ q[2] = l
    BY <2>1
  <2>3. p = q \/ p[1] + p[2] <= q[1] \/ q[1] + q[2] <= p[1]
    BY DEF Disjoint, Apart
  <2>4. p[1] \in Nat /\ p[2] \in Nat
    BY DEF Lengths
  <2>5. CASE p = q
    <3>1. p[1] = a /\ p[2] = l
      BY <2>2, <2>5
    <3> QED  BY <1>1, <3>1
  <2>6. CASE p[1] + p[2] <= q[1] \/ q[1] + q[2] <= p[1]
    BY <1>1, <2>2, <2>4, <2>6
  <2> QED  BY <2>3, <2>5, <2>6
<1> QED  BY <1>2 DEF Border

-----------------------------------------------------------------------------
(* Stored segments, one after the other. *)

StoredSet == [seq : Number, len : 1..MSS]

Stored(segs) == {<<Off(s.seq), s.len>> : s \in segs}

\* A position inside a stored segment.
Covered(segs, p) == \E s \in segs : Off(s.seq) <= p /\ p < Off(s.seq) + s.len

\* A place that the stored segments lead to from another one.
Reached(segs, P, from, x) ==
  /\ x \in Number /\ from <= Off(x) /\ \E a, l : <<a, l>> \in P /\ Off(x) = a + l
  /\ \A p \in from..Off(x) - 1 : Covered(segs, p)
  /\ Off(x) = from \/ \E s \in segs : Off(x) = Off(s.seq) + s.len

ChainStep(segs, x) ==
  LET next == RxFind(segs, x) IN IF next = {} THEN x ELSE Plus(x, (CHOOSE s \in next : TRUE).len)

LEMMA ChainOn ==
  ASSUME Unambiguous, NEW segs, segs \subseteq StoredSet, NEW P, NEW top \in 0..Total, Lengths(P, top),
         Stored(segs) \subseteq P, NEW from \in Nat, NEW x, Reached(segs, P, from, x)
  PROVE  /\ Reached(segs, P, from, ChainStep(segs, x))
         /\ \/ RxFind(segs, x) = {} /\ ChainStep(segs, x) = x
            \/ \E s \in segs : s.seq = x /\ Off(ChainStep(segs, x)) = Off(x) + s.len
<1>1. x \in Number /\ from <= Off(x) /\ \A p \in from..Off(x) - 1 : Covered(segs, p)
  BY DEF Reached
<1>2. CASE RxFind(segs, x) = {}
  BY <1>2 DEF ChainStep
<1>3. CASE RxFind(segs, x) # {}
  <2>1. PICK s : s = CHOOSE t \in RxFind(segs, x) : TRUE
    OBVIOUS
  <2>2. s \in segs /\ s.seq = x
    BY <1>3, <2>1 DEF RxFind
  <2>3. PICK y : y = Plus(x, s.len)
    OBVIOUS
  <2>4. ChainStep(segs, x) = y
    BY <1>3, <2>1, <2>3 DEF ChainStep
  <2>5. s.len \in 1..MSS
    BY <2>2 DEF StoredSet
  <2>6. s.len \in Nat /\ s.len > 0
    BY <2>5, WindowConstants
  <2>7. <<Off(x), s.len>> \in P
    <3>1. <<Off(s.seq), s.len>> \in Stored(segs)
      BY <2>2 DEF Stored
    <3> QED  BY <2>2, <3>1
  <2>8. Off(x) \in Nat /\ Off(x) + s.len <= top
    BY <2>7, PieceIs
  <2>9. Off(x) + s.len <= Total
    BY <2>6, <2>8, WindowConstants
  <2>10. y \in Number /\ Off(y) = Off(x) + s.len
    BY <1>1, <2>3, <2>6, <2>9, NumberSum
  <2>11. ASSUME NEW p \in from..Off(y) - 1 PROVE Covered(segs, p)
    <3>1. CASE p \in from..Off(x) - 1
      BY <1>1, <3>1
    <3>2. CASE p \notin from..Off(x) - 1
      <4>1. Off(x) <= p /\ p < Off(x) + s.len
        BY <2>6, <2>8, <2>10, <3>2
      <4> QED  BY <2>2, <4>1 DEF Covered
    <3> QED  BY <3>1, <3>2
  <2>12. from <= Off(y)
    BY <1>1, <2>6, <2>8, <2>10
  <2>13. Off(y) = Off(s.seq) + s.len
    BY <2>2, <2>10
  <2>14. Reached(segs, P, from, y)
    BY <2>2, <2>7, <2>10, <2>11, <2>12, <2>13 DEF Reached
  <2> QED  BY <2>2, <2>4, <2>10, <2>14
<1> QED  BY <1>2, <1>3

\* Every stored segment that starts before the end of the chain is one of its links.
LEMMA ChainIs ==
  ASSUME Unambiguous, NEW segs, segs \subseteq StoredSet, IsFiniteSet(segs),
         NEW P, NEW top \in 0..Total, Lengths(P, top), Disjoint(P),
         Stored(segs) \subseteq P, NEW start \in Number, NEW a, NEW l, <<a, l>> \in P, Off(start) = a + l,
         NEW c, c = Chain(segs, start), NEW n, n = Cardinality(segs)
  PROVE  /\ n \in Nat /\ DOMAIN c = 0..n /\ ChainEnd(segs, start) = c[n]
         /\ Reached(segs, P, Off(start), c[n])
         /\ \A s \in segs : Off(start) <= Off(s.seq) /\ Off(s.seq) < Off(c[n]) =>
                              s.seq \in {c[k] : k \in 0..n}
<1>1. n \in Nat
  BY FS_CardinalityType
<1>2. PICK from \in Nat : from = Off(start)
  BY OffType, WindowConstants
<1> DEFINE T == [k \in 0..n |-> {x \in Number : Reached(segs, P, from, x)}]
           R(f) == f = [k \in 0..n |-> IF k = 0 THEN start ELSE ChainStep(segs, f[k - 1])]
           step == [k \in 1..n |-> [x \in T[k - 1] |-> ChainStep(segs, x)]]
           end == CHOOSE f : R(f)
<1>3. start \in T[0]
  <2>1. \A p \in from..from - 1 : Covered(segs, p)
    BY <1>2
  <2>2. Reached(segs, P, from, start)
    BY <1>2, <2>1 DEF Reached
  <2>3. 0 \in 0..n
    BY <1>1
  <2> QED  BY <2>2, <2>3
<1>4. ASSUME NEW k \in 1..n, NEW x \in T[k - 1] PROVE ChainStep(segs, x) \in T[k]
  <2>1. k - 1 \in 0..n /\ k \in 0..n
    BY <1>1
  <2>2. Reached(segs, P, from, x)
    BY <2>1
  <2>3. Reached(segs, P, from, ChainStep(segs, x))
    BY <2>2, ChainOn
  <2>4. ChainStep(segs, x) \in Number
    BY <2>3 DEF Reached
  <2> QED  BY <2>1, <2>3, <2>4
<1> HIDE DEF T
<1>5. \E f : R(f)
  <2>1. \A k \in 1..n : \A x \in T[k - 1] : step[k][x] = ChainStep(segs, x)
    OBVIOUS
  <2>2. \A k \in 1..n : \A x \in T[k - 1] : step[k][x] \in T[k]
    BY <1>4, <2>1
  <2> HIDE DEF step
  <2>3. Stepped(n, T, start, step)
    BY <1>1, <1>3, <2>2, Steps
  <2>4. PICK f : /\ f = [k \in 0..n |-> IF k = 0 THEN start ELSE step[k][f[k - 1]]]
                 /\ \A k \in 0..n : f[k] \in T[k]
    BY <2>3 DEF Stepped
  <2>5. ASSUME NEW k \in 0..n
        PROVE (IF k = 0 THEN start ELSE step[k][f[k - 1]]) = IF k = 0 THEN start ELSE ChainStep(segs, f[k - 1])
    <3>1. k # 0 => k \in 1..n /\ k - 1 \in 0..n
      BY <1>1
    <3>2. k # 0 => f[k - 1] \in T[k - 1]
      BY <2>4, <3>1
    <3> QED  BY <2>1, <3>1, <3>2
  <2>6. R(f)
    BY <2>4, <2>5
  <2> HIDE DEF R
  <2> QED  BY <2>6
<1>6. R(end)
  BY <1>5
<1>7. c = end
  BY DEF Chain, ChainStep
<1> HIDE DEF end
<1>8. \A k \in 0..n : c[k] = IF k = 0 THEN start ELSE ChainStep(segs, c[k - 1])
  BY <1>6, <1>7
<1>9. DOMAIN c = 0..n
  BY <1>6, <1>7
<1>10. \A k \in 0..n : c[k] \in T[k]
  <2> DEFINE U == {k \in 0..n : c[k] \in T[k]}
  <2>1. 0 \in U
    BY <1>1, <1>3, <1>8
  <2>2. ASSUME NEW k \in 1..n, k - 1 \in U PROVE k \in U
    BY <1>4, <1>8, <2>2
  <2> HIDE DEF U
  <2>3. \A k \in 0..n : k \in U
    BY <1>1, <2>1, <2>2, Upward
  <2> QED  BY <2>3 DEF U
<1>11. \A k \in 0..n : Reached(segs, P, from, c[k])
  BY <1>10 DEF T
<1> DEFINE Linked(k) == \A s \in segs : from <= Off(s.seq) /\ Off(s.seq) < Off(c[k]) => s.seq \in {c[j] : j \in 0..n}
           V == {k \in 0..n : Linked(k)}
<1>12. 0 \in V
  <2>1. 0 \in 0..n /\ c[0] = start
    BY <1>1, <1>8
  <2>2. \A s \in segs : Off(s.seq) \in Nat
    <3>1. \A s \in segs : s.seq \in Number
      BY DEF StoredSet
    <3> QED  BY <3>1, OffType, WindowConstants
  <2>3. \A s \in segs : ~(from <= Off(s.seq) /\ Off(s.seq) < from)
    BY <2>2
  <2> QED  BY <1>2, <2>1, <2>3
<1>13. ASSUME NEW k \in 1..n, k - 1 \in V PROVE k \in V
  <2>1. k - 1 \in 0..n /\ k \in 0..n /\ Linked(k - 1) /\ k # 0
    BY <1>1, <1>13
  <2>2. PICK x : x = c[k - 1]
    OBVIOUS
  <2>3. c[k] = ChainStep(segs, x) /\ Reached(segs, P, from, x)
    BY <1>8, <1>11, <2>1, <2>2
  <2>4. \/ RxFind(segs, x) = {} /\ ChainStep(segs, x) = x
        \/ \E t \in segs : t.seq = x /\ Off(ChainStep(segs, x)) = Off(x) + t.len
    BY <2>3, ChainOn
  <2>5. CASE ChainStep(segs, x) = x
    BY <2>1, <2>2, <2>3, <2>5
  <2>6. CASE \E t \in segs : t.seq = x /\ Off(ChainStep(segs, x)) = Off(x) + t.len
    <3>1. PICK t \in segs : t.seq = x /\ Off(c[k]) = Off(x) + t.len
      BY <2>3, <2>6
    <3>2. ASSUME NEW s \in segs, from <= Off(s.seq), Off(s.seq) < Off(c[k]) PROVE s.seq \in {c[j] : j \in 0..n}
      <4>1. CASE Off(s.seq) < Off(x)
        BY <2>1, <2>2, <3>2, <4>1
      <4>2. CASE ~(Off(s.seq) < Off(x))
        <5>1. s.seq \in Number /\ t.seq \in Number /\ s.len \in 1..MSS /\ t.len \in 1..MSS
          BY DEF StoredSet
        <5>2. <<Off(s.seq), s.len>> \in P /\ <<Off(t.seq), t.len>> \in P
          BY DEF Stored
        <5>3. (Off(s.seq) = Off(t.seq) /\ s.len = t.len) \/ Off(s.seq) + s.len <= Off(t.seq) \/ Off(t.seq) + t.len <= Off(s.seq)
          BY <5>2, ApartIs
        <5>4. Off(s.seq) \in Nat /\ Off(t.seq) \in Nat
          BY <5>2, PieceIs
        <5>5. Off(s.seq) = Off(t.seq)
          BY <3>1, <3>2, <4>2, <5>1, <5>3, <5>4, WindowConstants
        <5>6. s.seq = t.seq
          BY <5>1, <5>5, OffInjective
        <5> QED  BY <2>1, <2>2, <3>1, <5>6
      <4> QED  BY <4>1, <4>2
    <3> QED  BY <2>1, <3>2
  <2> QED  BY <2>4, <2>5, <2>6
<1>14. n \in V
  <2> HIDE DEF V
  <2>1. \A k \in 0..n : k \in V
    BY <1>1, <1>12, <1>13, Upward
  <2>2. n \in 0..n
    BY <1>1
  <2> QED  BY <2>1, <2>2
<1>15. ChainEnd(segs, start) = c[n]
  BY DEF ChainEnd
<1>16. Linked(n) /\ n \in 0..n
  BY <1>1, <1>14
<1> QED  BY <1>1, <1>2, <1>9, <1>11, <1>15, <1>16
-----------------------------------------------------------------------------
(* What a segment does to the reception window and to rxStream. *)

RxWindowSet == [cur : Number, highest : Number, segs : SUBSET StoredSet]

\* A stored segment is ahead of the byte expected, and its bytes are in their places.
Ahead(w, b, t) ==
  \A s \in w.segs : /\ Off(w.cur) < Off(s.seq) /\ Off(s.seq) + s.len <= t + RxLength - 1
                    /\ Holds(b, Off(s.seq), Off(s.seq) + s.len)

\* t bytes have been read and their places given back.
RxOK(w, b, t) ==
  /\ w \in RxWindowSet /\ IsFiniteSet(w.segs)
  /\ Between(b, RxLength, t, Off(w.cur)) /\ Holds(b, t, Off(w.cur))
  /\ Ahead(w, b, t)

LEMMA RxWindowIs ==
  ASSUME NEW w \in RxWindowSet
  PROVE  /\ w.cur \in Number /\ w.highest \in Number /\ w.segs \subseteq StoredSet
         /\ Off(w.cur) \in Nat
         /\ \A s \in w.segs : s.seq \in Number /\ s.len \in 1..MSS /\ s.len \in Nat \ {0} /\ Off(s.seq) \in Nat
<1>1. w.cur \in Number /\ w.highest \in Number /\ w.segs \subseteq StoredSet
  BY DEF RxWindowSet
<1>2. \A s \in w.segs : s.seq \in Number /\ s.len \in 1..MSS
  BY <1>1 DEF StoredSet
<1> QED  BY <1>1, <1>2, OffType, WindowConstants

\* The bytes of a segment that starts at the position from.
Named(bytes, from) == bytes = [k \in 1..Len(bytes) |-> from + k]

\* Bytes put in their places leave the others in theirs.
LEMMA HoldsOn ==
  ASSUME NEW b, NEW c, NEW L \in Nat \ {0}, b.LENGTH = L, c.LENGTH = L, NEW t \in Nat, NEW x \in Nat, NEW n \in Nat,
         NEW bytes \in Seq(Byte), Len(bytes) = n, Named(bytes, x),
         Written(b, c, L, t, x, n, bytes)
  PROVE  /\ \A from \in Nat, to \in Nat : t <= from /\ to <= t + L /\ Holds(b, from, to) => Holds(c, from, to)
         /\ t <= x /\ x + n <= t + L => Holds(c, x, x + n)
<1>0. \A p \in t..t + L - 1 : c.array[Slot(p, L)] =
            IF x <= p /\ p < x + n THEN bytes[p - x + 1] ELSE b.array[Slot(p, L)]
  BY DEF Written
<1>1. \A k \in 1..n : bytes[k] = x + k
  BY DEF Named
<1>2. ASSUME NEW p \in t..t + L - 1, x <= p, p < x + n PROVE c.array[Slot(p, L)] = p + 1
  <2>1. p - x + 1 \in 1..n /\ x + (p - x + 1) = p + 1
    BY <1>2
  <2>2. c.array[Slot(p, L)] = bytes[p - x + 1]
    BY <1>0, <1>2
  <2> QED  BY <1>1, <2>1, <2>2
<1>3. ASSUME NEW from \in Nat, NEW to \in Nat, t <= from, to <= t + L, Holds(b, from, to) PROVE Holds(c, from, to)
  <2>1. ASSUME NEW p \in from..to - 1 PROVE c.array[Slot(p, L)] = p + 1
    <3>1. p \in t..t + L - 1
      BY <1>3
    <3>2. b.array[Slot(p, L)] = p + 1
      BY <1>3 DEF Holds
    <3>3. CASE x <= p /\ p < x + n
      BY <1>2, <3>1, <3>3
    <3>4. CASE ~(x <= p /\ p < x + n)
      BY <1>0, <3>1, <3>2, <3>4
    <3> QED  BY <3>3, <3>4
  <2> QED  BY <2>1 DEF Holds
<1>4. ASSUME t <= x, x + n <= t + L PROVE Holds(c, x, x + n)
  <2>1. ASSUME NEW p \in x..x + n - 1 PROVE c.array[Slot(p, L)] = p + 1
    <3>1. p \in t..t + L - 1 /\ x <= p /\ p < x + n
      BY <1>4
    <3> QED  BY <1>2, <3>1
  <2> QED  BY <2>1 DEF Holds
<1> QED  BY <1>3, <1>4

\* A selective acknowledgement is of bytes below the position top.
SackOK(sack, top) ==
  sack = <<>> \/ \E f, l \in Number : sack = <<f, l>> /\ Off(f) <= top /\ Off(l) <= top

\* What the reception of the piece <<a, l>> leaves in the window and in the stream.
Received(w, v, c, t, P, a, l, top) ==
  /\ RxOK(v, c, t) /\ Off(w.cur) <= Off(v.cur) /\ Off(v.cur) <= top
  /\ Border(P, Off(v.cur)) /\ Stored(v.segs) \subseteq Stored(w.segs) \cup {<<a, l>>}

\* The piece is refused.
LEMMA RefusedIs ==
  ASSUME NEW w, NEW b, NEW t, RxOK(w, b, t), NEW P, NEW top \in 0..Total, Cut(P, Off(w.cur), top), Off(w.cur) <= top,
         NEW a, NEW l, NEW sack, SackOK(sack, top), NEW check, check = RxRefused(w, sack),
         NEW bytes, NEW c, c = StoreRxData(b, check, bytes)
  PROVE  Received(w, check.w, c, t, P, a, l, top) /\ SackOK(check.sack, top)
<1>1. check.offset = -1 /\ check.user = 0 /\ check.w = w /\ check.sack = sack
  BY DEF RxRefused, None
<1>2. c = b
  BY <1>1 DEF StoreRxData
<1>3. Off(w.cur) \in Nat
  BY RxWindowIs DEF RxOK
<1> QED  BY <1>1, <1>2, <1>3 DEF Received, Cut

\* The piece is stored ahead of the byte expected.
LEMMA EarlyIs ==
  ASSUME Unambiguous, NEW w, NEW b, NEW t, RxOK(w, b, t), NEW P, NEW top \in 0..Total, Cut(P, Off(w.cur), top),
         Off(w.cur) <= top, Stored(w.segs) \subseteq P,
         NEW seq \in Number, NEW l \in 1..MSS, <<Off(seq), l>> \in P, Off(w.cur) < Off(seq),
         Off(seq) + l <= t + RxLength - 1,
         NEW bytes \in Seq(Byte), Len(bytes) = l, Named(bytes, Off(seq)),
         NEW check, check = RxEarly(w, seq, l), NEW c, c = StoreRxData(b, check, bytes)
  PROVE  Received(w, check.w, c, t, P, Off(seq), l, top) /\ SackOK(check.sack, top)
<1>1. /\ w \in RxWindowSet /\ IsFiniteSet(w.segs) /\ Lengths(P, top) /\ Disjoint(P)
      /\ Between(b, RxLength, t, Off(w.cur)) /\ Holds(b, t, Off(w.cur)) /\ Ahead(w, b, t)
  BY DEF RxOK, Cut
<1>2. w.cur \in Number /\ w.segs \subseteq StoredSet /\ Off(w.cur) \in Nat /\ w.highest \in Number
  BY <1>1, RxWindowIs
<1>3. l \in Nat \ {0} /\ Off(seq) \in Nat /\ Off(seq) + l <= top /\ Off(seq) + l <= Total
  <2>1. Off(seq) \in Nat /\ l \in Nat \ {0} /\ Off(seq) + l <= top
    BY <1>1, PieceIs
  <2> QED  BY <2>1, WindowConstants
<1>4. PICK start : start = Plus(seq, l)
  OBVIOUS
<1>5. start \in Number /\ Off(start) = Off(seq) + l
  BY <1>3, <1>4, NumberSum
<1>6. PICK e : e = ChainEnd(w.segs, start)
  OBVIOUS
<1>7. e \in Number /\ Off(e) <= top
  <2>1. Reached(w.segs, P, Off(start), e)
    BY <1>1, <1>2, <1>5, <1>6, ChainIs
  <2>2. e \in Number /\ \E x, y : <<x, y>> \in P /\ Off(e) = x + y
    BY <2>1 DEF Reached
  <2> QED  BY <1>1, <2>2, PieceIs
<1>8. PICK sack : sack = <<seq, e>>
  OBVIOUS
<1>9. SackOK(sack, top)
  <2>1. Off(seq) <= top
    BY <1>3
  <2> QED  BY <1>7, <1>8, <2>1 DEF SackOK
<1>10. SackOK(<<>>, top)
  BY DEF SackOK
<1>11. CASE RxFind(w.segs, seq) # {}
  <2>1. check = RxRefused(w, sack)
    BY <1>4, <1>6, <1>8, <1>11 DEF RxEarly
  <2> QED  BY <1>9, <2>1, RefusedIs
<1>12. CASE RxFind(w.segs, seq) = {} /\ Cardinality(w.segs) = SegCount
  <2>1. PICK none : none = <<>>
    OBVIOUS
  <2>2. check = RxRefused(w, none) /\ SackOK(none, top)
    BY <1>10, <1>12, <2>1 DEF RxEarly
  <2> QED  BY <2>2, RefusedIs
<1>13. CASE RxFind(w.segs, seq) = {} /\ Cardinality(w.segs) # SegCount
  <2>1. PICK s : s = [seq |-> seq, len |-> l]
    OBVIOUS
  <2>2. PICK segs : segs = w.segs \cup {s}
    OBVIOUS
  <2>3. PICK v : v = [w EXCEPT !.segs = segs]
    OBVIOUS
  <2>4. PICK offset : offset = Signed(Minus(seq, w.cur))
    OBVIOUS
  <2>5. check = [offset |-> offset, user |-> 0, sack |-> sack, w |-> v]
    BY <1>4, <1>6, <1>8, <1>13, <2>1, <2>2, <2>3, <2>4 DEF RxEarly
  <2>6. offset = Off(seq) - Off(w.cur)
    <3>1. Off(seq) <= Total /\ Off(w.cur) <= Total
      BY <1>2, <1>3, WindowConstants
    <3> QED  BY <1>2, <2>4, <3>1, Comparisons
  <2>7. offset \in Nat \ {0}
    BY <1>2, <1>3, <2>6
  <2>8. check.offset = offset /\ check.user = 0 /\ check.sack = sack /\ check.w = v
    BY <2>5
  <2>9. c = StreamAdd(b, offset, bytes, l)
    BY <2>7, <2>8 DEF StoreRxData
  <2>10. s \in StoredSet /\ s.seq = seq /\ s.len = l
    BY <2>1 DEF StoredSet
  <2>11. segs \subseteq StoredSet /\ IsFiniteSet(segs)
    BY <1>1, <1>2, <2>2, <2>10, FS_AddElement
  <2>12. v \in RxWindowSet /\ v.cur = w.cur /\ v.segs = segs
    BY <1>1, <2>3, <2>11 DEF RxWindowSet
  <2>13. RxLength \in Nat \ {0} /\ t \in Nat /\ t <= Off(w.cur) /\ b.LENGTH = RxLength
    BY <1>1 DEF Between, StreamType
  <2>14. PICK h \in Nat, x \in Nat : h = Off(w.cur) /\ x = Off(seq)
    BY <1>2, <1>3
  <2>15. /\ Between(c, RxLength, t, h)
         /\ Written(b, c, RxLength, t, x, l, bytes)
    <3>1. offset = x - h /\ h < x /\ x + l <= t + RxLength - 1 /\ t <= h
      BY <2>6, <2>13, <2>14
    <3>2. offset + l <= RxLength - 1 - (h - t) /\ h + offset = x
      BY <1>3, <2>13, <3>1
    <3>3. Between(b, RxLength, t, h)
      BY <1>1, <2>14
    <3>4. offset \in Nat /\ l \in Nat \ {0}
      BY <1>3, <2>7
    <3>5. Between(c, RxLength, t, IF offset = 0 THEN h + l ELSE h)
      BY <2>9, <3>2, <3>3, <3>4, AddedIs
    <3>6. Written(b, c, RxLength, t, h + offset, l, bytes)
      BY <2>9, <3>2, <3>3, <3>4, AddedIs
    <3>7. Between(c, RxLength, t, h)
      BY <2>7, <3>5
    <3> QED  BY <3>2, <3>6, <3>7
  <2>16. c.LENGTH = RxLength
    BY <2>15 DEF Between
  <2>17. /\ \A from \in Nat, to \in Nat : t <= from /\ to <= t + RxLength /\ Holds(b, from, to) => Holds(c, from, to)
         /\ t <= x /\ x + l <= t + RxLength => Holds(c, x, x + l)
    <3>1. Len(bytes) = l /\ l \in Nat /\ Named(bytes, x)
      BY <1>3, <2>14
    <3>2. Written(b, c, RxLength, t, x, l, bytes)
      BY <2>15
    <3> QED  BY <2>13, <2>16, <3>1, <3>2, HoldsOn
  <2>18. Holds(c, t, h)
    <3>1. h <= t + RxLength
      BY <1>1, <2>13, <2>14 DEF Between
    <3>2. Holds(b, t, h) /\ t \in Nat /\ h \in Nat /\ t <= t
      BY <1>1, <2>13, <2>14
    <3> QED  BY <2>17, <3>1, <3>2
  <2>19. Ahead(v, c, t)
    <3>1. ASSUME NEW r \in w.segs
          PROVE  /\ h < Off(r.seq) /\ Off(r.seq) + r.len <= t + RxLength - 1
                 /\ Holds(c, Off(r.seq), Off(r.seq) + r.len)
      <4>1. /\ h < Off(r.seq) /\ Off(r.seq) + r.len <= t + RxLength - 1
            /\ Holds(b, Off(r.seq), Off(r.seq) + r.len)
        BY <1>1, <2>14 DEF Ahead
      <4>2. Off(r.seq) \in Nat /\ r.len \in Nat
        BY <1>1, RxWindowIs
      <4>3. PICK f \in Nat, u \in Nat : f = Off(r.seq) /\ u = Off(r.seq) + r.len
        BY <4>2
      <4>4. t <= f /\ u <= t + RxLength
        BY <2>13, <2>14, <4>1, <4>3
      <4> QED  BY <2>17, <4>1, <4>3, <4>4
    <3>2. h < Off(s.seq) /\ Off(s.seq) + s.len <= t + RxLength - 1 /\ Holds(c, Off(s.seq), Off(s.seq) + s.len)
      <4>1. t <= x /\ x + l <= t + RxLength
        BY <1>3, <2>13, <2>14
      <4> QED  BY <2>10, <2>14, <2>17, <4>1
    <3> QED  BY <2>2, <2>12, <2>14, <3>1, <3>2 DEF Ahead
  <2>20. RxOK(v, c, t)
    BY <2>11, <2>12, <2>14, <2>15, <2>18, <2>19 DEF RxOK
  <2>21. Stored(segs) = Stored(w.segs) \cup {<<Off(seq), l>>}
    BY <2>2, <2>10 DEF Stored
  <2> QED  BY <1>2, <1>9, <2>8, <2>12, <2>20, <2>21 DEF Received, Cut
<1> QED  BY <1>11, <1>12, <1>13

\* The expected piece moves the window past it and past the stored ones behind it.
Moved(w, P, h, l, check, e, v) ==
  /\ e \in Number /\ h + l <= Off(e) /\ \E a, k : <<a, k>> \in P /\ Off(e) = a + k
  /\ \A p \in h + l..Off(e) - 1 : Covered(w.segs, p)
  /\ Off(e) = h + l \/ \E s \in w.segs : Off(e) = Off(s.seq) + s.len
  /\ check = [offset |-> 0, user |-> Off(e) - (h + l), sack |-> <<>>, w |-> v]
  /\ v \in RxWindowSet /\ v.cur = e /\ v.segs \subseteq w.segs
  /\ \A s \in v.segs : Off(e) < Off(s.seq)

\* No stored segment begins in the expected piece.
LEMMA NoneInside ==
  ASSUME Unambiguous, NEW w \in RxWindowSet, NEW h, h = Off(w.cur), NEW P, NEW top \in 0..Total, Cut(P, h, top),
         Stored(w.segs) \subseteq P, \A s \in w.segs : h < Off(s.seq), NEW l \in 1..MSS, <<h, l>> \in P
  PROVE  RxConfirm(w.segs, w.cur, l) = {} /\ \A s \in w.segs : h + l <= Off(s.seq)
<1>1. Lengths(P, top) /\ Disjoint(P) /\ w.cur \in Number /\ h \in Nat
  BY RxWindowIs DEF Cut
<1>2. l \in Nat \ {0} /\ h + l <= top /\ h + l <= Total /\ h <= Total
  <2>1. l \in Nat \ {0} /\ h + l <= top
    BY <1>1, PieceIs
  <2> QED  BY <1>1, <2>1, WindowConstants
<1>3. Plus(w.cur, l) \in Number /\ Off(Plus(w.cur, l)) = h + l
  BY <1>1, <1>2, NumberSum
<1>4. ASSUME NEW s \in w.segs
      PROVE  h + l <= Off(s.seq) /\ s.seq \in Number /\ Off(s.seq) \in Nat /\ Off(s.seq) <= Total
  <2>1. s.seq \in Number /\ s.len \in Nat \ {0} /\ Off(s.seq) \in Nat
    BY RxWindowIs
  <2>2. <<Off(s.seq), s.len>> \in P
    BY DEF Stored
  <2>3. (Off(s.seq) = h /\ s.len = l) \/ Off(s.seq) + s.len <= h \/ h + l <= Off(s.seq)
    BY <1>1, <2>2, ApartIs
  <2>4. Off(s.seq) + s.len <= top
    BY <1>1, <2>2, PieceIs
  <2>5. h < Off(s.seq)
    OBVIOUS
  <2>6. h + l <= Off(s.seq)
    BY <1>1, <2>1, <2>3, <2>5
  <2>7. Off(s.seq) <= Total
    BY <2>1, <2>4, WindowConstants
  <2> QED  BY <2>1, <2>6, <2>7
<1>5. ASSUME NEW s \in w.segs PROVE ~LessThan(s.seq, Plus(w.cur, l))
  <2>1. LessThan(s.seq, Plus(w.cur, l)) <=> Off(s.seq) < h + l
    BY <1>2, <1>3, <1>4, Comparisons
  <2>2. h + l <= Off(s.seq) /\ Off(s.seq) \in Nat
    BY <1>4
  <2> QED  BY <1>1, <1>2, <2>1, <2>2
<1> QED  BY <1>4, <1>5 DEF RxConfirm

LEMMA MovedIs ==
  ASSUME Unambiguous, NEW w \in RxWindowSet, IsFiniteSet(w.segs), NEW h, h = Off(w.cur),
         NEW P, NEW top \in 0..Total, Cut(P, h, top),
         Stored(w.segs) \subseteq P, \A s \in w.segs : h < Off(s.seq), NEW l \in 1..MSS, <<h, l>> \in P,
         NEW check, check = RxExpected(w, w.cur, l)
  PROVE  \E e, v : Moved(w, P, h, l, check, e, v)
<1>1. Lengths(P, top) /\ Disjoint(P) /\ w.cur \in Number /\ h \in Nat /\ w.segs \subseteq StoredSet
  BY RxWindowIs DEF Cut
<1>2. l \in Nat \ {0} /\ h + l <= top /\ h + l <= Total
  <2>1. l \in Nat \ {0} /\ h + l <= top
    BY <1>1, PieceIs
  <2> QED  BY <1>1, <2>1, WindowConstants
<1>3. PICK start : start = Plus(w.cur, l)
  OBVIOUS
<1>4. start \in Number /\ Off(start) = h + l
  BY <1>1, <1>2, <1>3, NumberSum
<1>5. RxConfirm(w.segs, w.cur, l) = {} /\ \A s \in w.segs : h + l <= Off(s.seq)
  BY NoneInside
<1>6. w.segs \ RxConfirm(w.segs, w.cur, l) = w.segs
  BY <1>5
<1>7. PICK c : c = Chain(w.segs, start)
  OBVIOUS
<1>8. PICK n : n = Cardinality(w.segs)
  OBVIOUS
<1>9. PICK e : e = ChainEnd(w.segs, start)
  OBVIOUS
<1>10. /\ n \in Nat /\ DOMAIN c = 0..n /\ e = c[n]
       /\ Reached(w.segs, P, Off(start), c[n])
       /\ \A s \in w.segs : Off(start) <= Off(s.seq) /\ Off(s.seq) < Off(c[n]) =>
                              s.seq \in {c[k] : k \in 0..n}
  BY <1>1, <1>4, <1>7, <1>8, <1>9, ChainIs
<1>11. PICK ends : ends = {c[k] : k \in DOMAIN c}
  OBVIOUS
<1>12. PICK left : left = {s \in w.segs : s.seq \notin ends}
  OBVIOUS
<1>13. PICK v : v = [w EXCEPT !.cur = e, !.segs = left]
  OBVIOUS
<1>14. check = [offset |-> 0, user |-> Minus(e, start), sack |-> <<>>, w |-> v]
  <2>1. RxConfirm(w.segs, w.cur, l) = {}
    BY <1>5
  <2> QED  BY <1>3, <1>6, <1>7, <1>9, <1>11, <1>12, <1>13, <2>1 DEF RxExpected
<1>15. /\ e \in Number /\ h + l <= Off(e) /\ \E a, k : <<a, k>> \in P /\ Off(e) = a + k
       /\ \A p \in h + l..Off(e) - 1 : Covered(w.segs, p)
       /\ Off(e) = h + l \/ \E s \in w.segs : Off(e) = Off(s.seq) + s.len
  BY <1>4, <1>10 DEF Reached
<1>16. Off(e) <= Total /\ Off(e) \in Nat
  <2>1. PICK a, k : <<a, k>> \in P /\ Off(e) = a + k
    BY <1>15
  <2>2. a \in Nat /\ k \in Nat /\ a + k <= top
    BY <1>1, <2>1, PieceIs
  <2> QED  BY <2>1, <2>2, WindowConstants
<1>17. Minus(e, start) = Off(e) - (h + l)
  BY <1>2, <1>4, <1>15, <1>16, Comparisons
<1>18. left \subseteq w.segs
  BY <1>12
<1>19. v \in RxWindowSet /\ v.cur = e /\ v.segs = left
  BY <1>1, <1>13, <1>15, <1>18 DEF RxWindowSet
<1>20. ASSUME NEW s \in left PROVE Off(e) < Off(s.seq)
  <2>1. s \in w.segs /\ s.seq \notin ends
    BY <1>12
  <2>2. s.seq \in Number /\ Off(s.seq) \in Nat
    BY <2>1, RxWindowIs
  <2>3. h + l <= Off(s.seq)
    BY <1>5, <2>1
  <2>4. ends = {c[k] : k \in 0..n} /\ e \in ends
    <3>1. n \in 0..n
      BY <1>10
    <3> QED  BY <1>10, <1>11, <3>1
  <2>5. ~(Off(s.seq) < Off(e))
    BY <1>4, <1>10, <2>1, <2>3, <2>4
  <2>6. Off(s.seq) # Off(e)
    BY <1>15, <2>1, <2>2, <2>4, OffInjective
  <2> QED  BY <1>16, <2>2, <2>5, <2>6
<1>21. Moved(w, P, h, l, check, e, v)
  BY <1>14, <1>15, <1>17, <1>18, <1>19, <1>20 DEF Moved
<1> QED  BY <1>21

\* The expected piece is added, and the stored ones behind it become readable.
LEMMA ExpectedIs ==
  ASSUME Unambiguous, NEW w, NEW b, NEW t, RxOK(w, b, t), NEW P, NEW top \in 0..Total, Cut(P, Off(w.cur), top),
         Off(w.cur) <= top, Stored(w.segs) \subseteq P,
         NEW l \in 1..MSS, <<Off(w.cur), l>> \in P, Off(w.cur) + l <= t + RxLength - 1,
         NEW bytes \in Seq(Byte), Len(bytes) = l, Named(bytes, Off(w.cur)),
         NEW check, check = RxExpected(w, w.cur, l), NEW c, c = StoreRxData(b, check, bytes)
  PROVE  Received(w, check.w, c, t, P, Off(w.cur), l, top) /\ SackOK(check.sack, top)
<1>1. /\ w \in RxWindowSet /\ IsFiniteSet(w.segs) /\ Lengths(P, top) /\ Disjoint(P)
      /\ Between(b, RxLength, t, Off(w.cur)) /\ Holds(b, t, Off(w.cur)) /\ Ahead(w, b, t)
  BY DEF RxOK, Cut
<1>2. PICK h \in Nat : h = Off(w.cur)
  BY <1>1, RxWindowIs
<1>3. l \in Nat \ {0} /\ h + l <= top
  <2>1. l \in Nat \ {0} /\ Off(w.cur) + l <= top
    BY <1>1, PieceIs
  <2> QED  BY <1>2, <2>1
<1>4. \A s \in w.segs : h < Off(s.seq)
  BY <1>1, <1>2 DEF Ahead
<1>5. PICK e, v : Moved(w, P, h, l, check, e, v)
  <2>1. Cut(P, h, top) /\ <<h, l>> \in P
    BY <1>2
  <2> QED  BY <1>1, <1>2, <1>4, <2>1, MovedIs
<1>6. /\ e \in Number /\ h + l <= Off(e)
      /\ \A p \in h + l..Off(e) - 1 : Covered(w.segs, p)
      /\ Off(e) = h + l \/ \E s \in w.segs : Off(e) = Off(s.seq) + s.len
      /\ v \in RxWindowSet /\ v.cur = e /\ v.segs \subseteq w.segs
      /\ \A s \in v.segs : Off(e) < Off(s.seq)
  BY <1>5 DEF Moved
<1>7. PICK a, k : <<a, k>> \in P /\ Off(e) = a + k
  BY <1>5 DEF Moved
<1>8. check.offset = 0 /\ check.user = Off(e) - (h + l) /\ check.sack = <<>> /\ check.w = v
  BY <1>5 DEF Moved
<1>9. Border(P, Off(e))
  BY <1>1, <1>7, EndIsBorder
<1>10. PICK g \in Nat : g = Off(e) /\ g <= top
  BY <1>1, <1>7, PieceIs
<1>11. RxLength \in Nat \ {0} /\ t \in Nat /\ t <= h /\ b.LENGTH = RxLength /\ Between(b, RxLength, t, h) /\ Holds(b, t, h)
  BY <1>1, <1>2 DEF Between, StreamType
<1>12. h + l <= t + RxLength - 1
  BY <1>2
<1>13. g <= t + RxLength - 1
  <2>1. CASE Off(e) = h + l
    BY <1>10, <1>12, <2>1
  <2>2. CASE \E s \in w.segs : Off(e) = Off(s.seq) + s.len
    <3>1. PICK s \in w.segs : Off(e) = Off(s.seq) + s.len
      BY <2>2
    <3>2. Off(s.seq) + s.len <= t + RxLength - 1
      BY <1>1 DEF Ahead
    <3> QED  BY <1>10, <3>1, <3>2
  <2> QED  BY <1>6, <2>1, <2>2
<1>14. PICK d : d = StreamAdd(b, 0, bytes, l)
  OBVIOUS
<1>15. /\ Between(d, RxLength, t, h + l)
       /\ Written(b, d, RxLength, t, h, l, bytes)
  <2>1. PICK o \in Nat : o = 0
    OBVIOUS
  <2>2. o + l <= RxLength - 1 - (h - t) /\ h + o = h
    BY <1>3, <1>11, <1>12, <2>1
  <2>3. d = StreamAdd(b, o, bytes, l)
    BY <1>14, <2>1
  <2>4. Between(d, RxLength, t, IF o = 0 THEN h + l ELSE h)
    BY <1>3, <1>11, <2>2, <2>3, AddedIs
  <2>5. Written(b, d, RxLength, t, h + o, l, bytes)
    <3>1. Between(b, RxLength, t, h)
      BY <1>11
    <3>2. l \in Nat \ {0}
      BY <1>3
    <3> QED  BY <2>2, <2>3, <3>1, <3>2, AddedIs
  <2> QED  BY <2>1, <2>2, <2>4, <2>5
<1>16. d.LENGTH = RxLength
  BY <1>15 DEF Between
<1>17. Between(c, RxLength, t, g) /\ c.array = d.array
  <2>1. (IF check.offset >= 0 THEN StreamAdd(b, check.offset, bytes, Len(bytes)) ELSE b) = d
    BY <1>8, <1>14
  <2>2. c = IF check.user > 0 THEN StreamAdd(d, 0, <<>>, check.user) ELSE d
    BY <2>1 DEF StoreRxData
  <2>3. PICK user \in Nat : user = check.user /\ g = h + l + user
    BY <1>3, <1>6, <1>8, <1>10
  <2>4. CASE user = 0
    <3>1. c = d /\ g = h + l
      BY <1>3, <2>2, <2>3, <2>4
    <3> QED  BY <1>15, <3>1
  <2>5. CASE user # 0
    <3>1. c = StreamAdd(d, 0, <<>>, user) /\ user \in Nat \ {0}
      BY <2>2, <2>3, <2>5
    <3>2. user <= RxLength - 1 - (h + l - t)
      BY <1>3, <1>11, <1>13, <2>3
    <3>3. PICK q \in Nat : q = h + l
      BY <1>3
    <3>4. Between(d, RxLength, t, q)
      BY <1>15, <3>3
    <3>5. Between(c, RxLength, t, q + user) /\ c.array = d.array
      <4>1. user <= RxLength - 1 - (q - t)
        BY <1>11, <2>3, <3>2, <3>3
      <4> QED  BY <3>1, <3>4, <4>1, AddedNone
    <3> QED  BY <2>3, <3>3, <3>5
  <2> QED  BY <2>4, <2>5
<1>18. c.LENGTH = RxLength
  BY <1>17 DEF Between
<1>19. /\ \A from \in Nat, to \in Nat : t <= from /\ to <= t + RxLength /\ Holds(b, from, to) => Holds(c, from, to)
       /\ t <= h /\ h + l <= t + RxLength => Holds(c, h, h + l)
  <2>1. Written(b, c, RxLength, t, h, l, bytes)
    BY <1>15, <1>17 DEF Written
  <2>2. Len(bytes) = l /\ l \in Nat /\ Named(bytes, h)
    BY <1>2, <1>3
  <2>3. RxLength \in Nat \ {0} /\ t \in Nat /\ b.LENGTH = RxLength
    BY <1>11
  <2> QED  BY <1>18, <2>1, <2>2, <2>3, HoldsOn
<1>20. ASSUME NEW s \in w.segs
       PROVE  /\ Off(s.seq) + s.len <= t + RxLength - 1 /\ Holds(c, Off(s.seq), Off(s.seq) + s.len)
  <2>1. /\ h < Off(s.seq) /\ Off(s.seq) + s.len <= t + RxLength - 1
        /\ Holds(b, Off(s.seq), Off(s.seq) + s.len)
    BY <1>1, <1>2 DEF Ahead
  <2>2. Off(s.seq) \in Nat /\ s.len \in Nat
    BY <1>1, RxWindowIs
  <2>3. PICK f \in Nat, u \in Nat : f = Off(s.seq) /\ u = Off(s.seq) + s.len
    BY <2>2
  <2>4. t <= f /\ u <= t + RxLength
    BY <1>11, <2>1, <2>3
  <2> QED  BY <1>19, <2>1, <2>3, <2>4
<1>21. Holds(c, t, g)
  <2>1. Holds(c, t, h) /\ Holds(c, h, h + l)
    <3>1. h <= t + RxLength /\ h + l <= t + RxLength /\ t <= t
      BY <1>3, <1>11, <1>12
    <3> QED  BY <1>11, <1>19, <3>1
  <2>2. ASSUME NEW p \in t..g - 1 PROVE c.array[Slot(p, RxLength)] = p + 1
    <3>1. CASE p \in t..h - 1
      BY <1>18, <2>1, <3>1 DEF Holds
    <3>2. CASE p \in h..h + l - 1
      BY <1>18, <2>1, <3>2 DEF Holds
    <3>3. CASE p \in h + l..g - 1
      <4>1. PICK s \in w.segs : Off(s.seq) <= p /\ p < Off(s.seq) + s.len
        BY <1>6, <1>10, <3>3 DEF Covered
      <4>2. Off(s.seq) \in Nat /\ s.len \in Nat
        BY <1>1, RxWindowIs
      <4>3. PICK f \in Nat, u \in Nat : f = Off(s.seq) /\ u = Off(s.seq) + s.len
        BY <4>2
      <4>4. Holds(c, f, u)
        BY <1>20, <4>3
      <4>5. p \in f..u - 1
        BY <1>10, <3>3, <4>1, <4>3
      <4> QED  BY <1>18, <4>4, <4>5 DEF Holds
    <3> QED  BY <1>3, <1>10, <1>11, <3>1, <3>2, <3>3
  <2> QED  BY <1>18, <2>2 DEF Holds
<1>22. Ahead(v, c, t)
  BY <1>6, <1>20 DEF Ahead
<1>23. IsFiniteSet(v.segs)
  BY <1>1, <1>6, FS_Subset
<1>24. RxOK(v, c, t)
  BY <1>6, <1>10, <1>17, <1>21, <1>22, <1>23 DEF RxOK
<1>25. Stored(v.segs) \subseteq Stored(w.segs)
  BY <1>6 DEF Stored
<1>26. Off(w.cur) <= Off(v.cur) /\ Off(v.cur) <= top
  BY <1>2, <1>3, <1>6, <1>10
<1>27. SackOK(check.sack, top)
  BY <1>8 DEF SackOK
<1> QED  BY <1>6, <1>8, <1>9, <1>24, <1>25, <1>26, <1>27 DEF Received

\* lTCPWindowRxCheck and prvStoreRxData, for any piece.
LEMMA RxCheckIs ==
  ASSUME Unambiguous, NEW w, NEW b, NEW t, RxOK(w, b, t), NEW P, NEW top \in 0..Total, Cut(P, Off(w.cur), top),
         Off(w.cur) <= top, Stored(w.segs) \subseteq P,
         NEW seq \in Number, NEW l \in 1..MSS, <<Off(seq), l>> \in P,
         NEW bytes \in Seq(Byte), Len(bytes) = l, Named(bytes, Off(seq)),
         NEW check, check = RxCheck(w, seq, l, GetSpace(b)), NEW c, c = StoreRxData(b, check, bytes)
  PROVE  Received(w, check.w, c, t, P, Off(seq), l, top) /\ SackOK(check.sack, top)
<1>1. PICK none : none = <<>> /\ SackOK(none, top)
  BY DEF SackOK
<1>2. CASE check = RxRefused(w, none)
  BY <1>1, <1>2, RefusedIs
<1>3. w \in RxWindowSet /\ Lengths(P, top) /\ Border(P, Off(w.cur)) /\ Between(b, RxLength, t, Off(w.cur))
  BY DEF RxOK, Cut
<1>4. w.cur \in Number /\ Off(w.cur) \in Nat /\ Off(seq) \in Nat /\ l \in Nat \ {0} /\ Off(seq) + l <= top
  BY <1>3, RxWindowIs, PieceIs
<1>5. t \in Nat /\ RxLength \in Nat /\ GetSpace(b) = RxLength - 1 - (Off(w.cur) - t)
  BY <1>3, SizeIs DEF Between
<1>6. CASE check = RxExpected(w, w.cur, l) /\ seq = w.cur /\ ~(l > GetSpace(b))
  <2>1. Off(w.cur) + l <= t + RxLength - 1
    BY <1>4, <1>5, <1>6
  <2> QED  BY <1>6, <2>1, ExpectedIs
<1>7. PICK distance : distance = Signed(Minus(Plus(seq, l), w.cur))
  OBVIOUS
<1>8. distance = Off(seq) + l - Off(w.cur)
  <2>1. Off(seq) + l <= Total /\ Off(w.cur) <= Total
    BY <1>4, WindowConstants
  <2>2. PICK end : end = Plus(seq, l)
    OBVIOUS
  <2>3. end \in Number /\ Off(end) = Off(seq) + l
    BY <1>4, <2>1, <2>2, NumberSum
  <2> QED  BY <1>4, <1>7, <2>1, <2>2, <2>3, Comparisons
<1>9. CASE check = RxEarly(w, seq, l) /\ seq # w.cur /\ ~(distance <= 0) /\ ~(distance > GetSpace(b))
  <2>1. Off(w.cur) <= Off(seq) \/ Off(seq) + l <= Off(w.cur)
    BY <1>3, BorderIs
  <2>2. Off(w.cur) # Off(seq)
    BY <1>4, <1>9, OffInjective
  <2>3. Off(w.cur) < Off(seq)
    BY <1>4, <1>8, <1>9, <2>1, <2>2
  <2>4. Off(seq) + l <= t + RxLength - 1
    BY <1>4, <1>5, <1>8, <1>9
  <2> QED  BY <1>9, <2>3, <2>4, EarlyIs
<1>10. check = RxRefused(w, none) \/ (check = RxExpected(w, w.cur, l) /\ seq = w.cur /\ ~(l > GetSpace(b)))
       \/ (check = RxEarly(w, seq, l) /\ seq # w.cur /\ ~(distance <= 0) /\ ~(distance > GetSpace(b)))
  BY Zenon, <1>1, <1>7 DEF RxCheck
<1> QED  BY <1>2, <1>6, <1>9, <1>10

-----------------------------------------------------------------------------
(* What the IP task of the sender does to the transmission window and txStream. *)

\* s bytes have been handed over; mid is where the window ends.
TxOK(b, w, s) ==
  /\ WindowInv(w) /\ s \in 0..Total /\ Off(w.next) <= s
  /\ Between(b, TxLength, Off(w.cur), s) /\ b.mid = Slot(Off(w.next), TxLength)

LEMMA TxOKIs ==
  ASSUME NEW b, NEW w, NEW s, TxOK(b, w, s)
  PROVE  /\ w \in WindowSet /\ w.cur \in Number /\ w.highest \in Number /\ w.next \in Number
         /\ Off(w.cur) \in 0..Total /\ Off(w.highest) \in 0..Total /\ Off(w.next) \in 0..Total
         /\ Off(w.cur) <= Off(w.highest) /\ Off(w.highest) <= Off(w.next) /\ Off(w.next) <= s /\ s \in 0..Total
         /\ s - Off(w.cur) <= TxLength - 1 /\ b.LENGTH = TxLength /\ b.tail = Slot(Off(w.cur), TxLength)
<1>1. WindowInv(w) /\ s \in 0..Total /\ Off(w.next) <= s /\ Between(b, TxLength, Off(w.cur), s)
  BY DEF TxOK
<1> QED  BY <1>1, WindowOrder DEF Between

\* prvTCPAddTxData.
LEMMA AddTxDataIs ==
  ASSUME Unambiguous, NEW b, NEW w, NEW s, TxOK(b, w, s), NEW add, add = AddTxData(b, w)
  PROVE  TxOK(add.tx, add.w, s) /\ Kept(w, add.w) /\ add.tx.array = b.array
<1>1. PICK n \in Nat, a \in Nat : n = Off(w.next) /\ a = Off(w.cur)
  BY TxOKIs
<1>2. a <= n /\ n <= s /\ s \in Nat /\ s <= Total /\ s - a <= TxLength - 1 /\ b.LENGTH = TxLength /\ w \in WindowSet
  BY <1>1, TxOKIs, WindowConstants
<1>3. Between(b, TxLength, a, s) /\ b.mid = Slot(n, TxLength) /\ WindowInv(w)
  BY <1>1 DEF TxOK
<1>4. s - n <= TxLength - 1
  BY <1>2, WindowConstants
<1>5. PICK k : k = MidSpace(b)
  OBVIOUS
<1>6. k = s - n
  BY <1>2, <1>3, <1>4, <1>5, MidIs
<1>7. k \in 0..TxLength /\ n + k <= Total
  BY <1>2, <1>4, <1>6, WindowConstants
<1>8. CASE k = 0
  <2>1. add = [tx |-> b, w |-> w]
    BY <1>5, <1>8 DEF AddTxData
  <2>2. add.tx = b /\ add.w = w
    BY <2>1
  <2> QED  BY <2>2, KeptOn DEF Kept
<1>9. CASE k # 0
  <2>1. PICK d : d = TxAdd(w, k, Slot(n, TxLength), TxLength)
    OBVIOUS
  <2>2. /\ WindowInv(d.w) /\ Kept(w, d.w)
        /\ d.done \in 0..k /\ Off(d.w.next) = n + d.done
    BY <1>1, <1>3, <1>7, <2>1, TxAddIs
  <2>3. PICK c : c = MoveMid(b, d.done)
    OBVIOUS
  <2>4. add = [tx |-> c, w |-> d.w]
    BY <1>2, <1>3, <1>5, <1>9, <2>1, <2>3 DEF AddTxData
  <2>5. Between(c, TxLength, a, s) /\ c.mid = Slot(n + d.done, TxLength) /\ c.array = b.array
    <3>1. d.done \in 0..s - n
      BY <1>6, <2>2
    <3>2. n <= s /\ n \in Nat
      BY <1>2
    <3> QED  BY <1>3, <1>4, <2>3, <3>1, <3>2, MidIs
  <2>6. n + d.done <= s
    BY <1>2, <1>6, <1>7, <2>2
  <2>7. d.w.cur = w.cur
    BY <2>2 DEF Kept
  <2>8. s \in 0..Total
    BY <1>2
  <2>9. TxOK(c, d.w, s)
    BY <1>1, <2>2, <2>5, <2>6, <2>7, <2>8 DEF TxOK
  <2> QED  BY <2>2, <2>4, <2>5, <2>9
<1> QED  BY <1>8, <1>9

-----------------------------------------------------------------------------
(* A packet that goes out carries the bytes of a segment.  *)

PacketSet == [seq : Number, bytes : Seq(Byte)]

\* Its bytes are the ones that its number says.
Genuine(p) == p \in PacketSet /\ Named(p.bytes, Off(p.seq)) /\ Len(p.bytes) <= MSS

\* A packet of a segment that is going.
Outgoing(p, going) == Genuine(p) /\ p.bytes # <<>> /\ <<Off(p.seq), Len(p.bytes)>> \in going

\* The packet of a segment.
PacketOf(b, s) == [seq |-> s.seq, bytes |-> Peek(b, Distance(b, b.tail, s.pos), s.len)]

LEMMA PacketIs ==
  ASSUME NEW b, NEW w, NEW s, TxOK(b, w, s), Holds(b, Off(w.cur), s), NEW seq,
         \E i \in 1..Len(w.segs) : w.segs[i].seq = seq /\ w.segs[i].sent,
         NEW p, p = PacketOf(b, Segment(w, seq))
  PROVE  Outgoing(p, Going(w))
<1>1. PICK i \in 1..Len(w.segs) : w.segs[i].seq = seq /\ w.segs[i].sent
  OBVIOUS
<1>2. PICK o, n, m : Laid(w, o, n, m)
  BY DEF TxOK, WindowInv
<1>3. Len(w.segs) = n /\ o[1] = Off(w.cur) /\ o[n + 1] = Off(w.next) /\ Placed(w, o, n)
  BY <1>2 DEF Laid, Counted, Ranged
<1>4. /\ \A j, k \in 1..n + 1 : j < k => o[j] < o[k]
      /\ \A j \in 1..n + 1 : o[j] \in 0..Total
      /\ \A j \in 1..n : w.segs[j] \in SegmentSet /\ w.segs[j].len \in 1..MSS /\ w.segs[j].seq \in Number
      /\ n \in Nat
  BY <1>2, Ordered
<1>5. Segment(w, seq) = w.segs[i]
  BY <1>1, <1>2, <1>3, IndexIs
<1>6. PICK g : g = w.segs[i]
  OBVIOUS
<1>7. /\ g.seq = seq /\ seq \in Number /\ g.len \in 1..MSS /\ o[i] = Off(seq) /\ o[i + 1] = o[i] + g.len
      /\ g.pos = Slot(o[i], TxLength)
  BY <1>1, <1>3, <1>4, <1>6 DEF Placed
<1>8. PICK a \in Nat, x \in Nat, l \in Nat : a = Off(w.cur) /\ x = Off(seq) /\ l = g.len
  <2>1. 1 \in 1..n + 1 /\ i \in 1..n + 1
    BY <1>3, <1>4
  <2>2. o[1] \in Nat /\ o[i] \in Nat
    BY <1>4, <2>1, WindowConstants
  <2> QED  BY <1>3, <1>7, <2>2, WindowConstants
<1>9. a <= x /\ x + l <= s /\ l > 0 /\ l <= MSS
  <2>1. 1 \in 1..n + 1 /\ i \in 1..n + 1 /\ i + 1 \in 1..n + 1 /\ n + 1 \in 1..n + 1
    BY <1>3, <1>4
  <2>2. o[1] <= o[i]
    <3>1. CASE i = 1
      BY <1>3, <1>8, <3>1
    <3>2. CASE i # 1
      <4>1. 1 < i
        BY <3>2
      <4>2. o[1] < o[i]
        BY <1>4, <2>1, <4>1
      <4> QED  BY <1>3, <1>7, <1>8, <4>2
    <3> QED  BY <3>1, <3>2
  <2>3. o[i + 1] <= o[n + 1]
    <3>1. CASE i = n
      BY <1>4, <2>1, <3>1, WindowConstants
    <3>2. CASE i # n
      <4>1. i + 1 < n + 1
        BY <1>3, <1>4, <3>2
      <4>2. o[i + 1] < o[n + 1] /\ o[i + 1] \in Nat /\ o[n + 1] \in Nat
        BY <1>4, <2>1, <4>1, WindowConstants
      <4> QED  BY <4>2
    <3> QED  BY <3>1, <3>2
  <2>4. Off(w.next) <= s /\ Off(w.next) \in Nat /\ s \in Nat
    BY TxOKIs, WindowConstants
  <2>5. x + l <= Off(w.next)
    BY <1>3, <1>7, <1>8, <2>3
  <2> QED  BY <1>3, <1>7, <1>8, <2>2, <2>4, <2>5, WindowConstants
<1>10. /\ Between(b, TxLength, a, s) /\ b.LENGTH = TxLength /\ b.tail = Slot(a, TxLength) /\ Holds(b, a, s)
       /\ s \in Nat /\ s <= Total /\ s - a <= TxLength - 1
  <2>1. Between(b, TxLength, a, s)
    BY <1>8 DEF TxOK
  <2> QED  BY <1>8, <2>1, TxOKIs, WindowConstants
<1>11. Distance(b, b.tail, g.pos) = x - a
  <2>1. x - a <= TxLength - 1 /\ TxLength \in Nat \ {0}
    BY <1>9, <1>10, WindowConstants
  <2>2. g.pos = Slot(x, TxLength)
    BY <1>7, <1>8
  <2>3. Distance(b, Slot(a, TxLength), Slot(x, TxLength)) = x - a
    BY <1>9, <1>10, <2>1, DistanceIs
  <2> QED  BY <1>10, <2>2, <2>3
<1>12. PICK q : q = Peek(b, x - a, l)
  OBVIOUS
<1>13. Len(q) = l /\ q = [k \in 1..l |-> x + k]
  <2>1. x <= s /\ Lesser(s - x, l) = l
    BY <1>9, <1>10 DEF Lesser
  <2>2. Holds(b, x, s)
    BY <1>9, <1>10 DEF Holds
  <2>3. Len(q) = l /\ q = [k \in 1..l |-> x + k]
    <3>1. Between(b, TxLength, a, s)
      BY <1>10
    <3>2. a <= x
      BY <1>9
    <3>3. l \in Nat /\ x \in Nat /\ x <= s
      BY <2>1
    <3>4. Peeked(q, x, Lesser(s - x, l))
      BY <1>12, <2>2, <3>1, <3>2, <3>3, PeekIs
    <3> QED  BY <2>1, <3>4 DEF Peeked
  <2> QED  BY <2>3
<1>14. q \in Seq(Byte)
  <2>1. \A k \in 1..l : x + k \in Byte
    BY <1>9, <1>10, WindowConstants DEF Byte
  <2> QED  BY <1>13, <2>1
<1>15. p = [seq |-> seq, bytes |-> q]
  BY <1>5, <1>6, <1>7, <1>8, <1>11, <1>12 DEF PacketOf
<1>16. p.seq = seq /\ p.bytes = q
  BY <1>15
<1>17. p \in PacketSet
  BY <1>7, <1>14, <1>15 DEF PacketSet
<1>18. Genuine(p)
  BY <1>8, <1>9, <1>13, <1>16, <1>17 DEF Genuine, Named
<1>19. q # <<>>
  <2>1. Len(<<>>) = 0
    BY EmptySeq
  <2>2. Len(q) # 0
    BY <1>9, <1>13
  <2> QED  BY <2>1, <2>2
<1>20. <<Off(seq), l>> \in Going(w)
  BY <1>1, <1>6, <1>7, <1>8 DEF Going
<1> QED  BY <1>13, <1>16, <1>18, <1>19, <1>20 DEF Outgoing

-----------------------------------------------------------------------------
(* prvTCPSendRepeated. *)

SendSet(b, window) ==
  [tx : {b}, w : WindowSet, wnd : {window}, due : Int, out : Seq(PacketSet), more : BOOLEAN]

\* What has been sent so far: the pieces in P, the packets in a.out.
Sending(a, b, w, s, window, P, here) ==
  /\ a \in SendSet(b, window) /\ TxOK(b, a.w, s)
  /\ a.w.cur = w.cur /\ Off(w.highest) <= Off(a.w.highest)
  /\ Going(w) \subseteq Going(a.w) /\ Cut(P \cup Going(a.w), here, Off(a.w.highest))
  /\ \A p \in Elements(a.out) : Outgoing(p, Going(a.w))

\* A piece after all the others.
LEMMA CutMore ==
  ASSUME NEW P, NEW here \in Nat, NEW top \in Nat, Cut(P, here, top), here <= top, NEW l \in Nat \ {0}
  PROVE  Cut(P \cup {<<top, l>>}, here, top + l)
<1>1. PICK z : z = <<top, l>>
  OBVIOUS
<1>2. z[1] = top /\ z[2] = l
  BY <1>1
<1>3. \A p \in P : p[1] \in Nat /\ p[2] \in Nat \ {0} /\ p[1] + p[2] <= top /\ (here <= p[1] \/ p[1] + p[2] <= here)
  BY DEF Cut, Lengths, Border
<1>4. Lengths(P \cup {z}, top + l)
  <2>1. \A p \in P : p[1] + p[2] <= top + l
    BY <1>3
  <2>2. z[1] + z[2] <= top + l
    BY <1>2
  <2> QED  BY <1>2, <1>3, <2>1, <2>2 DEF Lengths
<1>5. Border(P \cup {z}, here)
  BY <1>2, <1>3 DEF Border
<1>6. Disjoint(P \cup {z})
  <2>1. \A p, q \in P : Apart(p, q)
    BY DEF Cut, Disjoint
  <2>2. \A p \in P : Apart(p, z) /\ Apart(z, p)
    BY <1>2, <1>3 DEF Apart
  <2>3. Apart(z, z)
    BY DEF Apart
  <2> QED  BY <2>1, <2>2, <2>3 DEF Disjoint
<1> QED  BY <1>1, <1>4, <1>5, <1>6 DEF Cut

\* One more packet goes out.
LEMMA SendingOn ==
  ASSUME Unambiguous, NEW b, NEW w, NEW s, NEW window, NEW P, NEW here \in Nat, here <= Off(w.highest), w \in WindowSet,
         Holds(b, Off(w.cur), s), NEW a, Sending(a, b, w, s, window, P, here)
  PROVE  Sending(PrepareSend(a), b, w, s, window, P, here)
<1>1. /\ a \in SendSet(b, window) /\ TxOK(b, a.w, s)
      /\ a.w.cur = w.cur /\ Off(w.highest) <= Off(a.w.highest)
      /\ Going(w) \subseteq Going(a.w) /\ Cut(P \cup Going(a.w), here, Off(a.w.highest))
      /\ \A p \in Elements(a.out) : Outgoing(p, Going(a.w))
  BY DEF Sending
<1>2. a.tx = b /\ a.w \in WindowSet /\ a.wnd = window /\ a.due \in Int /\ a.out \in Seq(PacketSet) /\ a.more \in BOOLEAN
  BY <1>1 DEF SendSet
<1>3. PICK due : due = (a.due > 0)
  OBVIOUS
<1>4. PICK get : get = TxGet(a.w, window, due)
  OBVIOUS
<1>5. CASE get.seq = None
  <2>1. PrepareSend(a) = [a EXCEPT !.more = FALSE]
    BY <1>2, <1>3, <1>4, <1>5 DEF PrepareSend
  <2>2. PICK c : c = [a EXCEPT !.more = FALSE]
    OBVIOUS
  <2>3. c \in SendSet(b, window) /\ c.w = a.w /\ c.out = a.out
    BY <1>1, <2>2 DEF SendSet
  <2>4. Sending(c, b, w, s, window, P, here)
    BY <1>1, <2>3 DEF Sending
  <2> QED  BY <2>1, <2>2, <2>4
<1>6. CASE get.seq # None
  <2>1. PICK v : v = get.w
    OBVIOUS
  <2>2. WindowInv(v) /\ Sends(a.w, v, get.seq)
    <3>1. WindowInv(a.w)
      BY <1>1 DEF TxOK
    <3> QED  BY <1>4, <1>6, <2>1, <3>1, TxGetIs
  <2>3. /\ v.cur = a.w.cur /\ v.next = a.w.next
        /\ \E i \in 1..Len(v.segs) : v.segs[i].seq = get.seq /\ v.segs[i].sent
        /\ \/ v.highest = a.w.highest /\ Going(v) = Going(a.w)
           \/ \E l \in 1..MSS : Off(v.highest) = Off(a.w.highest) + l
                                /\ Going(v) = Going(a.w) \cup {<<Off(a.w.highest), l>>}
    BY <2>2 DEF Sends
  <2>4. TxOK(b, v, s)
    BY <1>1, <2>2, <2>3 DEF TxOK
  <2>5. Going(a.w) \subseteq Going(v)
    BY <2>3
  <2>6. Off(a.w.highest) \in Nat /\ Off(w.highest) \in Nat
    BY <1>1, TxOKIs, WindowFields, OffType, WindowConstants
  <2>7. Off(w.highest) <= Off(v.highest) /\ Cut(P \cup Going(v), here, Off(v.highest))
    <3>1. CASE v.highest = a.w.highest /\ Going(v) = Going(a.w)
      BY <1>1, <3>1
    <3>2. CASE \E l \in 1..MSS : Off(v.highest) = Off(a.w.highest) + l
                                 /\ Going(v) = Going(a.w) \cup {<<Off(a.w.highest), l>>}
      <4>1. PICK l \in 1..MSS : Off(v.highest) = Off(a.w.highest) + l
                                 /\ Going(v) = Going(a.w) \cup {<<Off(a.w.highest), l>>}
        BY <3>2
      <4>2. PICK top \in Nat : top = Off(a.w.highest)
        BY <2>6
      <4>3. l \in Nat \ {0}
        BY WindowConstants
      <4>4. here <= top /\ Cut(P \cup Going(a.w), here, top)
        BY <1>1, <2>6, <4>2
      <4>5. Cut((P \cup Going(a.w)) \cup {<<top, l>>}, here, top + l)
        BY <4>3, <4>4, CutMore
      <4>6. (P \cup Going(a.w)) \cup {<<top, l>>} = P \cup Going(v)
        BY <4>1, <4>2
      <4>7. Off(w.highest) <= top + l
        BY <1>1, <2>6, <4>2, <4>3
      <4> QED  BY <4>1, <4>2, <4>5, <4>6, <4>7
    <3> QED  BY <2>3, <3>1, <3>2
  <2>8. PICK g : g = Segment(v, get.seq)
    OBVIOUS
  <2>9. PICK p : p = PacketOf(b, g)
    OBVIOUS
  <2>10. Outgoing(p, Going(v))
    <3>1. Holds(b, Off(v.cur), s)
      BY <1>1, <2>3
    <3> QED  BY <2>3, <2>4, <2>8, <2>9, <3>1, PacketIs
  <2>11. PICK left : left = IF a.w.prio = <<>> /\ g.count > 1 THEN a.due - 1 ELSE a.due
    OBVIOUS
  <2>12. left \in Int
    BY <1>2, <2>11
  <2>13. PICK out : out = Append(a.out, p)
    OBVIOUS
  <2>14. p \in PacketSet
    BY <2>10 DEF Outgoing, Genuine
  <2>15. out \in Seq(PacketSet) /\ Elements(out) = Elements(a.out) \cup {p}
    BY <1>2, <2>13, <2>14, AppendIs
  <2>16. PICK c : c = [a EXCEPT !.w = v, !.due = left, !.out = out]
    OBVIOUS
  <2>17. PrepareSend(a) = c
    <3>1. PrepareSend(a) = [a EXCEPT !.w = v,
             !.due = IF a.w.prio = <<>> /\ g.count > 1 THEN a.due - 1 ELSE a.due,
             !.out = Append(a.out, [seq |-> g.seq, bytes |-> Peek(a.tx, Distance(a.tx, a.tx.tail, g.pos), g.len)])]
      BY <1>2, <1>3, <1>4, <1>6, <2>1, <2>8 DEF PrepareSend, SendSet
    <3>2. p = [seq |-> g.seq, bytes |-> Peek(a.tx, Distance(a.tx, a.tx.tail, g.pos), g.len)]
      BY <1>2, <2>9 DEF PacketOf
    <3> QED  BY <2>11, <2>13, <2>16, <3>1, <3>2
  <2>18. c \in SendSet(b, window) /\ c.w = v /\ c.out = out
    BY <1>1, <2>2, <2>4, <2>12, <2>15, <2>16, TxOKIs DEF SendSet
  <2>19. \A q \in Elements(out) : Outgoing(q, Going(v))
    <3>1. \A q \in Elements(a.out) : Outgoing(q, Going(v))
      BY <1>1, <2>5 DEF Outgoing
    <3> QED  BY <2>10, <2>15, <3>1
  <2>20. v.cur = w.cur /\ Going(w) \subseteq Going(v)
    BY <1>1, <2>3, <2>5
  <2>21. Sending(c, b, w, s, window, P, here)
    BY <2>4, <2>7, <2>18, <2>19, <2>20 DEF Sending
  <2> QED  BY <2>17, <2>21
<1> QED  BY <1>5, <1>6

\* The loop.
SendLoop(a, n) == Repeat(LAMBDA x, i : IF x.more THEN PrepareSend(x) ELSE x, a, n)

SendOn(x) == IF x.more THEN PrepareSend(x) ELSE x

LEMMA SendingAll ==
  ASSUME Unambiguous, NEW b, NEW w, NEW s, NEW window, NEW P, NEW here \in Nat, here <= Off(w.highest), w \in WindowSet,
         Holds(b, Off(w.cur), s), NEW a, Sending(a, b, w, s, window, P, here), NEW n \in Nat
  PROVE  Sending(SendLoop(a, n), b, w, s, window, P, here)
<1> DEFINE S == {x \in SendSet(b, window) : Sending(x, b, w, s, window, P, here)}
           T == [i \in 0..n |-> S]
           R(f) == f = [i \in 0..n |-> IF i = 0 THEN a ELSE SendOn(f[i - 1])]
           step == [i \in 1..n |-> [x \in T[i - 1] |-> SendOn(x)]]
           after == CHOOSE f : R(f)
<1>1. a \in S
  BY DEF Sending
<1>2. ASSUME NEW x \in S PROVE SendOn(x) \in S
  <2>1. CASE x.more
    <3>1. Sending(PrepareSend(x), b, w, s, window, P, here)
      BY SendingOn
    <3>2. PrepareSend(x) \in SendSet(b, window)
      BY <3>1 DEF Sending
    <3> QED  BY <2>1, <3>1, <3>2 DEF SendOn
  <2>2. CASE ~x.more
    BY <2>2 DEF SendOn
  <2> QED  BY <2>1, <2>2
<1> HIDE DEF S
<1>3. \E f : R(f)
  <2>1. \A i \in 1..n : i - 1 \in 0..n /\ i \in 0..n /\ T[i - 1] = S /\ T[i] = S
    OBVIOUS
  <2>2. \A i \in 1..n : \A x \in S : step[i][x] = SendOn(x)
    BY <2>1
  <2>3. \A i \in 1..n : \A x \in T[i - 1] : step[i][x] \in T[i]
    BY <1>2, <2>1, <2>2
  <2>4. a \in T[0] /\ \A i \in 0..n : T[i] = S
    BY <1>1
  <2> HIDE DEF step, T
  <2>5. Stepped(n, T, a, step)
    BY <2>3, <2>4, Steps
  <2>6. PICK f : /\ f = [i \in 0..n |-> IF i = 0 THEN a ELSE step[i][f[i - 1]]]
                 /\ \A i \in 0..n : f[i] \in T[i]
    BY <2>5 DEF Stepped
  <2>7. ASSUME NEW i \in 0..n
        PROVE (IF i = 0 THEN a ELSE step[i][f[i - 1]]) = IF i = 0 THEN a ELSE SendOn(f[i - 1])
    <3>1. i # 0 => i \in 1..n /\ i - 1 \in 0..n
      OBVIOUS
    <3>2. i # 0 => f[i - 1] \in S
      BY <2>4, <2>6, <3>1
    <3> QED  BY <2>2, <3>1, <3>2
  <2>8. R(f)
    BY <2>6, <2>7
  <2> HIDE DEF R
  <2> QED  BY <2>8
<1>4. R(after)
  BY <1>3
<1>5. SendLoop(a, n) = after[n]
  BY DEF Repeat, SendLoop, SendOn
<1> HIDE DEF after
<1>6. \A i \in 0..n : after[i] \in S
  <2> DEFINE U == {i \in 0..n : after[i] \in S}
  <2>1. \A i \in 0..n : after[i] = IF i = 0 THEN a ELSE SendOn(after[i - 1])
    BY <1>4
  <2>2. 0 \in U
    BY <1>1, <2>1
  <2>3. ASSUME NEW i \in 1..n, i - 1 \in U PROVE i \in U
    BY <1>2, <2>1, <2>3
  <2> HIDE DEF U
  <2>4. \A i \in 0..n : i \in U
    BY <2>2, <2>3, Upward
  <2> QED  BY <2>4 DEF U
<1>7. after[n] \in S
  BY <1>6
<1> QED  BY <1>5, <1>7 DEF S

\* What prvTCPAddTxData and prvTCPSendRepeated leave.
Pumped(b, w, s, P, here, run) ==
  /\ TxOK(run.tx, run.w, s) /\ run.tx.array = b.array
  /\ run.w.cur = w.cur /\ Off(w.highest) <= Off(run.w.highest)
  /\ Going(w) \subseteq Going(run.w) /\ Cut(P \cup Going(run.w), here, Off(run.w.highest))
  /\ run.out \in Seq(PacketSet) /\ \A p \in Elements(run.out) : Outgoing(p, Going(run.w))

LEMMA PumpedIs ==
  ASSUME Unambiguous, NEW b, NEW w, NEW s, TxOK(b, w, s), Holds(b, Off(w.cur), s),
         NEW P, NEW here \in Nat, here <= Off(w.highest), Cut(P \cup Going(w), here, Off(w.highest)),
         NEW window, NEW due \in Int, NEW rounds \in Nat,
         NEW add, add = AddTxData(b, w), NEW run, run = SendRepeated(add.tx, add.w, window, due, rounds)
  PROVE  Pumped(b, w, s, P, here, run)
<1>1. TxOK(add.tx, add.w, s) /\ Kept(w, add.w) /\ add.tx.array = b.array
  BY AddTxDataIs
<1>2. PICK d, v : d = add.tx /\ v = add.w
  OBVIOUS
<1>3. TxOK(d, v, s) /\ v.cur = w.cur /\ v.highest = w.highest /\ Going(v) = Going(w) /\ d.array = b.array
  BY <1>1, <1>2 DEF Kept
<1>4. Holds(d, Off(v.cur), s)
  <2>1. d.LENGTH = TxLength /\ b.LENGTH = TxLength
    BY <1>3, TxOKIs
  <2> QED  BY <1>3, <2>1 DEF Holds
<1>5. PICK a : a = [tx |-> d, w |-> v, wnd |-> window, due |-> due, out |-> <<>>, more |-> TRUE]
  OBVIOUS
<1>6. v \in WindowSet /\ v.highest \in Number /\ Off(v.highest) \in Nat
  BY <1>3, TxOKIs, WindowConstants
<1>7. <<>> \in Seq(PacketSet) /\ Elements(<<>>) = {}
  <2>1. Len(<<>>) = 0 /\ <<>> \in Seq(PacketSet)
    BY EmptySeq
  <2> QED  BY <2>1 DEF Elements
<1>8. a \in SendSet(d, window) /\ a.w = v /\ a.out = <<>>
  BY <1>5, <1>6, <1>7 DEF SendSet
<1>9. Sending(a, d, v, s, window, P, here)
  BY <1>3, <1>6, <1>7, <1>8 DEF Sending
<1>10. Sending(SendLoop(a, rounds), d, v, s, window, P, here)
  BY <1>3, <1>4, <1>6, <1>9, SendingAll
<1>11. run = SendLoop(a, rounds)
  BY Zenon, <1>2, <1>5 DEF SendRepeated, SendLoop
<1>12. Sending(run, d, v, s, window, P, here)
  BY <1>10, <1>11
<1>13. run \in SendSet(d, window)
  BY <1>12 DEF Sending
<1>14. run.tx = d /\ run.out \in Seq(PacketSet)
  BY <1>13 DEF SendSet
<1> QED  BY <1>3, <1>12, <1>14 DEF Sending, Pumped

-----------------------------------------------------------------------------
(* The inductive invariant. *)

\* The positions of the next byte expected, and of the next one to be sent.
Here == Off(rxw.cur)
Top  == Off(txw.highest)

\* The bytes from the first not acknowledged to the last handed over, and those that are
\* being copied, are in their places in txStream.
SendInv ==
  /\ TxOK(tx, txw, sent) /\ Holds(tx, Off(txw.cur), sent + copying)
  /\ sent + copying <= Total /\ sent + copying - Off(txw.cur) <= TxLength - 1
  /\ copying \in 0..MaxChunk /\ wnd \in Nat

\* The bytes read are the first ones; those not read up to the next byte expected, and the
\* stored ones ahead of it, are in their places in rxStream.
ReadInv ==
  /\ read \in Seq(Byte) /\ Peeked(read, 0, Len(read)) /\ Len(read) <= Here
  /\ taken \in 0..MaxRead /\ taken <= Len(read)
  /\ reading \in {"idle", "copied", "water", "enough"} /\ (reading # "copied" => taken = 0)

FlagInv ==
  /\ bLowWater \in BOOLEAN /\ bWinChange \in BOOLEAN /\ ackMessage \in BOOLEAN
  /\ rxCurWin \in Nat /\ rxAllowed \in Number

RecvInv == ReadInv /\ FlagInv /\ RxOK(rxw, rx, Len(read) - taken)

\* The packets under way carry what their numbers say.
Packets(d) == d \in Seq(PacketSet) /\ \A p \in Elements(d) : Genuine(p)

Carried(d) == {<<Off(p.seq), Len(p.bytes)>> : p \in {q \in Elements(d) : q.bytes # <<>>}}

\* They, the stored segments and the ones the sender keeps are the same pieces of the stream,
\* and the next byte expected is not inside one.
Pieces(d, segs, w) == (Carried(d) \cup Stored(segs)) \cup Going(w)

PieceInv == Here <= Top /\ Cut(Pieces(data, rxw.segs, txw), Here, Top)

\* An acknowledgement is of bytes that were sent.
AnswerSet == [ack : Number, wnd : Nat, sack : Seq(Number)]

Answers(q, top) ==
  q \in Seq(AnswerSet) /\ \A a \in Elements(q) : Off(a.ack) <= top /\ SackOK(a.sack, top)

NetInv == Packets(data) /\ PieceInv /\ Answers(acks, Top) /\ faults \in 0..MaxFaults

StreamInv == SendInv /\ RecvInv /\ NetInv

-----------------------------------------------------------------------------
LEMMA Positions ==
  ASSUME StreamInv
  PROVE  /\ Off(txw.cur) \in Nat /\ Top \in Nat /\ Top \in 0..Total /\ Off(txw.next) \in Nat /\ sent \in Nat /\ sent <= Total
         /\ Off(txw.cur) <= Top /\ Top <= Off(txw.next) /\ Off(txw.next) <= sent
         /\ Here \in Nat /\ Here <= Top /\ Here \in 0..Total /\ rxw.cur \in Number
         /\ txw \in WindowSet /\ rxw \in RxWindowSet
         /\ copying \in Nat /\ taken \in Nat /\ Len(read) \in Nat
<1>1. TxOK(tx, txw, sent) /\ rxw \in RxWindowSet /\ copying \in 0..MaxChunk /\ taken \in 0..MaxRead /\ read \in Seq(Byte)
      /\ Here <= Top
  BY DEF StreamInv, SendInv, RecvInv, ReadInv, RxOK, NetInv, PieceInv
<1>2. MaxChunk \in Nat /\ MaxRead \in Nat /\ Total \in Nat
  BY TxAssumption, RxAssumption, TotalAssumption
<1>3. rxw.cur \in Number /\ Here \in Nat
  BY <1>1, RxWindowIs DEF Here
<1>4. Len(read) \in Nat
  BY <1>1, LenProperties
<1>5. /\ Off(txw.cur) \in 0..Total /\ Top \in 0..Total /\ Off(txw.next) \in 0..Total /\ sent \in 0..Total
      /\ Off(txw.cur) <= Top /\ Top <= Off(txw.next) /\ Off(txw.next) <= sent /\ txw \in WindowSet
  BY <1>1, TxOKIs DEF Top
<1> QED  BY <1>1, <1>2, <1>3, <1>4, <1>5

LEMMA SlotZero ==
  ASSUME NEW L \in Nat \ {0}
  PROVE  Slot(0, L) = 0
<1>1. 0 \in 0..L - 1 /\ 0 = 0 * L + 0
  OBVIOUS
<1> QED  BY <1>1, RemainderIs DEF Slot

LEMMA OffFirst == First \in Number /\ Off(First) = 0
<1>1. First \in Number
  BY TotalAssumption
<1> QED  BY <1>1, OffType, Constants DEF Number

LEMMA EmptyIs ==
  ASSUME NEW L \in Nat \ {0}, NEW b, b = EmptyStream(L)
  PROVE  Between(b, L, 0, 0) /\ b.mid = Slot(0, L) /\ \A to \in Int : to <= 0 => Holds(b, 0, to)
<1>1. /\ b.LENGTH = L /\ b.tail = 0 /\ b.mid = 0 /\ b.head = 0 /\ b.front = 0
      /\ b.array = [i \in 0..L - 1 |-> NoByte]
  BY DEF EmptyStream
<1>2. StreamType(b, Byte)
  BY <1>1 DEF StreamType
<1>3. \A to \in Int : to <= 0 => Holds(b, 0, to)
  BY DEF Holds
<1> QED  BY <1>1, <1>2, <1>3, SlotZero DEF Between

LEMMA NewWindowIs ==
  ASSUME NEW w, w = NewTxWindow(First, TxWindow)
  PROVE  WindowInv(w) /\ w.cur = First /\ w.highest = First /\ w.next = First /\ Going(w) = {}
<1>1. /\ w.segs = <<>> /\ w.prio = <<>> /\ w.txq = <<>> /\ w.wait = <<>> /\ w.head = None
      /\ w.cur = First /\ w.highest = First /\ w.next = First /\ w.txWin = TxWindow
  BY DEF NewTxWindow
<1>2. First \in Number /\ Off(First) = 0
  BY OffFirst
<1>3. <<>> \in Seq(SegmentSet) /\ <<>> \in Seq(Number) /\ Len(<<>>) = 0
  BY EmptySeq
<1>4. w \in WindowSet
  <2>1. None \in Number \cup {None} /\ TxWindow \in Nat
    BY TxAssumption
  <2> QED  BY <1>2, <1>3, <2>1 DEF NewTxWindow, WindowSet
<1>5. PICK o : o = [i \in 1..1 |-> 0]
  OBVIOUS
<1>6. Len(w.segs) = 0 /\ Len(w.txq) = 0 /\ Elements(w.prio) = {} /\ Elements(w.wait) = {} /\ 1..0 = {}
  BY <1>1, <1>3 DEF Elements
<1>7. Counted(w, 0, 0) /\ Marked(w, 0, 0) /\ Placed(w, o, 0) /\ Queued(w, 0, 0) /\ Headed(w, 0, 0)
  BY <1>1, <1>4, <1>6, WindowConstants DEF Counted, Marked, Placed, Queued, Headed
<1>8. Ranged(w, o, 0, 0)
  <2>1. o \in [1..1 -> 0..Total] /\ o[1] = 0
    BY <1>5, WindowConstants
  <2>2. 0 + 1 = 1
    OBVIOUS
  <2> QED  BY <1>1, <1>2, <2>1, <2>2 DEF Ranged
<1>9. Waiting(w)
  <2>1. Due(w) = {}
    BY <1>6 DEF Due
  <2>2. Once(w.prio) /\ Once(w.wait)
    BY <1>1, <1>3 DEF Once
  <2> QED  BY <1>6, <2>1, <2>2 DEF Waiting
<1>10. Laid(w, o, 0, 0)
  BY <1>7, <1>8, <1>9 DEF Laid
<1>11. Going(w) = {}
  BY <1>6 DEF Going
<1> QED  BY <1>1, <1>10, <1>11 DEF WindowInv

LEMMA NothingYet == Init => StreamInv
<1> SUFFICES ASSUME Init PROVE StreamInv
  OBVIOUS
<1>1. WindowInv(txw) /\ txw.cur = First /\ txw.highest = First /\ txw.next = First /\ Going(txw) = {}
  BY NewWindowIs DEF Init, SenderInit
<1>2. First \in Number /\ Off(First) = 0
  BY OffFirst
<1>3. TxLength \in Nat \ {0} /\ RxLength \in Nat \ {0} /\ Total \in Nat /\ MaxChunk \in Nat /\ MaxRead \in Nat
  BY TxAssumption, RxAssumption, TotalAssumption
<1>4. sent = 0 /\ copying = 0 /\ read = <<>> /\ taken = 0 /\ data = <<>> /\ acks = <<>> /\ Len(<<>>) = 0 /\ Len(read) = 0
  BY EmptySeq DEF Init, SenderInit, ReceiverInit
<1>5. SendInv
  <2>1. Between(tx, TxLength, 0, 0) /\ tx.mid = Slot(0, TxLength) /\ Holds(tx, 0, 0)
    BY <1>3, EmptyIs DEF Init, SenderInit
  <2>2. TxOK(tx, txw, sent)
    BY <1>1, <1>2, <1>3, <1>4, <2>1 DEF TxOK
  <2>3. wnd \in Nat
    BY WindowConstants DEF Init, SenderInit
  <2> QED  BY <1>1, <1>2, <1>3, <1>4, <2>1, <2>2, <2>3 DEF SendInv
<1>6. rxw.cur = First /\ rxw.highest = First /\ rxw.segs = {} /\ rxw \in RxWindowSet
  BY <1>2 DEF Init, ReceiverInit, RxWindowSet
<1>7. RecvInv
  <2>1. Between(rx, RxLength, 0, 0) /\ Holds(rx, 0, 0)
    BY <1>3, EmptyIs DEF Init, ReceiverInit
  <2>2. RxOK(rxw, rx, Len(read) - taken)
    <3>1. Len(read) - taken = 0 /\ IsFiniteSet(rxw.segs) /\ Off(rxw.cur) = 0
      BY <1>2, <1>4, <1>6, FS_EmptySet
    <3>2. Ahead(rxw, rx, 0)
      BY <1>6 DEF Ahead
    <3> QED  BY <1>6, <2>1, <3>1, <3>2 DEF RxOK
  <2>3. ReadInv
    <3>1. read \in Seq(Byte) /\ <<>> = [k \in 1..0 |-> 0 + k]
      BY <1>4, EmptySeq
    <3>2. Peeked(read, 0, Len(read))
      BY <1>4, <3>1 DEF Peeked
    <3> QED  BY <1>2, <1>3, <1>4, <1>6, <3>1, <3>2 DEF ReadInv, Here, Init, ReceiverInit
  <2>4. FlagInv
    <3>1. Plus(First, MSS) \in Number
      <4>1. First + MSS \in Int /\ Modulus \in Nat \ {0}
        BY Constants
      <4> QED  BY <4>1, Remainder DEF Plus, Number
    <3> QED  BY <3>1, WindowConstants DEF FlagInv, Init, ReceiverInit
  <2> QED  BY <2>2, <2>3, <2>4 DEF RecvInv
<1>8. NetInv
  <2>1. Elements(<<>>) = {} /\ <<>> \in Seq(PacketSet) /\ <<>> \in Seq(AnswerSet)
    BY <1>4, EmptySeq DEF Elements
  <2>2. Packets(data) /\ Answers(acks, Top)
    BY <1>4, <2>1 DEF Packets, Answers
  <2>3. Pieces(data, rxw.segs, txw) = {}
    BY <1>1, <1>4, <1>6, <2>1 DEF Pieces, Carried, Stored
  <2>4. PieceInv
    BY <1>1, <1>2, <1>6, <2>3 DEF PieceInv, Here, Top, Cut, Lengths, Disjoint, Border
  <2>5. faults \in 0..MaxFaults
    BY TotalAssumption DEF Init
  <2> QED  BY <2>2, <2>4, <2>5 DEF NetInv
<1> QED  BY <1>5, <1>7, <1>8 DEF StreamInv

-----------------------------------------------------------------------------
(* The task in FreeRTOS_send. *)

LEMMA SendParts ==
  ASSUME SendInv
  PROVE  /\ Between(tx, TxLength, Off(txw.cur), sent) /\ sent \in 0..Total /\ sent \in Nat /\ Off(txw.cur) \in Nat
         /\ Off(txw.cur) <= sent /\ copying \in Nat /\ tx.LENGTH = TxLength /\ TxLength \in Nat \ {0}
<1>1. TxOK(tx, txw, sent) /\ copying \in 0..MaxChunk
  BY DEF SendInv
<1>2. MaxChunk \in Nat /\ TxLength \in Nat \ {0}
  BY TxAssumption
<1>3. Between(tx, TxLength, Off(txw.cur), sent)
  BY <1>1 DEF TxOK
<1>4. /\ Off(txw.cur) \in 0..Total /\ Off(txw.highest) \in 0..Total /\ Off(txw.next) \in 0..Total
      /\ Off(txw.cur) <= Off(txw.highest) /\ Off(txw.highest) <= Off(txw.next) /\ Off(txw.next) <= sent /\ sent \in 0..Total
      /\ tx.LENGTH = TxLength
  BY <1>1, TxOKIs
<1>5. Total \in Nat
  BY WindowConstants
<1> QED  BY <1>1, <1>2, <1>3, <1>4, <1>5

LEMMA SendCopyKeeps ==
  ASSUME SendInv, NEW n \in 1..MaxChunk, SendCopy(n)
  PROVE  SendInv'
<1>1. PICK a \in Nat, h \in Nat : a = Off(txw.cur) /\ h = sent
  BY SendParts
<1>2. /\ Between(tx, TxLength, a, h) /\ a <= h /\ tx.LENGTH = TxLength /\ TxLength \in Nat \ {0}
      /\ Holds(tx, a, h) /\ copying = 0 /\ n <= Total - h /\ n \in Nat
  <2>1. Holds(tx, Off(txw.cur), sent + copying) /\ copying = 0 /\ sent + 0 = sent
    BY SendParts DEF SendInv, SendCopy
  <2> QED  BY <1>1, <2>1, SendParts, TxAssumption DEF SendCopy
<1>3. PICK m : m = copying'
  OBVIOUS
<1>4. m = Room(tx, 0, n) /\ m > 0
  BY <1>3 DEF SendCopy
<1>5. m \in Nat \ {0} /\ m <= n /\ m <= TxLength - 1 - (h - a)
  <2>1. GetSpace(tx) = TxLength - 1 - (h - a) /\ h - a <= TxLength - 1
    BY <1>2, SizeIs DEF Between
  <2>2. PICK k \in Nat : k = GetSpace(tx)
    BY <1>2, <2>1
  <2>3. m = Lesser(IF k > 0 THEN k - 0 ELSE 0, n)
    BY <1>4, <2>2 DEF Room
  <2>4. m = Lesser(k, n)
    BY <2>3
  <2> QED  BY <1>2, <1>4, <2>1, <2>2, <2>4 DEF Lesser
<1>6. PICK bytes : bytes = [k \in 1..m |-> h + k]
  OBVIOUS
<1>7. bytes \in Seq(Byte) /\ Len(bytes) = m /\ Named(bytes, h)
  <2>1. \A k \in 1..m : h + k \in Byte
    BY <1>2, <1>5, WindowConstants DEF Byte
  <2>2. bytes \in Seq(Byte) /\ Len(bytes) = m
    BY <1>5, <1>6, <2>1
  <2> QED  BY <1>6, <2>2 DEF Named
<1>8. tx' = Copied(tx, 0, bytes)
  BY <1>1, <1>3, <1>6 DEF SendCopy
<1>9. PICK c : c = tx'
  OBVIOUS
<1>10. /\ Between(c, TxLength, a, h) /\ c.mid = tx.mid
       /\ Written(tx, c, TxLength, a, h, m, bytes)
  <2>1. PICK o \in Nat : o = 0
    OBVIOUS
  <2>2. o + m <= TxLength - 1 - (h - a) /\ m \in Nat /\ h + o = h /\ c = Copied(tx, o, bytes)
    BY <1>5, <1>8, <1>9, <2>1
  <2>3. Between(c, TxLength, a, h) /\ c.mid = tx.mid /\ Written(tx, c, TxLength, a, h + o, m, bytes)
    <3>1. Between(tx, TxLength, a, h)
      BY <1>2
    <3>2. bytes \in Seq(Byte) /\ Len(bytes) = m
      BY <1>7
    <3>3. o + m <= TxLength - 1 - (h - a) /\ m \in Nat /\ c = Copied(tx, o, bytes)
      BY <2>2
    <3> QED  BY <3>1, <3>2, <3>3, CopiedIs
  <2> QED  BY <2>2, <2>3
<1>11. c.LENGTH = TxLength
  BY <1>10 DEF Between
<1>12. /\ \A from \in Nat, to \in Nat : a <= from /\ to <= a + TxLength /\ Holds(tx, from, to) => Holds(c, from, to)
       /\ a <= h /\ h + m <= a + TxLength => Holds(c, h, h + m)
  <2>1. m \in Nat
    BY <1>5
  <2> QED  BY <1>2, <1>7, <1>10, <1>11, <2>1, HoldsOn
<1>13. Holds(c, a, h) /\ Holds(c, h, h + m)
  <2>1. a <= a /\ h <= a + TxLength /\ h + m <= a + TxLength
    BY <1>2, <1>5
  <2> QED  BY <1>2, <1>12, <2>1
<1>14. Holds(c, a, h + m)
  <2>1. \A p \in a..h + m - 1 : p \in a..h - 1 \/ p \in h..h + m - 1
    BY <1>5
  <2> QED  BY <1>13, <2>1 DEF Holds
<1>15. txw' = txw /\ sent' = sent /\ wnd' = wnd
  BY DEF SendCopy
<1>16. TxOK(tx, txw, sent)
  BY DEF SendInv
<1>17. TxOK(c, txw, sent)
  BY <1>1, <1>10, <1>16 DEF TxOK
<1>18. h + m <= Total /\ h + m - a <= TxLength - 1 /\ m \in 0..MaxChunk
  BY <1>2, <1>5, TxAssumption, WindowConstants
<1>19. wnd \in Nat
  BY DEF SendInv
<1> QED  BY <1>1, <1>3, <1>9, <1>14, <1>15, <1>17, <1>18, <1>19 DEF SendInv

LEMMA SendPublishKeeps ==
  ASSUME SendInv, SendPublish
  PROVE  SendInv'
<1>1. PICK a \in Nat, h \in Nat, m \in Nat : a = Off(txw.cur) /\ h = sent /\ m = copying
  BY SendParts
<1>2. /\ TxOK(tx, txw, h) /\ Holds(tx, a, h + m) /\ h + m <= Total /\ h + m - a <= TxLength - 1 /\ wnd \in Nat
      /\ Between(tx, TxLength, a, h) /\ a <= h /\ tx.LENGTH = TxLength /\ TxLength \in Nat \ {0}
  BY <1>1, SendParts DEF SendInv
<1>3. PICK c : c = tx'
  OBVIOUS
<1>4. c = Advanced(tx, 0, m) /\ sent' = h + m /\ copying' = 0 /\ txw' = txw /\ wnd' = wnd
  BY <1>1, <1>3 DEF SendPublish
<1>5. Between(c, TxLength, a, h + m) /\ c.mid = tx.mid /\ c.array = tx.array
  <2>1. PICK o \in Nat : o = 0
    OBVIOUS
  <2>2. o + m <= TxLength - 1 - (h - a) /\ c = Advanced(tx, o, m)
    BY <1>2, <1>4, <2>1
  <2>3. Between(c, TxLength, a, IF o = 0 THEN h + m ELSE h) /\ c.mid = tx.mid /\ c.array = tx.array
    BY <1>2, <2>2, AdvancedIs
  <2> QED  BY <2>1, <2>3
<1>6. TxOK(c, txw, h + m)
  <2>1. Off(txw.next) <= h /\ Off(txw.next) \in Nat
    BY <1>2, TxOKIs, WindowConstants
  <2>2. h + m \in 0..Total /\ Off(txw.next) <= h + m
    BY <1>2, <2>1, WindowConstants
  <2> QED  BY <1>1, <1>2, <1>5, <2>2 DEF TxOK
<1>7. Holds(c, a, h + m)
  <2>1. c.LENGTH = tx.LENGTH
    BY <1>2, <1>5 DEF Between
  <2> QED  BY <1>2, <1>5, <2>1 DEF Holds
<1>8. 0 \in 0..MaxChunk /\ h + m + 0 = h + m
  BY TxAssumption
<1> QED  BY <1>1, <1>2, <1>3, <1>4, <1>6, <1>7, <1>8 DEF SendInv

-----------------------------------------------------------------------------
(* The network. *)

LEMMA SackUp ==
  ASSUME NEW sack, NEW top \in Nat, SackOK(sack, top), NEW high \in Nat, top <= high
  PROVE  SackOK(sack, high)
<1>1. CASE sack = <<>>
  BY <1>1 DEF SackOK
<1>2. CASE \E f, l \in Number : sack = <<f, l>> /\ Off(f) <= top /\ Off(l) <= top
  <2>1. PICK f, l \in Number : sack = <<f, l>> /\ Off(f) <= top /\ Off(l) <= top
    BY <1>2
  <2>2. Off(f) <= high /\ Off(l) <= high
    BY <2>1, OffType, WindowConstants
  <2> QED  BY <2>1, <2>2 DEF SackOK
<1> QED  BY <1>1, <1>2 DEF SackOK

LEMMA AnswersUp ==
  ASSUME NEW q, NEW top \in Nat, Answers(q, top), NEW high \in Nat, top <= high
  PROVE  Answers(q, high)
<1>1. q \in Seq(AnswerSet) /\ \A a \in Elements(q) : Off(a.ack) <= top /\ SackOK(a.sack, top)
  BY DEF Answers
<1>2. \A a \in Elements(q) : Off(a.ack) \in Nat
  <2>1. Elements(q) \subseteq AnswerSet
    BY <1>1, ElementsType
  <2>2. \A a \in Elements(q) : a.ack \in Number
    BY <2>1 DEF AnswerSet
  <2> QED  BY <2>2, OffType, WindowConstants
<1>3. \A a \in Elements(q) : Off(a.ack) <= high
  BY <1>1, <1>2
<1>4. \A a \in Elements(q) : SackOK(a.sack, high)
  BY <1>1, SackUp
<1> QED  BY <1>1, <1>3, <1>4 DEF Answers

\* Fewer packets, fewer pieces.
LEMMA FewerPieces ==
  ASSUME NEW d, NEW e, Elements(e) \subseteq Elements(d), NEW segs, NEW w, NEW here, NEW top,
         Cut(Pieces(d, segs, w), here, top)
  PROVE  Cut(Pieces(e, segs, w), here, top)
<1>1. Carried(e) \subseteq Carried(d)
  BY DEF Carried
<1>2. Pieces(e, segs, w) \subseteq Pieces(d, segs, w)
  BY <1>1 DEF Pieces
<1> QED  BY <1>2, CutLess

\* What a fault does to a queue.
LEMMA DamagedIs ==
  ASSUME NEW S, NEW q \in Seq(S), NEW i \in 1..Len(q), NEW r,
         r \in {Lost(q, i), Doubled(q, i)} \/ (i < Len(q) /\ r = Overtaken(q, i))
  PROVE  r \in Seq(S) /\ Elements(r) \subseteq Elements(q)
<1>1. PICK n \in Nat : n = Len(q)
  BY LenProperties
<1>2. \A k \in 1..n : q[k] \in S
  BY <1>1, ElementOfSeq
<1>3. ASSUME NEW f \in Nat, NEW u \in Nat, f > 0, u <= n
      PROVE  SubSeq(q, f, u) \in Seq(S) /\ Elements(SubSeq(q, f, u)) \subseteq Elements(q)
  <2>1. PICK p : p = SubSeq(q, f, u)
    OBVIOUS
  <2>2. CASE f <= u
    <3>1. /\ p \in Seq(S) /\ Len(p) = u - f + 1 /\ \A k \in 1..u - f + 1 : p[k] = q[f + k - 1]
      BY <1>1, <1>3, <2>1, <2>2, SubSeqProperties
    <3>2. \A k \in 1..u - f + 1 : f + k - 1 \in 1..n
      BY <1>3, <2>2
    <3>3. Elements(p) \subseteq Elements(q)
      BY <1>1, <3>1, <3>2 DEF Elements
    <3> QED  BY <2>1, <3>1, <3>3
  <2>3. CASE ~(f <= u)
    <3>1. p = <<>> /\ <<>> \in Seq(S) /\ Len(<<>>) = 0
      BY <1>3, <2>1, <2>3, SubSeqEmpty, EmptySeq
    <3> QED  BY <2>1, <3>1 DEF Elements
  <2> QED  BY <2>2, <2>3
<1>4. CASE r = Lost(q, i)
  <2>1. PICK x, y : x = SubSeq(q, 1, i - 1) /\ y = SubSeq(q, i + 1, Len(q))
    OBVIOUS
  <2>2. x \in Seq(S) /\ Elements(x) \subseteq Elements(q) /\ y \in Seq(S) /\ Elements(y) \subseteq Elements(q)
    BY <1>1, <1>3, <2>1
  <2>3. r = x \o y
    BY <1>4, <2>1 DEF Lost
  <2> QED  BY <2>2, <2>3, ConcatIs
<1>5. CASE r = Doubled(q, i)
  <2>1. PICK x, y : x = SubSeq(q, 1, i) /\ y = SubSeq(q, i, Len(q))
    OBVIOUS
  <2>2. x \in Seq(S) /\ Elements(x) \subseteq Elements(q) /\ y \in Seq(S) /\ Elements(y) \subseteq Elements(q)
    BY <1>1, <1>3, <2>1
  <2>3. r = x \o y
    BY <1>5, <2>1 DEF Doubled
  <2> QED  BY <2>2, <2>3, ConcatIs
<1>6. CASE i < Len(q) /\ r = Overtaken(q, i)
  <2>1. r = [q EXCEPT ![i] = q[i + 1], ![i + 1] = q[i]] /\ i \in 1..n /\ i + 1 \in 1..n
    BY <1>1, <1>6 DEF Overtaken
  <2>2. q[i] \in S /\ q[i + 1] \in S
    BY <1>2, <2>1
  <2>3. PICK x : x = [q EXCEPT ![i] = q[i + 1]]
    OBVIOUS
  <2>4. x \in Seq(S) /\ Len(x) = n /\ x[i] = q[i + 1] /\ \A k \in 1..n : k # i => x[k] = q[k]
    BY <1>1, <2>1, <2>2, <2>3, Changed
  <2>5. r = [x EXCEPT ![i + 1] = q[i]]
    BY <2>1, <2>3
  <2>6. r \in Seq(S) /\ Len(r) = n /\ r[i + 1] = q[i] /\ \A k \in 1..n : k # i + 1 => r[k] = x[k]
    BY <2>1, <2>2, <2>4, <2>5, Changed
  <2>7. ASSUME NEW k \in 1..n PROVE r[k] \in {q[j] : j \in 1..n}
    <3>1. r[k] = q[k] \/ r[k] = q[i] \/ r[k] = q[i + 1]
      BY <2>4, <2>6
    <3> QED  BY <2>1, <3>1
  <2> QED  BY <1>1, <2>6, <2>7 DEF Elements
<1> QED  BY <1>4, <1>5, <1>6


-----------------------------------------------------------------------------
(* The IP task of the sender. *)

LEMMA HoldsLess ==
  ASSUME NEW b, NEW c, c.array = b.array, c.LENGTH = b.LENGTH, NEW from \in Nat, NEW to \in Nat, Holds(b, from, to),
         NEW f \in Nat, from <= f, NEW u \in Nat, u <= to
  PROVE  Holds(c, f, u)
<1>1. \A p \in f..u - 1 : p \in from..to - 1
  OBVIOUS
<1> QED  BY <1>1 DEF Holds

\* What is sent joins what is under way.
LEMMA EmittedIs ==
  ASSUME NEW d, Packets(d), NEW segs, NEW b, NEW w, NEW s, NEW here, NEW run,
         Pumped(b, w, s, Carried(d) \cup Stored(segs), here, run), NEW e, e = d \o run.out
  PROVE  Packets(e) /\ Cut(Pieces(e, segs, run.w), here, Off(run.w.highest))
<1>1. /\ d \in Seq(PacketSet) /\ \A p \in Elements(d) : Genuine(p)
      /\ run.out \in Seq(PacketSet) /\ \A p \in Elements(run.out) : Outgoing(p, Going(run.w))
      /\ Cut((Carried(d) \cup Stored(segs)) \cup Going(run.w), here, Off(run.w.highest))
  BY DEF Packets, Pumped
<1>2. e \in Seq(PacketSet) /\ Elements(e) = Elements(d) \cup Elements(run.out)
  BY <1>1, ConcatIs
<1>3. Packets(e)
  BY <1>1, <1>2 DEF Packets, Outgoing
<1>4. Carried(e) \subseteq Carried(d) \cup Going(run.w)
  <2>1. ASSUME NEW p \in Elements(e), p.bytes # <<>>
        PROVE  <<Off(p.seq), Len(p.bytes)>> \in Carried(d) \cup Going(run.w)
    <3>1. CASE p \in Elements(d)
      BY <2>1, <3>1 DEF Carried
    <3>2. CASE p \in Elements(run.out)
      BY <1>1, <3>2 DEF Outgoing
    <3> QED  BY <1>2, <3>1, <3>2
  <2> QED  BY <2>1 DEF Carried
<1>5. Pieces(e, segs, run.w) \subseteq (Carried(d) \cup Stored(segs)) \cup Going(run.w)
  BY <1>4 DEF Pieces
<1> QED  BY <1>1, <1>3, <1>5, CutLess

\* The sender's window has grown, and what it sends is under way.
Emitted ==
  /\ SendInv' /\ Packets(data') /\ Top <= Top' /\ Top' \in Nat
  /\ Cut(Pieces(data', rxw.segs, txw'), Here, Top')

LEMMA PollIs ==
  ASSUME Unambiguous, StreamInv, NEW due \in Int, Poll(due)
  PROVE  Emitted /\ acks' = acks
<1>1. /\ TxOK(tx, txw, sent) /\ Holds(tx, Off(txw.cur), sent + copying)
      /\ sent + copying <= Total /\ sent + copying - Off(txw.cur) <= TxLength - 1
      /\ copying \in 0..MaxChunk /\ wnd \in Nat
  BY DEF StreamInv, SendInv
<1>2. Packets(data) /\ Here <= Top /\ Cut(Pieces(data, rxw.segs, txw), Here, Top)
  BY DEF StreamInv, NetInv, PieceInv
<1>3. PICK a \in Nat : a = Off(txw.cur)
  BY Positions
<1>4. sent \in Nat /\ copying \in Nat /\ Here \in Nat
  BY Positions
<1>5. PICK add : add = AddTxData(tx, txw)
  OBVIOUS
<1>6. PICK run : run = SendRepeated(add.tx, add.w, wnd, due, SEND_REPEATED_COUNT)
  OBVIOUS
<1>7. tx' = run.tx /\ txw' = run.w /\ data' = data \o run.out /\ wnd' = wnd /\ sent' = sent /\ copying' = copying /\ acks' = acks
  BY <1>5, <1>6 DEF Poll
<1>8. Holds(tx, Off(txw.cur), sent)
  <2>1. a <= a /\ sent <= sent + copying /\ sent + copying \in Nat
    BY <1>4
  <2>2. Holds(tx, a, sent + copying)
    BY <1>1, <1>3
  <2> QED  BY <1>3, <1>4, <2>1, <2>2, HoldsLess
<1>9. PICK P : P = Carried(data) \cup Stored(rxw.segs)
  OBVIOUS
<1>10. Pumped(tx, txw, sent, P, Here, run)
  <2>1. Cut(P \cup Going(txw), Here, Off(txw.highest)) /\ Here <= Off(txw.highest)
    BY <1>2, <1>9 DEF Pieces, Top
  <2>2. SEND_REPEATED_COUNT \in Nat
    BY DEF SEND_REPEATED_COUNT
  <2> QED  BY <1>1, <1>4, <1>5, <1>6, <1>8, <2>1, <2>2, PumpedIs
<1>11. /\ TxOK(run.tx, run.w, sent) /\ run.tx.array = tx.array /\ run.w.cur = txw.cur
       /\ Off(txw.highest) <= Off(run.w.highest)
  BY <1>10 DEF Pumped
<1>12. Packets(data') /\ Cut(Pieces(data', rxw.segs, run.w), Here, Off(run.w.highest))
  BY <1>2, <1>7, <1>9, <1>10, EmittedIs
<1>13. run.tx.LENGTH = TxLength /\ tx.LENGTH = TxLength /\ Off(run.w.highest) \in Nat
  BY <1>1, <1>11, TxOKIs, WindowConstants
<1>14. Holds(run.tx, Off(txw.cur), sent + copying)
  BY <1>1, <1>11, <1>13 DEF Holds
<1>15. SendInv'
  BY <1>1, <1>7, <1>11, <1>14 DEF SendInv
<1>16. Top' = Off(run.w.highest)
  BY <1>7 DEF Top
<1> QED  BY <1>7, <1>11, <1>12, <1>13, <1>15, <1>16 DEF Emitted, Top

\* Acknowledged bytes are released.
LEMMA FreedIs ==
  ASSUME NEW b, NEW w, NEW s, TxOK(b, w, s), NEW v, NEW n, Acks(w, v, n), NEW d, d = Released(b, n)
  PROVE  TxOK(d, v, s) /\ d.array = b.array /\ Off(w.cur) <= Off(v.cur) /\ v.highest = w.highest /\ Going(v) \subseteq Going(w)
<1>1. WindowInv(v) /\ n \in Nat /\ Off(v.cur) = Off(w.cur) + n /\ v.highest = w.highest /\ v.next = w.next
      /\ Going(v) \subseteq Going(w)
  BY DEF Acks
<1>2. PICK a \in Nat : a = Off(w.cur)
  BY TxOKIs, WindowConstants
<1>3. Off(v.cur) <= Off(v.highest) /\ Off(v.highest) <= Off(v.next) /\ Off(v.cur) \in 0..Total
      /\ Off(v.highest) \in 0..Total /\ Off(v.next) \in 0..Total
  BY <1>1, WindowOrder
<1>4. Between(b, TxLength, a, s) /\ b.mid = Slot(Off(w.next), TxLength) /\ s \in 0..Total /\ Off(w.next) <= s
  BY <1>2 DEF TxOK
<1>5. n <= s - a
  BY <1>1, <1>2, <1>3, <1>4, WindowConstants
<1>6. Between(d, TxLength, a + n, s) /\ d.mid = b.mid /\ d.array = b.array
  BY <1>1, <1>4, <1>5, ReleasedIs
<1>7. TxOK(d, v, s)
  BY <1>1, <1>2, <1>4, <1>6 DEF TxOK
<1> QED  BY <1>1, <1>2, <1>6, <1>7


\* The acknowledgement the sender handles is of bytes it has sent.
LEMMA HeadIs ==
  ASSUME NEW top \in Nat, Answers(acks, top), acks # <<>>
  PROVE  /\ Head(acks).ack \in Number /\ Head(acks).wnd \in Nat /\ Off(Head(acks).ack) <= top
         /\ SackOK(Head(acks).sack, top) /\ Answers(Tail(acks), top)
<1>1. acks \in Seq(AnswerSet) /\ \A a \in Elements(acks) : Off(a.ack) <= top /\ SackOK(a.sack, top)
  BY DEF Answers
<1>2. /\ Tail(acks) \in Seq(AnswerSet) /\ Head(acks) \in AnswerSet
      /\ Elements(acks) = Elements(Tail(acks)) \cup {Head(acks)}
  BY <1>1, TailIs
<1>3. PICK a : a = Head(acks)
  OBVIOUS
<1>4. a.ack \in Number /\ a.wnd \in Nat
  BY <1>2, <1>3 DEF AnswerSet
<1>5. Off(a.ack) <= top /\ SackOK(a.sack, top)
  BY <1>1, <1>2, <1>3
<1>6. Answers(Tail(acks), top)
  BY <1>1, <1>2 DEF Answers
<1> QED  BY <1>3, <1>4, <1>5, <1>6

LEMMA SackedIs ==
  ASSUME Unambiguous, NEW w, WindowInv(w), NEW sack, SackOK(sack, Off(w.highest)),
         NEW c, c = IF sack = <<>> THEN [w |-> w, confirmed |-> 0] ELSE TxSack(w, sack[1], sack[2])
  PROVE  Acks(w, c.w, c.confirmed)
<1>1. CASE sack = <<>>
  <2>1. c.w = w /\ c.confirmed = 0
    BY <1>1
  <2>2. Off(w.cur) \in Int
    BY WindowOrder, WindowConstants
  <2> QED  BY <2>1, <2>2 DEF Acks
<1>2. CASE sack # <<>>
  <2>1. PICK f, l \in Number : sack = <<f, l>> /\ Off(f) <= Off(w.highest) /\ Off(l) <= Off(w.highest)
    BY <1>2 DEF SackOK
  <2>2. c = TxSack(w, f, l)
    BY <1>2, <2>1
  <2>3. Off(f) <= Total
    BY <2>1, WindowOrder, OffType, WindowConstants
  <2> QED  BY <2>1, <2>2, <2>3, TxSackIs
<1> QED  BY <1>1, <1>2

LEMMA HandleAckIs ==
  ASSUME Unambiguous, StreamInv, HandleAck
  PROVE  Emitted /\ acks # <<>> /\ acks' = Tail(acks)
<1>1. /\ TxOK(tx, txw, sent) /\ Holds(tx, Off(txw.cur), sent + copying)
      /\ sent + copying <= Total /\ sent + copying - Off(txw.cur) <= TxLength - 1
      /\ copying \in 0..MaxChunk /\ wnd \in Nat
  BY DEF StreamInv, SendInv
<1>2. Packets(data) /\ Here <= Top /\ Cut(Pieces(data, rxw.segs, txw), Here, Top) /\ Answers(acks, Top) /\ acks # <<>>
  BY DEF StreamInv, NetInv, PieceInv, HandleAck
<1>3. PICK a \in Nat, top \in Nat, here \in Nat : a = Off(txw.cur) /\ top = Top /\ here = Here
  BY Positions
<1>4. sent \in Nat /\ copying \in Nat
  BY Positions
<1>5. PICK m : m = Head(acks)
  OBVIOUS
<1>6. m.ack \in Number /\ m.wnd \in Nat /\ Off(m.ack) <= top /\ SackOK(m.sack, top)
  BY <1>2, <1>3, <1>5, HeadIs
<1>7. PICK sack : sack = IF m.sack = <<>> THEN [w |-> txw, confirmed |-> 0] ELSE TxSack(txw, m.sack[1], m.sack[2])
  OBVIOUS
<1>8. PICK ack : ack = TxAck(sack.w, m.ack)
  OBVIOUS
<1>9. PICK half, free : half = Released(tx, sack.confirmed) /\ free = Released(half, ack.confirmed)
  OBVIOUS
<1>10. PICK add : add = AddTxData(free, ack.w)
  OBVIOUS
<1>11. PICK run : run = SendRepeated(add.tx, add.w, m.wnd, 0, 1 + SEND_REPEATED_COUNT)
  OBVIOUS
<1>12. tx' = run.tx /\ txw' = run.w /\ wnd' = m.wnd /\ data' = data \o run.out /\ sent' = sent /\ copying' = copying
       /\ acks' = Tail(acks)
  BY <1>5, <1>7, <1>8, <1>9, <1>10, <1>11 DEF HandleAck
<1>13. Acks(txw, sack.w, sack.confirmed)
  <2>1. WindowInv(txw) /\ SackOK(m.sack, Off(txw.highest))
    BY <1>1, <1>3, <1>6 DEF TxOK, Top
  <2> QED  BY <1>7, <2>1, SackedIs
<1>14. PICK v : v = sack.w
  OBVIOUS
<1>15. /\ TxOK(half, v, sent) /\ half.array = tx.array /\ a <= Off(v.cur) /\ v.highest = txw.highest
       /\ Going(v) \subseteq Going(txw)
  BY <1>1, <1>3, <1>9, <1>13, <1>14, FreedIs
<1>16. Acks(v, ack.w, ack.confirmed)
  <2>1. WindowInv(v) /\ Off(m.ack) <= Off(v.highest)
    BY <1>3, <1>6, <1>15 DEF TxOK, Top
  <2> QED  BY <1>6, <1>8, <1>14, <2>1, TxAckIs
<1>17. PICK u : u = ack.w
  OBVIOUS
<1>18. /\ TxOK(free, u, sent) /\ free.array = half.array /\ Off(v.cur) <= Off(u.cur) /\ u.highest = v.highest
       /\ Going(u) \subseteq Going(v)
  BY <1>9, <1>15, <1>16, <1>17, FreedIs
<1>19. PICK c \in Nat : c = Off(u.cur) /\ a <= c /\ c <= sent
  <2>1. Off(v.cur) \in Nat /\ Off(u.cur) \in Nat /\ Off(u.cur) <= sent
    BY <1>4, <1>15, <1>18, TxOKIs, WindowConstants
  <2>2. a <= Off(u.cur)
    BY <1>15, <1>18, <2>1
  <2> QED  BY <2>1, <2>2
<1>20. free.array = tx.array /\ free.LENGTH = tx.LENGTH /\ tx.LENGTH = TxLength
  BY <1>1, <1>15, <1>18, TxOKIs
<1>21. Holds(free, c, sent) /\ Holds(free, c, sent + copying)
  <2>1. Holds(tx, a, sent + copying) /\ sent + copying \in Nat
    BY <1>1, <1>3, <1>4
  <2>2. sent <= sent + copying /\ sent + copying <= sent + copying
    BY <1>4
  <2> QED  BY <1>4, <1>19, <1>20, <2>1, <2>2, HoldsLess
<1>22. PICK P : P = Carried(data) \cup Stored(rxw.segs)
  OBVIOUS
<1>23. Pumped(free, u, sent, P, here, run)
  <2>1. Cut(P \cup Going(txw), here, top)
    BY <1>2, <1>3, <1>22 DEF Pieces
  <2>2. P \cup Going(u) \subseteq P \cup Going(txw)
    BY <1>15, <1>18
  <2>3. Cut(P \cup Going(u), here, top)
    BY <2>1, <2>2, CutLess
  <2>4. Off(u.highest) = top /\ here <= top
    BY <1>2, <1>3, <1>15, <1>18 DEF Top
  <2>5. 1 + SEND_REPEATED_COUNT \in Nat /\ 0 \in Int
    BY DEF SEND_REPEATED_COUNT
  <2>6. Holds(free, Off(u.cur), sent) /\ add = AddTxData(free, u)
    BY <1>10, <1>17, <1>19, <1>21
  <2> QED  BY <1>11, <1>18, <2>3, <2>4, <2>5, <2>6, PumpedIs
<1>24. /\ TxOK(run.tx, run.w, sent) /\ run.tx.array = free.array /\ run.w.cur = u.cur
       /\ Off(u.highest) <= Off(run.w.highest)
  BY <1>23 DEF Pumped
<1>25. Packets(data') /\ Cut(Pieces(data', rxw.segs, run.w), Here, Off(run.w.highest))
  BY <1>2, <1>3, <1>12, <1>22, <1>23, EmittedIs
<1>26. run.tx.LENGTH = TxLength /\ Off(run.w.highest) \in Nat
  BY <1>24, TxOKIs, WindowConstants
<1>27. Holds(run.tx, Off(run.w.cur), sent + copying)
  BY <1>19, <1>20, <1>21, <1>24, <1>26 DEF Holds
<1>28. sent + copying - c <= TxLength - 1
  BY <1>1, <1>3, <1>4, <1>19, WindowConstants
<1>29. SendInv'
  BY <1>1, <1>6, <1>12, <1>19, <1>24, <1>27, <1>28 DEF SendInv
<1>30. Top' = Off(run.w.highest) /\ Top = Off(u.highest)
  BY <1>12, <1>15, <1>18 DEF Top
<1> QED  BY <1>2, <1>12, <1>24, <1>25, <1>26, <1>29, <1>30 DEF Emitted

\* The probe of prvTCPSendCheck has no bytes.
LEMMA KeepAliveIs ==
  ASSUME StreamInv, KeepAlive
  PROVE  Packets(data') /\ Carried(data') = Carried(data) /\ UNCHANGED <<sender, acks>>
<1>1. data \in Seq(PacketSet) /\ \A p \in Elements(data) : Genuine(p)
  BY DEF StreamInv, NetInv, Packets
<1>2. PICK x : x = Minus(txw.highest, 1)
  OBVIOUS
<1>3. x \in Number
  <2>1. txw.highest \in Number
    BY Positions, WindowFields
  <2>2. txw.highest - 1 \in Int /\ Modulus \in Nat \ {0}
    BY <2>1, Constants DEF Number
  <2> QED  BY <1>2, <2>2, Remainder DEF Minus, Number
<1>4. PICK p : p = [seq |-> x, bytes |-> <<>>]
  OBVIOUS
<1>5. data' = Append(data, p) /\ UNCHANGED <<sender, acks>>
  BY <1>2, <1>4 DEF KeepAlive
<1>6. p.seq = x /\ p.bytes = <<>> /\ p \in PacketSet
  BY <1>3, <1>4, EmptySeq DEF PacketSet
<1>7. Genuine(p)
  <2>1. Len(<<>>) = 0 /\ <<>> = [k \in 1..0 |-> Off(x) + k]
    BY EmptySeq
  <2>2. Named(<<>>, Off(x)) /\ Len(<<>>) <= MSS
    BY <2>1, WindowConstants DEF Named
  <2> QED  BY <1>6, <2>2 DEF Genuine
<1>8. data' \in Seq(PacketSet) /\ Elements(data') = Elements(data) \cup {p}
  BY <1>1, <1>5, <1>6, AppendIs
<1>9. Packets(data')
  BY <1>1, <1>7, <1>8 DEF Packets
<1>10. Carried(data') = Carried(data)
  BY <1>6, <1>8 DEF Carried
<1> QED  BY <1>5, <1>9, <1>10


-----------------------------------------------------------------------------
(* The IP task of the receiver. *)

LEMMA AnswerIs ==
  ASSUME NEW stream, StreamType(stream, Byte), NEW w, w.cur \in Number, NEW top \in Nat, Off(w.cur) <= top,
         NEW curWin \in Nat, NEW low, NEW sack, SackOK(sack, top), Answers(acks, top),
         ReturnPacket(stream, w, curWin, low, sack)
  PROVE  Answers(acks', top) /\ rxAllowed' \in Number /\ bWinChange' \in BOOLEAN /\ ackMessage' \in BOOLEAN
<1>1. PICK space : space = WinSize(stream, curWin, low)
  OBVIOUS
<1>2. space \in Nat
  <2>1. PICK x : x = IF low THEN 0 ELSE Lesser(curWin, RxWindow)
    OBVIOUS
  <2>2. x \in Nat
    BY <2>1, RxAssumption DEF Lesser
  <2>3. space = x \/ space = MSS
    BY <1>1, <2>1 DEF WinSize
  <2> QED  BY <2>2, <2>3, WindowConstants
<1>3. PICK a : a = [ack |-> w.cur, wnd |-> space, sack |-> sack]
  OBVIOUS
<1>4. acks' = Append(acks, a) /\ rxAllowed' = Plus(w.cur, space) /\ bWinChange' = FALSE /\ ackMessage' = FALSE
  BY <1>1, <1>3 DEF ReturnPacket
<1>5. sack \in Seq(Number)
  <2>1. CASE sack = <<>>
    BY <2>1, EmptySeq
  <2>2. CASE \E f, l \in Number : sack = <<f, l>>
    BY <2>2
  <2> QED  BY <2>1, <2>2 DEF SackOK
<1>6. a \in AnswerSet /\ a.ack = w.cur /\ a.sack = sack
  BY <1>2, <1>3, <1>5 DEF AnswerSet
<1>7. acks \in Seq(AnswerSet) /\ \A b \in Elements(acks) : Off(b.ack) <= top /\ SackOK(b.sack, top)
  BY DEF Answers
<1>8. acks' \in Seq(AnswerSet) /\ Elements(acks') = Elements(acks) \cup {a}
  BY <1>4, <1>6, <1>7, AppendIs
<1>9. Answers(acks', top)
  BY <1>6, <1>7, <1>8 DEF Answers
<1>10. rxAllowed' \in Number
  <2>1. w.cur + space \in Int /\ Modulus \in Nat \ {0}
    BY <1>2, Constants DEF Number
  <2> QED  BY <1>4, <2>1, Remainder DEF Plus, Number
<1> QED  BY <1>4, <1>9, <1>10

LEMMA CurWinType ==
  ASSUME NEW stream, StreamType(stream, Byte), NEW w \in RxWindowSet
  PROVE  CurWin(stream, w) \in Nat
<1>1. w.highest \in 0..Modulus - 1 /\ w.cur \in 0..Modulus - 1 /\ Modulus \in Nat \ {0}
  BY RxWindowIs, Constants DEF Number
<1>2. PICK x : x = Minus(w.highest, w.cur)
  OBVIOUS
<1>3. x \in 0..Modulus - 1
  <2>1. w.highest - w.cur \in Int
    BY <1>1
  <2> QED  BY <1>1, <1>2, <2>1, Remainder DEF Minus
<1>4. PICK y : y = Minus(RxWindow, x)
  OBVIOUS
<1>5. y \in 0..Modulus - 1
  <2>1. RxWindow - x \in Int
    BY <1>3, RxAssumption
  <2> QED  BY <1>1, <1>4, <2>1, Remainder DEF Minus
<1>6. FrontSpace(stream) \in Nat
  <2>1. FrontSpace(stream) \in 0..stream.LENGTH - 1
    BY FrontType
  <2> QED  BY <2>1 DEF StreamType
<1> QED  BY <1>1, <1>2, <1>4, <1>5, <1>6 DEF CurWin, Lesser

\* A packet is received: the window and the stream stay right, and what is under way too.
LEMMA TakenIs ==
  ASSUME Unambiguous, StreamInv, data # <<>>, NEW p, p = Head(data), NEW len, len = Len(p.bytes),
         NEW check, check = IF len = 0 THEN RxRefused(rxw, <<>>) ELSE RxCheck(rxw, p.seq, len, GetSpace(rx)),
         NEW s, s = StoreRxData(rx, check, p.bytes)
  PROVE  /\ RxOK(check.w, s, Len(read) - taken) /\ Here <= Off(check.w.cur) /\ Off(check.w.cur) <= Top
         /\ Cut(Pieces(Tail(data), check.w.segs, txw), Off(check.w.cur), Top)
         /\ SackOK(check.sack, Top) /\ Packets(Tail(data)) /\ p \in PacketSet
<1>a. PICK P : P = Pieces(data, rxw.segs, txw)
  OBVIOUS
<1>b. PICK top \in Nat : top = Top
  BY Positions
<1>c. PICK t : t = Len(read) - taken
  OBVIOUS
<1>1. P = Pieces(data, rxw.segs, txw) /\ top = Top /\ t = Len(read) - taken
  BY <1>a, <1>b, <1>c
<1>2. /\ Packets(data) /\ Here <= top /\ Cut(P, Here, top) /\ top \in 0..Total
      /\ RxOK(rxw, rx, t) /\ Here = Off(rxw.cur) /\ Here \in Nat
  BY <1>1, Positions DEF StreamInv, NetInv, PieceInv, RecvInv, Here
<1>3. /\ Tail(data) \in Seq(PacketSet) /\ p \in PacketSet
      /\ Elements(data) = Elements(Tail(data)) \cup {p}
  BY <1>2, TailIs DEF Packets
<1>4. Genuine(p) /\ Packets(Tail(data))
  BY <1>2, <1>3 DEF Packets
<1>5. p.seq \in Number /\ p.bytes \in Seq(Byte) /\ len \in Nat /\ len <= MSS /\ Named(p.bytes, Off(p.seq))
  <2>1. p.seq \in Number /\ p.bytes \in Seq(Byte)
    BY <1>3 DEF PacketSet
  <2> QED  BY <1>4, <2>1, LenProperties DEF Genuine
<1>6. Stored(rxw.segs) \subseteq P
  BY <1>1 DEF Pieces
<1>7. PICK v : v = check.w
  OBVIOUS
<1>8. /\ RxOK(v, s, t) /\ Here <= Off(v.cur) /\ Off(v.cur) <= top /\ Border(P, Off(v.cur))
      /\ Stored(v.segs) \subseteq P /\ SackOK(check.sack, top)
  <2>1. CASE len = 0
    <3>1. PICK none : none = <<>> /\ SackOK(none, top)
      BY DEF SackOK
    <3>2. check = RxRefused(rxw, none)
      BY <2>1, <3>1
    <3>3. Received(rxw, v, s, t, P, 0, 0, top) /\ SackOK(check.sack, top)
      BY <1>2, <1>7, <3>1, <3>2, RefusedIs
    <3>4. v = rxw
      BY <1>7, <3>2 DEF RxRefused
    <3> QED  BY <1>2, <1>6, <3>3, <3>4 DEF Received
  <2>2. CASE len # 0
    <3>1. <<Off(p.seq), len>> \in P
      <4>1. p.bytes # <<>>
        <5>1. Len(<<>>) = 0
          BY EmptySeq
        <5> QED  BY <2>2, <5>1
      <4>2. <<Off(p.seq), len>> \in Carried(data)
        BY <1>3, <4>1 DEF Carried
      <4> QED  BY <1>1, <4>2 DEF Pieces
    <3>2. check = RxCheck(rxw, p.seq, len, GetSpace(rx)) /\ len \in 1..MSS
      BY <1>5, <2>2, WindowConstants
    <3>3. Received(rxw, v, s, t, P, Off(p.seq), len, top) /\ SackOK(check.sack, top)
      BY <1>2, <1>5, <1>6, <1>7, <3>1, <3>2, RxCheckIs
    <3> QED  BY <1>2, <1>6, <3>1, <3>3 DEF Received
  <2> QED  BY <2>1, <2>2
<1>9. Cut(P, Off(v.cur), top)
  BY <1>2, <1>8 DEF Cut
<1>10. Pieces(Tail(data), v.segs, txw) \subseteq P
  <2>1. Carried(Tail(data)) \subseteq Carried(data)
    BY <1>3 DEF Carried
  <2> QED  BY <1>1, <1>8, <2>1 DEF Pieces
<1>11. Cut(Pieces(Tail(data), v.segs, txw), Off(v.cur), top)
  BY <1>9, <1>10, CutLess
<1> QED  BY <1>1, <1>3, <1>4, <1>7, <1>8, <1>11

\* The receiver's window has grown.
Absorbed == RecvInv' /\ Packets(data') /\ PieceInv' /\ Answers(acks', Top)

LEMMA HandleDataIs ==
  ASSUME Unambiguous, StreamInv, HandleData, UNCHANGED sender
  PROVE  Absorbed /\ faults' = faults
<1>1. PICK p : p = Head(data)
  OBVIOUS
<1>2. PICK len : len = Len(p.bytes)
  OBVIOUS
<1>3. PICK end : end = Plus(p.seq, len)
  OBVIOUS
<1>4. PICK high : high = IF Signed(Minus(end, rxw.highest)) > 0 THEN end ELSE rxw.highest
  OBVIOUS
<1>5. PICK check : check = IF len = 0 THEN RxRefused(rxw, <<>>) ELSE RxCheck(rxw, p.seq, len, GetSpace(rx))
  OBVIOUS
<1>6. PICK v, w : v = check.w /\ w = [v EXCEPT !.highest = high]
  OBVIOUS
<1>7. PICK s : s = StoreRxData(rx, check, p.bytes)
  OBVIOUS
<1>8. PICK low \in BOOLEAN : low <=> check.offset = 0 /\ FrontSpace(s) <= LittleSpace
  <2>1. CASE check.offset = 0 /\ FrontSpace(s) <= LittleSpace
    BY <2>1
  <2>2. CASE ~(check.offset = 0 /\ FrontSpace(s) <= LittleSpace)
    BY <2>2
  <2> QED  BY <2>1, <2>2
<1>9. /\ data # <<>> /\ rx' = s /\ rxw' = w /\ bLowWater' \in BOOLEAN
      /\ data' = Tail(data) /\ reading' = reading /\ taken' = taken /\ read' = read /\ faults' = faults
  BY <1>1, <1>2, <1>3, <1>4, <1>5, <1>6, <1>7 DEF HandleData
<1>10. \/ acks' = acks /\ bWinChange' = bWinChange /\ rxCurWin' = rxCurWin /\ rxAllowed' = rxAllowed /\ ackMessage' = ackMessage
       \/ /\ rxCurWin' = CurWin(s, w)
          /\ \/ ackMessage' = TRUE /\ bWinChange' \in BOOLEAN /\ acks' = acks /\ rxAllowed' = rxAllowed
             \/ ReturnPacket(s, w, rxCurWin', bLowWater', check.sack)
  BY <1>1, <1>2, <1>3, <1>4, <1>5, <1>6, <1>7 DEF HandleData
<1>11. /\ RxOK(v, s, Len(read) - taken) /\ Here <= Off(v.cur) /\ Off(v.cur) <= Top
       /\ Cut(Pieces(Tail(data), v.segs, txw), Off(v.cur), Top)
       /\ SackOK(check.sack, Top) /\ Packets(Tail(data)) /\ p \in PacketSet
  BY <1>1, <1>2, <1>5, <1>6, <1>7, <1>9, TakenIs
<1>12. high \in Number
  <2>1. end \in Number
    <3>1. p.seq \in Number /\ p.bytes \in Seq(Byte)
      BY <1>11 DEF PacketSet
    <3>2. len \in Nat
      BY <1>2, <3>1, LenProperties
    <3>3. p.seq + len \in Int /\ Modulus \in Nat \ {0}
      BY <3>1, <3>2, Constants DEF Number
    <3> QED  BY <1>3, <3>3, Remainder DEF Plus, Number
  <2>2. rxw.highest \in Number
    BY Positions, RxWindowIs
  <2> QED  BY <1>4, <2>1, <2>2
<1>13. w \in RxWindowSet /\ w.cur = v.cur /\ w.segs = v.segs
  <2>1. v \in RxWindowSet
    BY <1>11 DEF RxOK
  <2> QED  BY <1>6, <1>12, <2>1 DEF RxWindowSet
<1>14. RxOK(w, s, Len(read) - taken)
  BY <1>11, <1>13 DEF RxOK, Ahead
<1>15. txw' = txw /\ Top' = Top /\ Here' = Off(w.cur)
  BY <1>9 DEF sender, Top, Here
<1>16. StreamType(s, Byte)
  BY <1>14 DEF RxOK, Between
<1>17. PieceInv' /\ Packets(data')
  BY <1>9, <1>11, <1>13, <1>15 DEF PieceInv
<1>18. ReadInv'
  <2>1. Len(read) <= Here' /\ Here' \in Nat
    <3>1. Len(read) \in Nat /\ Here \in Nat
      BY Positions
    <3>2. Off(w.cur) \in Nat
      BY <1>13, RxWindowIs
    <3>3. Len(read) <= Here
      BY DEF StreamInv, RecvInv, ReadInv
    <3> QED  BY <1>11, <1>13, <1>15, <3>1, <3>2, <3>3
  <2>2. ReadInv
    BY DEF StreamInv, RecvInv
  <2> QED  BY <1>9, <2>1, <2>2 DEF ReadInv
<1>19. FlagInv' /\ Answers(acks', Top)
  <2>1. FlagInv /\ Answers(acks, Top) /\ Top \in Nat
    BY Positions DEF StreamInv, RecvInv, NetInv
  <2>2. CASE acks' = acks /\ bWinChange' = bWinChange /\ rxCurWin' = rxCurWin /\ rxAllowed' = rxAllowed /\ ackMessage' = ackMessage
    BY <1>9, <2>1, <2>2 DEF FlagInv
  <2>3. CASE rxCurWin' = CurWin(s, w) /\ ackMessage' = TRUE /\ bWinChange' \in BOOLEAN /\ acks' = acks /\ rxAllowed' = rxAllowed
    <3>1. rxCurWin' \in Nat
      BY <1>13, <1>16, <2>3, CurWinType
    <3> QED  BY <1>9, <2>1, <2>3, <3>1 DEF FlagInv
  <2>4. CASE rxCurWin' = CurWin(s, w) /\ ReturnPacket(s, w, rxCurWin', bLowWater', check.sack)
    <3>1. rxCurWin' \in Nat
      BY <1>13, <1>16, <2>4, CurWinType
    <3>2. w.cur \in Number /\ Off(w.cur) <= Top
      BY <1>11, <1>13, RxWindowIs
    <3>3. Answers(acks', Top) /\ rxAllowed' \in Number /\ bWinChange' \in BOOLEAN /\ ackMessage' \in BOOLEAN
      BY <1>11, <1>16, <2>1, <2>4, <3>1, <3>2, AnswerIs
    <3> QED  BY <1>9, <3>1, <3>3 DEF FlagInv
  <2> QED  BY <1>10, <2>2, <2>3, <2>4
<1>20. RecvInv'
  BY <1>9, <1>14, <1>18, <1>19 DEF RecvInv
<1> QED  BY <1>9, <1>17, <1>19, <1>20 DEF Absorbed

-----------------------------------------------------------------------------
(* The receiver's other steps. *)

LEMMA SamePieces ==
  ASSUME StreamInv, UNCHANGED <<data, rxw, txw>>
  PROVE  Packets(data') /\ PieceInv' /\ Top' = Top /\ Here' = Here
<1>1. Packets(data) /\ PieceInv
  BY DEF StreamInv, NetInv
<1>2. data' = data /\ rxw' = rxw /\ txw' = txw
  OBVIOUS
<1>3. Top' = Top /\ Here' = Here
  BY <1>2 DEF Top, Here
<1> QED  BY <1>1, <1>2, <1>3 DEF PieceInv

\* The delayed acknowledgement goes out.
LEMMA SocketCheckIs ==
  ASSUME StreamInv, SocketCheck, UNCHANGED sender
  PROVE  Absorbed /\ faults' = faults
<1>1. /\ ReturnPacket(rx, rxw, rxCurWin, bLowWater, <<>>)
      /\ UNCHANGED <<rx, rxw, bLowWater, rxCurWin, reading, taken, read, data, faults>>
  BY DEF SocketCheck
<1>2. txw' = txw
  BY DEF sender
<1>3. ReadInv /\ FlagInv /\ RxOK(rxw, rx, Len(read) - taken) /\ Answers(acks, Top)
  BY DEF StreamInv, RecvInv, NetInv
<1>4. Packets(data') /\ PieceInv' /\ Top' = Top /\ Here' = Here
  BY <1>1, <1>2, SamePieces
<1>5. StreamType(rx, Byte)
  BY <1>3 DEF RxOK, Between
<1>6. rxw.cur \in Number /\ Off(rxw.cur) <= Top /\ Top \in Nat
  BY Positions DEF Here
<1>7. rxCurWin \in Nat
  BY <1>3 DEF FlagInv
<1>8. PICK none : none = <<>> /\ SackOK(none, Top)
  BY DEF SackOK
<1>9. ReturnPacket(rx, rxw, rxCurWin, bLowWater, none)
  BY <1>1, <1>8
<1>10. Answers(acks', Top) /\ rxAllowed' \in Number /\ bWinChange' \in BOOLEAN /\ ackMessage' \in BOOLEAN
  BY <1>3, <1>5, <1>6, <1>7, <1>8, <1>9, AnswerIs
<1>11. FlagInv'
  BY <1>1, <1>3, <1>10 DEF FlagInv
<1>12. ReadInv'
  BY <1>1, <1>3, <1>4 DEF ReadInv
<1>13. RxOK(rxw, rx, Len(read) - taken)'
  BY <1>1, <1>3
<1> QED  BY <1>1, <1>4, <1>10, <1>11, <1>12, <1>13 DEF Absorbed, RecvInv

\* The bytes are read from where the last ones ended.
LEMMA ReadOn ==
  ASSUME NEW q \in Seq(Byte), NEW l \in Nat, Peeked(q, 0, l), NEW r, NEW n \in Nat, Peeked(r, l, n), l + n <= Total
  PROVE  q \o r \in Seq(Byte) /\ Peeked(q \o r, 0, l + n)
<1>1. /\ Len(q) = l /\ q = [k \in 1..l |-> 0 + k] /\ Len(r) = n /\ r = [k \in 1..n |-> l + k]
  BY DEF Peeked
<1>2. \A k \in 1..n : l + k \in Byte
  BY WindowConstants DEF Byte
<1>3. r \in Seq(Byte)
  BY <1>1, <1>2
<1>4. PICK s : s = q \o r
  OBVIOUS
<1>5. /\ s \in Seq(Byte) /\ Len(s) = l + n
      /\ \A i \in 1..l + n : s[i] = IF i <= l THEN q[i] ELSE r[i - l]
  BY <1>1, <1>3, <1>4, ConcatProperties
<1>6. \A i \in 1..l + n : s[i] = 0 + i
  <2> SUFFICES ASSUME NEW i \in 1..l + n PROVE s[i] = 0 + i
    OBVIOUS
  <2>1. CASE i <= l
    <3>1. i \in 1..l /\ q[i] = 0 + i
      BY <1>1, <2>1
    <3> QED  BY <1>5, <2>1, <3>1
  <2>2. CASE ~(i <= l)
    <3>1. i - l \in 1..n
      BY <2>2
    <3>2. r[i - l] = l + (i - l)
      BY <1>1, <3>1
    <3> QED  BY <1>5, <2>2, <3>2
  <2> QED  BY <2>1, <2>2
<1>7. DOMAIN s = 1..l + n
  BY <1>5, LenProperties
<1>8. s = [k \in 1..l + n |-> 0 + k]
  <2>1. s = [k \in DOMAIN s |-> s[k]]
    BY <1>5, LenProperties
  <2> QED  BY <1>6, <1>7, <2>1
<1> QED  BY <1>4, <1>5, <1>8 DEF Peeked

\* FreeRTOS_recv copies the bytes from the last one read on.
LEMMA RecvCopyReads ==
  ASSUME StreamInv, RecvCopy
  PROVE  /\ read' \in Seq(Byte) /\ Peeked(read', 0, Len(read')) /\ Len(read') <= Here
         /\ taken' \in 0..MaxRead /\ Len(read) < Len(read') /\ Len(read') - taken' = Len(read)
         /\ taken = 0
<1>1. PICK l \in Nat, h \in Nat : l = Len(read) /\ h = Here
  BY Positions
<1>2. read \in Seq(Byte) /\ Peeked(read, 0, l) /\ l <= h /\ taken = 0 /\ h <= Total
  <2>1. ReadInv
    BY DEF StreamInv, RecvInv
  <2>2. read \in Seq(Byte) /\ Peeked(read, 0, Len(read)) /\ Len(read) <= Here /\ taken = 0
    BY <2>1 DEF ReadInv, RecvCopy
  <2> QED  BY <1>1, <2>2, Positions, WindowConstants
<1>3. RxOK(rxw, rx, l)
  <2>1. l - 0 = l
    OBVIOUS
  <2> QED  BY <1>1, <1>2, <2>1 DEF StreamInv, RecvInv
<1>4. Between(rx, RxLength, l, h) /\ Holds(rx, l, h)
  BY <1>1, <1>3 DEF RxOK, Here
<1>5. MaxRead \in Nat \ {0}
  BY RxAssumption
<1>6. PICK bytes : bytes = Peek(rx, 0, MaxRead)
  OBVIOUS
<1>7. taken' = Len(bytes) /\ read' = read \o bytes
  BY <1>6 DEF RecvCopy
<1>8. PICK n \in Nat : n = Lesser(h - l, MaxRead) /\ Peeked(bytes, l, n)
  <2>1. l - l = 0 /\ l <= l
    OBVIOUS
  <2>2. bytes = Peek(rx, l - l, MaxRead)
    BY <1>6, <2>1
  <2>3. Peeked(bytes, l, Lesser(h - l, MaxRead)) /\ Lesser(h - l, MaxRead) \in Nat
    BY <1>2, <1>4, <1>5, <2>1, <2>2, PeekIs
  <2> QED  BY <2>3
<1>9. GetSize(rx) = h - l /\ GetSize(rx) > 0
  BY <1>4, SizeIs DEF RecvCopy
<1>10. n <= h - l /\ n <= MaxRead /\ n > 0
  BY <1>5, <1>8, <1>9 DEF Lesser
<1>11. Len(bytes) = n
  BY <1>8 DEF Peeked
<1>12. l + n <= Total
  BY <1>2, <1>10, WindowConstants
<1>13. read' \in Seq(Byte) /\ Peeked(read', 0, l + n)
  BY <1>2, <1>7, <1>8, <1>12, ReadOn
<1>14. Len(read') = l + n
  BY <1>13 DEF Peeked
<1>15. l + n <= h /\ n \in 0..MaxRead /\ l < l + n /\ l + n - n = l
  BY <1>5, <1>10
<1> QED  BY <1>1, <1>2, <1>7, <1>11, <1>13, <1>14, <1>15

LEMMA RecvCopyIs ==
  ASSUME StreamInv, RecvCopy, UNCHANGED sender
  PROVE  Absorbed /\ faults' = faults
<1>1. PICK l \in Nat : l = Len(read)
  BY Positions
<1>2. /\ reading' = "copied" /\ UNCHANGED <<rx, rxw, bLowWater, bWinChange, rxCurWin, rxAllowed, ackMessage>>
      /\ UNCHANGED <<data, acks, faults>>
  BY DEF RecvCopy, socket, network
<1>3. /\ read' \in Seq(Byte) /\ Peeked(read', 0, Len(read')) /\ Len(read') <= Here
      /\ taken' \in 0..MaxRead /\ l < Len(read') /\ Len(read') - taken' = l /\ taken = 0
  BY <1>1, RecvCopyReads
<1>4. txw' = txw
  BY DEF sender
<1>5. Packets(data') /\ PieceInv' /\ Top' = Top /\ Here' = Here
  BY <1>2, <1>4, SamePieces
<1>6. FlagInv /\ RxOK(rxw, rx, Len(read) - taken) /\ Answers(acks, Top)
  BY DEF StreamInv, RecvInv, NetInv
<1>7. RxOK(rxw', rx', Len(read') - taken')
  <2>1. Len(read) - taken = l
    BY <1>1, <1>3
  <2> QED  BY <1>2, <1>3, <1>6, <2>1
<1>8. taken' <= Len(read')
  <2>1. Len(read') \in Nat /\ taken' \in Nat
    BY <1>3, LenProperties, RxAssumption
  <2> QED  BY <1>3, <2>1
<1>9. ReadInv'
  BY <1>2, <1>3, <1>5, <1>8 DEF ReadInv
<1>10. FlagInv' /\ Answers(acks', Top)
  BY <1>2, <1>6 DEF FlagInv
<1> QED  BY <1>2, <1>5, <1>7, <1>9, <1>10 DEF Absorbed, RecvInv

\* The tail moves past the bytes copied.
LEMMA RecvPublishIs ==
  ASSUME StreamInv, RecvPublish, UNCHANGED sender
  PROVE  Absorbed /\ faults' = faults
<1>1. PICK l \in Nat, n \in Nat, h \in Nat : l = Len(read) /\ n = taken /\ h = Here
  BY Positions
<1>2. /\ reading' = "water" /\ taken' = 0 /\ rx' = Released(rx, n)
      /\ UNCHANGED <<rxw, bLowWater, bWinChange, rxCurWin, rxAllowed, ackMessage, read, data, acks, faults>>
  BY <1>1 DEF RecvPublish, network
<1>3. ReadInv /\ FlagInv /\ RxOK(rxw, rx, l - n) /\ Answers(acks, Top)
  BY <1>1 DEF StreamInv, RecvInv, NetInv
<1>4. l <= h /\ n <= l /\ l - n \in Nat
  BY <1>1, <1>3 DEF ReadInv
<1>5. PICK t \in Nat : t = l - n
  BY <1>4
<1>6. /\ rxw \in RxWindowSet /\ IsFiniteSet(rxw.segs) /\ Between(rx, RxLength, t, h) /\ Holds(rx, t, h) /\ Ahead(rxw, rx, t)
  BY <1>1, <1>3, <1>5 DEF RxOK, Here
<1>7. PICK c : c = rx'
  OBVIOUS
<1>8. Between(c, RxLength, l, h) /\ c.array = rx.array
  <2>1. n <= h - t /\ t + n = l
    BY <1>4, <1>5
  <2>2. c = Released(rx, n)
    BY <1>2, <1>7
  <2>3. Between(c, RxLength, t + n, h) /\ c.array = rx.array
    BY <1>6, <2>1, <2>2, ReleasedIs
  <2> QED  BY <2>1, <2>3
<1>9. c.LENGTH = rx.LENGTH
  BY <1>6, <1>8 DEF Between
<1>10. Holds(c, l, h)
  <2>1. t <= l /\ h <= h
    BY <1>4, <1>5
  <2> QED  BY <1>6, <1>8, <1>9, <2>1, HoldsLess
<1>11. Ahead(rxw, c, l)
  <2> SUFFICES ASSUME NEW s \in rxw.segs
               PROVE  /\ Off(rxw.cur) < Off(s.seq) /\ Off(s.seq) + s.len <= l + RxLength - 1
                      /\ Holds(c, Off(s.seq), Off(s.seq) + s.len)
    BY DEF Ahead
  <2>1. /\ Off(rxw.cur) < Off(s.seq) /\ Off(s.seq) + s.len <= t + RxLength - 1
        /\ Holds(rx, Off(s.seq), Off(s.seq) + s.len)
    BY <1>6 DEF Ahead
  <2>2. s.len \in Nat /\ Off(s.seq) \in Nat
    BY <1>6, RxWindowIs
  <2>3. Off(s.seq) + s.len <= l + RxLength - 1
    BY <1>4, <1>5, <2>1, <2>2, RxAssumption
  <2>4. Holds(c, Off(s.seq), Off(s.seq) + s.len)
    BY <1>8, <1>9, <2>1 DEF Holds
  <2> QED  BY <2>1, <2>3, <2>4
<1>12. RxOK(rxw', rx', Len(read') - taken')
  <2>1. Len(read') - taken' = l
    BY <1>1, <1>2
  <2>2. RxOK(rxw, c, l)
    BY <1>1, <1>6, <1>8, <1>10, <1>11 DEF RxOK, Here
  <2> QED  BY <1>2, <1>7, <2>1, <2>2
<1>13. txw' = txw
  BY DEF sender
<1>14. Packets(data') /\ PieceInv' /\ Top' = Top /\ Here' = Here
  BY <1>2, <1>13, SamePieces
<1>15. ReadInv'
  <2>1. 0 \in 0..MaxRead /\ 0 <= Len(read)
    BY <1>1, RxAssumption
  <2> QED  BY <1>2, <1>3, <1>14, <2>1 DEF ReadInv
<1>16. FlagInv' /\ Answers(acks', Top)
  BY <1>2, <1>3 DEF FlagInv
<1> QED  BY <1>2, <1>12, <1>14, <1>15, <1>16 DEF Absorbed, RecvInv

LEMMA RecvWaterIs ==
  ASSUME StreamInv, RecvWater \/ RecvOpen, UNCHANGED sender
  PROVE  Absorbed /\ faults' = faults
<1>1. /\ reading \in {"water", "enough"} /\ reading' \in {"idle", "enough"}
      /\ UNCHANGED <<rx, rxw, rxCurWin, rxAllowed, ackMessage, taken, read, data, acks, faults>>
      /\ \/ bLowWater' = FALSE /\ bWinChange' = TRUE
         \/ UNCHANGED <<bLowWater, bWinChange>>
  BY DEF RecvWater, RecvOpen, socket, network
<1>2. txw' = txw
  BY DEF sender
<1>3. Packets(data') /\ PieceInv' /\ Top' = Top /\ Here' = Here
  BY <1>1, <1>2, SamePieces
<1>4. ReadInv /\ FlagInv /\ RxOK(rxw, rx, Len(read) - taken) /\ Answers(acks, Top)
  BY DEF StreamInv, RecvInv, NetInv
<1>5. RxOK(rxw', rx', Len(read') - taken')
  BY <1>1, <1>4
<1>6. ReadInv'
  BY <1>1, <1>3, <1>4 DEF ReadInv
<1>7. FlagInv' /\ Answers(acks', Top)
  BY <1>1, <1>4 DEF FlagInv
<1> QED  BY <1>1, <1>3, <1>5, <1>6, <1>7 DEF Absorbed, RecvInv

-----------------------------------------------------------------------------
(* The steps. *)

LEMMA FaultsIs ==
  ASSUME StreamInv, (UNCHANGED faults) \/ Fault
  PROVE  faults' \in 0..MaxFaults
<1>1. faults \in 0..MaxFaults /\ MaxFaults \in Nat
  BY TotalAssumption DEF StreamInv, NetInv
<1> QED  BY <1>1 DEF Fault

\* What the sender emits leaves the receiver as it was.
LEMMA EmittedKeeps ==
  ASSUME StreamInv, UNCHANGED receiver, Emitted, Answers(acks', Top), faults' \in 0..MaxFaults
  PROVE  StreamInv'
<1>1. /\ SendInv' /\ Packets(data') /\ Top <= Top' /\ Top' \in Nat
      /\ Cut(Pieces(data', rxw.segs, txw'), Here, Top')
  BY DEF Emitted
<1>2. /\ rx' = rx /\ rxw' = rxw /\ bLowWater' = bLowWater /\ bWinChange' = bWinChange /\ rxCurWin' = rxCurWin
      /\ rxAllowed' = rxAllowed /\ ackMessage' = ackMessage /\ reading' = reading /\ taken' = taken /\ read' = read
  BY DEF receiver, socket
<1>3. Here' = Here
  BY <1>2 DEF Here
<1>4. RecvInv'
  <2>1. ReadInv /\ FlagInv /\ RxOK(rxw, rx, Len(read) - taken)
    BY DEF StreamInv, RecvInv
  <2>2. ReadInv'
    BY <1>2, <1>3, <2>1 DEF ReadInv
  <2>3. FlagInv'
    BY <1>2, <2>1 DEF FlagInv
  <2> QED  BY <1>2, <2>1, <2>2, <2>3 DEF RecvInv
<1>5. PieceInv'
  <2>1. Here <= Top /\ Here \in Nat /\ Top \in Nat
    BY Positions
  <2>2. Here <= Top'
    BY <1>1, <2>1
  <2> QED  BY <1>1, <1>2, <1>3, <2>2 DEF PieceInv
<1>6. Answers(acks', Top')
  BY <1>1, Positions, AnswersUp
<1> QED  BY <1>1, <1>4, <1>5, <1>6 DEF StreamInv, NetInv

\* What the task in FreeRTOS_send does leaves the window as it was.
LEMMA SendKeeps ==
  ASSUME StreamInv, Send, UNCHANGED receiver
  PROVE  Emitted /\ acks' = acks /\ faults' = faults
<1>1. SendInv /\ Packets(data) /\ Cut(Pieces(data, rxw.segs, txw), Here, Top)
  BY DEF StreamInv, NetInv, PieceInv
<1>2. SendInv'
  <2>1. CASE \E n \in 1..MaxChunk : SendCopy(n)
    BY <1>1, <2>1, SendCopyKeeps
  <2>2. CASE SendPublish
    BY <1>1, <2>2, SendPublishKeeps
  <2> QED  BY <2>1, <2>2 DEF Send
<1>3. txw' = txw /\ data' = data /\ acks' = acks /\ faults' = faults
  BY DEF Send, SendCopy, SendPublish, network
<1>4. Top' = Top /\ Top \in Nat /\ Top <= Top
  BY <1>3, Positions DEF Top
<1> QED  BY <1>1, <1>2, <1>3, <1>4 DEF Emitted

LEMMA AliveIs ==
  ASSUME StreamInv, KeepAlive
  PROVE  Emitted /\ acks' = acks
<1>1. SendInv /\ Cut(Pieces(data, rxw.segs, txw), Here, Top)
  BY DEF StreamInv, NetInv, PieceInv
<1>2. Packets(data') /\ Carried(data') = Carried(data) /\ UNCHANGED <<sender, acks>>
  BY KeepAliveIs
<1>3. tx' = tx /\ txw' = txw /\ wnd' = wnd /\ sent' = sent /\ copying' = copying /\ acks' = acks
  BY <1>2 DEF sender
<1>4. SendInv'
  BY <1>1, <1>3 DEF SendInv
<1>5. Top' = Top /\ Top \in Nat /\ Top <= Top
  BY <1>3, Positions DEF Top
<1>6. Cut(Pieces(data', rxw.segs, txw'), Here, Top')
  BY <1>1, <1>2, <1>3, <1>5 DEF Pieces
<1> QED  BY <1>2, <1>3, <1>4, <1>5, <1>6 DEF Emitted

LEMMA SenderKeeps ==
  ASSUME Unambiguous, StreamInv, SenderStep, UNCHANGED receiver
  PROVE  StreamInv'
<1>1. Answers(acks, Top) /\ Top \in Nat
  BY Positions DEF StreamInv, NetInv
<1>2. CASE Send
  BY <1>1, <1>2, SendKeeps, FaultsIs, EmittedKeeps
<1>3. ASSUME NEW due \in Int, Poll(due), (UNCHANGED faults) \/ Fault
      PROVE  StreamInv'
  <2>1. Emitted /\ acks' = acks
    BY <1>3, PollIs
  <2> QED  BY <1>1, <1>3, <2>1, FaultsIs, EmittedKeeps
<1>4. CASE Transmission
  <2>1. 0 \in Int /\ Poll(0) /\ UNCHANGED faults
    BY <1>4 DEF Transmission, SendNew
  <2> QED  BY <1>3, <2>1
<1>5. CASE TimeOut
  <2>1. PICK due \in 1..Len(txw.wait) : Poll(due)
    BY <1>5 DEF TimeOut, Resend
  <2>2. due \in Int /\ UNCHANGED faults
    BY <1>5 DEF TimeOut
  <2> QED  BY <1>3, <2>1, <2>2
<1>6. CASE EarlyOut
  <2>1. 1 \in Int /\ Poll(1) /\ Fault
    BY <1>6 DEF EarlyOut
  <2> QED  BY <1>3, <2>1
<1>7. CASE AliveProbe
  <2>1. KeepAlive /\ UNCHANGED faults
    BY <1>7 DEF AliveProbe
  <2>2. Emitted /\ acks' = acks
    BY <2>1, AliveIs
  <2> QED  BY <1>1, <2>1, <2>2, FaultsIs, EmittedKeeps
<1>8. CASE HandleAck
  <2>1. Emitted /\ acks # <<>> /\ acks' = Tail(acks)
    BY <1>8, HandleAckIs
  <2>2. UNCHANGED faults
    BY <1>8 DEF HandleAck
  <2>3. Answers(acks', Top)
    BY <1>1, <2>1, HeadIs
  <2> QED  BY <2>1, <2>2, <2>3, FaultsIs, EmittedKeeps
<1> QED  BY <1>2, <1>4, <1>5, <1>6, <1>7, <1>8 DEF SenderStep

\* What the receiver takes in leaves the sender as it was.
LEMMA AbsorbedKeeps ==
  ASSUME StreamInv, UNCHANGED sender, Absorbed, faults' \in 0..MaxFaults
  PROVE  StreamInv'
<1>1. tx' = tx /\ txw' = txw /\ wnd' = wnd /\ sent' = sent /\ copying' = copying
  BY DEF sender
<1>2. SendInv
  BY DEF StreamInv
<1>3. SendInv'
  BY <1>1, <1>2 DEF SendInv
<1>4. Top' = Top
  BY <1>1 DEF Top
<1> QED  BY <1>3, <1>4 DEF StreamInv, NetInv, Absorbed

LEMMA ReceiverKeeps ==
  ASSUME Unambiguous, StreamInv, ReceiverStep, UNCHANGED sender
  PROVE  StreamInv'
<1>1. CASE HandleData
  BY <1>1, HandleDataIs, FaultsIs, AbsorbedKeeps
<1>2. CASE SocketCheck
  BY <1>2, SocketCheckIs, FaultsIs, AbsorbedKeeps
<1>3. CASE RecvCopy
  BY <1>3, RecvCopyIs, FaultsIs, AbsorbedKeeps
<1>4. CASE RecvPublish
  BY <1>4, RecvPublishIs, FaultsIs, AbsorbedKeeps
<1>5. CASE RecvWater \/ RecvOpen
  BY <1>5, RecvWaterIs, FaultsIs, AbsorbedKeeps
<1> QED  BY <1>1, <1>2, <1>3, <1>4, <1>5 DEF ReceiverStep, Receive

\* Faults lose, double and reorder; they make nothing up.
LEMMA DamageKeeps ==
  ASSUME StreamInv, Damage, UNCHANGED <<sender, receiver>>
  PROVE  StreamInv'
<1>1. /\ Packets(data) /\ Answers(acks, Top) /\ PieceInv
  BY DEF StreamInv, NetInv
<1>2. faults' \in 0..MaxFaults
  <2>1. Fault
    BY DEF Damage, DamageData, DamageAck
  <2> QED  BY <2>1, FaultsIs
<1>3. data' \in Seq(PacketSet) /\ Elements(data') \subseteq Elements(data)
  <2>1. data \in Seq(PacketSet)
    BY <1>1 DEF Packets
  <2>2. CASE DamageData
    <3>1. PICK i \in DOMAIN data : \/ data' \in {Lost(data, i), Doubled(data, i)}
                                   \/ i < Len(data) /\ data' = Overtaken(data, i)
      BY <2>2 DEF DamageData
    <3>2. i \in 1..Len(data)
      BY <2>1, <3>1, LenProperties
    <3> QED  BY <2>1, <3>1, <3>2, DamagedIs
  <2>3. CASE data' = data
    BY <2>1, <2>3
  <2> QED  BY <2>2, <2>3 DEF Damage, DamageAck
<1>4. acks' \in Seq(AnswerSet) /\ Elements(acks') \subseteq Elements(acks)
  <2>1. acks \in Seq(AnswerSet)
    BY <1>1 DEF Answers
  <2>2. CASE DamageAck
    <3>1. PICK i \in DOMAIN acks : \/ acks' \in {Lost(acks, i), Doubled(acks, i)}
                                   \/ i < Len(acks) /\ acks' = Overtaken(acks, i)
      BY <2>2 DEF DamageAck
    <3>2. i \in 1..Len(acks)
      BY <2>1, <3>1, LenProperties
    <3> QED  BY <2>1, <3>1, <3>2, DamagedIs
  <2>3. CASE acks' = acks
    BY <2>1, <2>3
  <2> QED  BY <2>2, <2>3 DEF Damage, DamageData
<1>5. Packets(data')
  BY <1>1, <1>3 DEF Packets
<1>6. Answers(acks', Top)
  BY <1>1, <1>4 DEF Answers
<1>7. txw' = txw /\ rxw' = rxw
  BY DEF sender, receiver, socket
<1>8. Cut(Pieces(data', rxw.segs, txw), Here, Top) /\ Here <= Top
  BY <1>1, <1>3, FewerPieces DEF PieceInv
<1>9. Emitted
  <2>1. SendInv
    BY DEF StreamInv
  <2>2. tx' = tx /\ txw' = txw /\ wnd' = wnd /\ sent' = sent /\ copying' = copying
    BY DEF sender
  <2>3. SendInv'
    BY <2>1, <2>2 DEF SendInv
  <2>4. Top' = Top /\ Top \in Nat /\ Top <= Top
    BY <1>7, Positions DEF Top
  <2> QED  BY <1>5, <1>7, <1>8, <2>3, <2>4 DEF Emitted
<1> QED  BY <1>2, <1>6, <1>9, EmittedKeeps

LEMMA StutterKeeps ==
  ASSUME StreamInv, UNCHANGED vars
  PROVE  StreamInv'
<1>1. /\ tx' = tx /\ txw' = txw /\ wnd' = wnd /\ sent' = sent /\ copying' = copying
      /\ data' = data /\ acks' = acks /\ faults' = faults /\ UNCHANGED receiver
  BY DEF vars, sender, network
<1>2. Emitted /\ acks' = acks
  <2>1. SendInv /\ Packets(data) /\ Cut(Pieces(data, rxw.segs, txw), Here, Top)
    BY DEF StreamInv, NetInv, PieceInv
  <2>2. SendInv'
    BY <1>1, <2>1 DEF SendInv
  <2>3. Top' = Top /\ Top \in Nat /\ Top <= Top
    BY <1>1, Positions DEF Top
  <2> QED  BY <1>1, <2>1, <2>2, <2>3 DEF Emitted
<1>3. Answers(acks, Top) /\ faults \in 0..MaxFaults
  BY DEF StreamInv, NetInv
<1> QED  BY <1>1, <1>2, <1>3, EmittedKeeps

LEMMA NextKeeps ==
  ASSUME Unambiguous, StreamInv, [Next]_vars
  PROVE  StreamInv'
<1>1. CASE SenderStep /\ UNCHANGED receiver
  BY <1>1, SenderKeeps
<1>2. CASE ReceiverStep /\ UNCHANGED sender
  BY <1>2, ReceiverKeeps
<1>3. CASE Damage /\ UNCHANGED <<sender, receiver>>
  BY <1>3, DamageKeeps
<1>4. CASE UNCHANGED vars
  BY <1>4, StutterKeeps
<1> QED  BY <1>1, <1>2, <1>3, <1>4 DEF Next

\* The bytes of the connection stay in their places on their way.
THEOREM StreamHolds == Unambiguous => (Spec => []StreamInv)
<1> SUFFICES ASSUME Unambiguous PROVE Spec => []StreamInv
  OBVIOUS
<1>1. Init => StreamInv
  BY NothingYet
<1>2. StreamInv /\ [Next]_vars => StreamInv'
  BY NextKeeps
<1> QED  BY <1>1, <1>2, PTL DEF Spec

-----------------------------------------------------------------------------
(* What the invariant says. *)

LEMMA TypesOf == StreamInv => TypeOK
<1> SUFFICES ASSUME StreamInv PROVE TypeOK
  OBVIOUS
<1>1. SenderType
  <2>1. TxOK(tx, txw, sent) /\ wnd \in Nat /\ copying \in 0..MaxChunk
    BY DEF StreamInv, SendInv
  <2>2. StreamType(tx, Byte) /\ WindowInv(txw) /\ sent \in 0..Total
    BY <2>1 DEF TxOK, Between
  <2>3. PICK o, n, m : Laid(txw, o, n, m)
    BY <2>2 DEF WindowInv
  <2>4. txw \in WindowSet /\ n \in 0..SegCount /\ Len(txw.segs) = n
    BY <2>3 DEF Laid, Counted
  <2>5. /\ txw.segs \in Seq(SegmentSet) /\ \A i \in 1..Len(txw.segs) : txw.segs[i] \in SegmentSet
        /\ txw.cur \in Number /\ txw.highest \in Number /\ txw.next \in Number
    BY <2>4, WindowFields
  <2>6. \A i \in DOMAIN txw.segs : SegmentType(txw.segs[i])
    <3>1. DOMAIN txw.segs = 1..Len(txw.segs)
      BY <2>5, LenProperties
    <3> QED  BY <2>5, <3>1, SegmentFields DEF SegmentType
  <2>7. Len(txw.segs) <= SegCount
    BY <2>4
  <2> QED  BY <2>1, <2>2, <2>5, <2>6, <2>7 DEF SenderType
<1>2. ReceiverType
  <2>1. ReadInv /\ FlagInv /\ RxOK(rxw, rx, Len(read) - taken)
    BY DEF StreamInv, RecvInv
  <2>2. StreamType(rx, Byte) /\ rxw \in RxWindowSet
    BY <2>1 DEF RxOK, Between
  <2>3. rxw.cur \in Number /\ rxw.highest \in Number /\ \A s \in rxw.segs : s.seq \in Number /\ s.len \in 1..MSS
    BY <2>2, RxWindowIs
  <2>4. read \in Seq(Byte \cup {NoByte})
    <3>1. read \in Seq(Byte)
      BY <2>1 DEF ReadInv
    <3> QED  BY <3>1
  <2> QED  BY <2>1, <2>2, <2>3, <2>4 DEF ReceiverType, ReadInv, FlagInv
<1>3. NetworkType
  <2>1. data \in Seq(PacketSet) /\ acks \in Seq(AnswerSet) /\ faults \in 0..MaxFaults
    BY DEF StreamInv, NetInv, Packets, Answers
  <2>2. \A i \in DOMAIN data : DataType(data[i])
    <3>1. \A i \in DOMAIN data : data[i] \in PacketSet
      BY <2>1, ElementOfSeq, LenProperties
    <3> QED  BY <3>1 DEF DataType, PacketSet
  <2>3. \A i \in DOMAIN acks : AckType(acks[i])
    <3>1. \A i \in DOMAIN acks : acks[i] \in AnswerSet
      BY <2>1, ElementOfSeq, LenProperties
    <3> QED  BY <3>1 DEF AckType, AnswerSet
  <2> QED  BY <2>1, <2>2, <2>3 DEF NetworkType
<1> QED  BY <1>1, <1>2, <1>3 DEF TypeOK

LEMMA CurrentOf == StreamInv => HeadAtCurrent
<1> SUFFICES ASSUME StreamInv PROVE HeadAtCurrent
  OBVIOUS
<1>1. PICK h \in Nat : h = Here
  BY Positions
<1>2. PICK t : t = Len(read) - taken
  OBVIOUS
<1>3. Between(rx, RxLength, t, h)
  BY <1>1, <1>2 DEF StreamInv, RecvInv, RxOK, Here
<1>4. t \in Nat /\ GetSize(rx) = h - t
  <2>1. t \in Nat
    BY <1>3 DEF Between
  <2> QED  BY <1>3, <2>1, SizeIs
<1>5. t + GetSize(rx) = h
  BY <1>4
<1>6. rxw.cur \in Number /\ Off(rxw.cur) = h
  BY <1>1, Positions DEF Here
<1>7. h \in 0..Modulus - 1
  BY <1>6, OffType
<1>8. Plus(First, h) \in Number /\ Off(Plus(First, h)) = h
  BY <1>7, OffPlus
<1>9. Plus(First, h) = rxw.cur
  BY <1>6, <1>8, OffInjective
<1>10. Len(read) - taken + GetSize(rx) = h
  BY <1>2, <1>5
<1> QED  BY <1>9, <1>10 DEF HeadAtCurrent

LEMMA AheadOf == Unambiguous /\ StreamInv => StoredAhead
<1> SUFFICES ASSUME Unambiguous, StreamInv, NEW s \in rxw.segs
             PROVE  LessThan(rxw.cur, s.seq) /\ Minus(Plus(s.seq, s.len), rxw.cur) <= GetSpace(rx)
  BY DEF StoredAhead
<1>1. PICK h \in Nat, top \in Nat : h = Here /\ top = Top
  BY Positions
<1>2. PICK t : t = Len(read) - taken
  OBVIOUS
<1>3. RxOK(rxw, rx, t) /\ Lengths(Pieces(data, rxw.segs, txw), top) /\ top <= Total
  BY <1>1, <1>2, Positions, WindowConstants DEF StreamInv, RecvInv, NetInv, PieceInv, Cut
<1>4. Between(rx, RxLength, t, h) /\ rxw \in RxWindowSet /\ Ahead(rxw, rx, t) /\ Off(rxw.cur) = h
  BY <1>1, <1>3 DEF RxOK, Here
<1>5. t \in Nat /\ t <= h /\ GetSpace(rx) = RxLength - 1 - (h - t)
  <2>1. t \in Nat /\ t <= h
    BY <1>4 DEF Between
  <2> QED  BY <1>4, <2>1, SizeIs
<1>6. s.seq \in Number /\ s.len \in Nat \ {0} /\ Off(s.seq) \in Nat /\ rxw.cur \in Number
  BY <1>4, RxWindowIs
<1>7. h < Off(s.seq) /\ Off(s.seq) + s.len <= t + RxLength - 1
  BY <1>4 DEF Ahead
<1>8. Off(s.seq) + s.len <= top
  <2>1. <<Off(s.seq), s.len>> \in Pieces(data, rxw.segs, txw)
    BY DEF Pieces, Stored
  <2> QED  BY <1>3, <2>1, PieceIs
<1>9. PICK e : e = Plus(s.seq, s.len)
  OBVIOUS
<1>10. e \in Number /\ Off(e) = Off(s.seq) + s.len /\ Off(e) <= Total /\ Off(s.seq) <= Total /\ h <= Total
  BY <1>1, <1>3, <1>6, <1>7, <1>8, <1>9, NumberSum, WindowConstants
<1>11. LessThan(rxw.cur, s.seq)
  BY <1>4, <1>6, <1>7, <1>10, Comparisons
<1>12. Minus(e, rxw.cur) = Off(e) - h
  <2>1. h <= Off(e)
    BY <1>6, <1>7, <1>10
  <2> QED  BY <1>4, <1>6, <1>10, <2>1, Comparisons
<1>13. Minus(e, rxw.cur) <= GetSpace(rx)
  BY <1>5, <1>6, <1>7, <1>10, <1>12, RxAssumption
<1> QED  BY <1>9, <1>11, <1>13

-----------------------------------------------------------------------------
(* The queues. *)

\* A queue without repetition is as long as it has elements.
LEMMA OnceLength ==
  ASSUME NEW S, NEW q \in Seq(S), Once(q)
  PROVE  Len(q) = Cardinality(Elements(q))
<1>1. PICK n \in Nat : n = Len(q)
  BY LenProperties
<1>2. PICK f : f = [i \in 1..n |-> q[i]]
  OBVIOUS
<1>3. f \in Bijection(1..n, Elements(q))
  <2>1. f \in [1..n -> Elements(q)]
    BY <1>1, <1>2 DEF Elements
  <2>2. \A i, j \in 1..n : f[i] = f[j] => i = j
    BY <1>1, <1>2 DEF Once
  <2>3. \A x \in Elements(q) : \E i \in 1..n : f[i] = x
    BY <1>1, <1>2 DEF Elements
  <2> QED  BY <2>1, <2>2, <2>3 DEF Bijection, Injection, Surjection, IsInjective
<1>4. IsFiniteSet(1..n) /\ Cardinality(1..n) = n
  BY FS_Interval
<1>5. ExistsBijection(1..n, Elements(q))
  BY <1>3 DEF ExistsBijection
<1>6. Cardinality(Elements(q)) = Cardinality(1..n)
  BY <1>4, <1>5, FS_Bijection
<1> QED  BY <1>1, <1>4, <1>6

\* txq has the segments that were not sent, each once.
LEMMA QueuedIs ==
  ASSUME NEW w, NEW o, NEW n, NEW m, Laid(w, o, n, m)
  PROVE  /\ Elements(w.txq) = {w.segs[i].seq : i \in {j \in 1..n : ~w.segs[j].sent}}
         /\ Once(w.txq)
<1>1. /\ n \in Nat /\ m \in Nat /\ m <= n /\ Len(w.txq) = n - m
      /\ \A i \in 1..n : w.segs[i].sent <=> i <= m
      /\ \A j \in 1..n - m : w.txq[j] = w.segs[m + j].seq
      /\ \A i, j \in 1..n : w.segs[i].seq = w.segs[j].seq => i = j
  <2>1. Counted(w, n, m) /\ Marked(w, n, m) /\ Queued(w, n, m)
    BY DEF Laid
  <2>2. n \in Nat /\ m \in Nat /\ m <= n /\ \A i, j \in 1..n : w.segs[i].seq = w.segs[j].seq => i = j
    BY Ordered
  <2>3. Len(w.txq) = n - m
    BY <2>1 DEF Counted
  <2>4. \A i \in 1..n : w.segs[i].sent <=> i <= m
    BY <2>1 DEF Marked
  <2>5. \A j \in 1..n - m : w.txq[j] = w.segs[m + j].seq
    BY <2>1 DEF Queued
  <2> QED  BY <2>2, <2>3, <2>4, <2>5
<1>2. \A j \in 1..n - m : m + j \in 1..n /\ ~(m + j <= m)
  BY <1>1
<1>3. \A i \in 1..n : ~(i <= m) => i - m \in 1..n - m /\ m + (i - m) = i
  BY <1>1
<1>4. Elements(w.txq) \subseteq {w.segs[i].seq : i \in {j \in 1..n : ~w.segs[j].sent}}
  <2> SUFFICES ASSUME NEW j \in 1..n - m
               PROVE  w.txq[j] \in {w.segs[i].seq : i \in {k \in 1..n : ~w.segs[k].sent}}
    BY <1>1 DEF Elements
  <2>1. PICK i : i = m + j
    OBVIOUS
  <2>2. i \in 1..n /\ ~(i <= m) /\ w.txq[j] = w.segs[i].seq
    BY <1>1, <1>2, <2>1
  <2>3. ~w.segs[i].sent
    BY <1>1, <2>2
  <2> QED  BY <2>2, <2>3
<1>5. {w.segs[i].seq : i \in {j \in 1..n : ~w.segs[j].sent}} \subseteq Elements(w.txq)
  <2> SUFFICES ASSUME NEW i \in 1..n, ~w.segs[i].sent PROVE w.segs[i].seq \in Elements(w.txq)
    OBVIOUS
  <2>1. ~(i <= m)
    BY <1>1
  <2>2. i - m \in 1..n - m /\ m + (i - m) = i
    BY <1>3, <2>1
  <2>3. w.txq[i - m] = w.segs[i].seq
    BY <1>1, <2>2
  <2> QED  BY <1>1, <2>2, <2>3 DEF Elements
<1>6. Once(w.txq)
  <2> SUFFICES ASSUME NEW i \in 1..n - m, NEW j \in 1..n - m, w.txq[i] = w.txq[j] PROVE i = j
    BY <1>1 DEF Once
  <2>1. w.segs[m + i].seq = w.segs[m + j].seq
    BY <1>1
  <2>2. m + i = m + j
    BY <1>1, <1>2, <2>1
  <2> QED  BY <1>1, <2>2
<1> QED  BY <1>4, <1>5, <1>6

\* The three queues together have each segment that is not acknowledged, once.
LEMMA AllQueued ==
  ASSUME NEW w, NEW o, NEW n, NEW m, Laid(w, o, n, m), NEW q, q = w.prio \o w.txq \o w.wait
  PROVE  /\ q \in Seq(Number) /\ Once(q)
         /\ Elements(q) = {w.segs[i].seq : i \in {j \in 1..n : ~w.segs[j].acked}}
<1>1. /\ w.prio \in Seq(Number) /\ w.txq \in Seq(Number) /\ w.wait \in Seq(Number) /\ Len(w.segs) = n
      /\ Elements(w.prio) \cup Elements(w.wait) = Due(w)
      /\ Elements(w.prio) \cap Elements(w.wait) = {} /\ Once(w.prio) /\ Once(w.wait)
  BY WindowFields DEF Laid, Counted, Waiting
<1>2. /\ Elements(w.txq) = {w.segs[i].seq : i \in {j \in 1..n : ~w.segs[j].sent}} /\ Once(w.txq)
  BY QueuedIs
<1>3. /\ \A i, j \in 1..n : w.segs[i].seq = w.segs[j].seq => i = j
      /\ \A i \in 1..n : w.segs[i].acked => w.segs[i].sent
  BY Ordered DEF Laid, Marked
<1>4. Due(w) = {w.segs[i].seq : i \in {j \in 1..n : w.segs[j].sent /\ ~w.segs[j].acked}}
  BY <1>1 DEF Due
<1>5. Elements(w.txq) \cap Due(w) = {}
  BY <1>2, <1>3, <1>4
<1>6. PICK x : x = w.prio \o w.txq
  OBVIOUS
<1>7. Elements(w.prio) \cap Elements(w.txq) = {} /\ (Elements(w.prio) \cup Elements(w.txq)) \cap Elements(w.wait) = {}
  BY <1>1, <1>5
<1>8. x \in Seq(Number) /\ Elements(x) = Elements(w.prio) \cup Elements(w.txq) /\ Once(x)
  BY <1>1, <1>2, <1>6, <1>7, ConcatIs
<1>9. q = x \o w.wait
  BY <1>6
<1>10. q \in Seq(Number) /\ Elements(q) = Elements(x) \cup Elements(w.wait) /\ Once(q)
  BY <1>1, <1>7, <1>8, <1>9, ConcatIs
<1>11. Elements(q) = Elements(w.txq) \cup Due(w)
  BY <1>1, <1>8, <1>10
<1>12. Elements(w.txq) \cup Due(w) = {w.segs[i].seq : i \in {j \in 1..n : ~w.segs[j].acked}}
  <2>1. \A i \in 1..n : ~w.segs[i].acked <=> (~w.segs[i].sent \/ (w.segs[i].sent /\ ~w.segs[i].acked))
    BY <1>3
  <2> QED  BY <1>2, <1>4, <2>1
<1> QED  BY <1>10, <1>11, <1>12

\* Each segment starts where the one before ends.
LEMMA Consecutive ==
  ASSUME Unambiguous, NEW w, NEW o, NEW n, NEW m, Laid(w, o, n, m), NEW i \in 1..n
  PROVE  w.segs[i].seq = IF i = 1 THEN w.cur ELSE Plus(w.segs[i - 1].seq, w.segs[i - 1].len)
<1>1. /\ n \in Nat /\ w \in WindowSet /\ o[1] = Off(w.cur) /\ \A k \in 1..n + 1 : o[k] \in 0..Total
      /\ \A k \in 1..n : o[k] = Off(w.segs[k].seq) /\ o[k + 1] = o[k] + w.segs[k].len
      /\ \A k \in 1..n : w.segs[k].len \in 1..MSS /\ w.segs[k].seq \in Number
  <2>1. Counted(w, n, m) /\ Ranged(w, o, n, m) /\ Placed(w, o, n)
    BY DEF Laid
  <2>2. /\ n \in Nat /\ \A k \in 1..n + 1 : o[k] \in 0..Total
        /\ \A k \in 1..n : w.segs[k].len \in 1..MSS /\ w.segs[k].seq \in Number
    BY Ordered
  <2>3. w \in WindowSet
    BY <2>1 DEF Counted
  <2>4. o[1] = Off(w.cur)
    BY <2>1 DEF Ranged
  <2>5. \A k \in 1..n : o[k] = Off(w.segs[k].seq) /\ o[k + 1] = o[k] + w.segs[k].len
    BY <2>1 DEF Placed
  <2> QED  BY <2>2, <2>3, <2>4, <2>5
<1>2. w.cur \in Number
  BY <1>1, WindowFields
<1>3. CASE i = 1
  BY <1>1, <1>2, <1>3, OffInjective
<1>4. CASE i # 1
  <2>1. i - 1 \in 1..n /\ i - 1 + 1 = i
    BY <1>1, <1>4
  <2>2. PICK s \in Number, l \in Nat : s = w.segs[i - 1].seq /\ l = w.segs[i - 1].len
    BY <1>1, <2>1, WindowConstants
  <2>3. o[i] = Off(s) + l /\ o[i] \in 0..Total /\ o[i] = Off(w.segs[i].seq)
    <3>1. o[i - 1] = Off(w.segs[i - 1].seq) /\ o[i - 1 + 1] = o[i - 1] + w.segs[i - 1].len
      BY <1>1, <2>1
    <3>2. i \in 1..n + 1
      BY <1>1
    <3> QED  BY <1>1, <2>1, <2>2, <3>1, <3>2
  <2>4. Plus(s, l) \in Number /\ Off(Plus(s, l)) = o[i]
    BY <2>3, NumberSum
  <2>5. Plus(s, l) = w.segs[i].seq
    BY <1>1, <2>3, <2>4, OffInjective
  <2> QED  BY <1>4, <2>2, <2>5
<1> QED  BY <1>3, <1>4

LEMMA PartitionOf == Unambiguous /\ StreamInv => QueuesPartition
<1> SUFFICES ASSUME Unambiguous, StreamInv PROVE QueuesPartition
  OBVIOUS
<1>1. WindowInv(txw)
  BY DEF StreamInv, SendInv, TxOK
<1>2. PICK o, n, m : Laid(txw, o, n, m)
  BY <1>1 DEF WindowInv
<1>3. txw.segs \in Seq(SegmentSet) /\ Len(txw.segs) = n
  <2>1. Counted(txw, n, m)
    BY <1>2 DEF Laid
  <2> QED  BY <2>1, WindowFields DEF Counted
<1>4. DOMAIN txw.segs = 1..n
  BY <1>3, LenProperties
<1>5. PICK q : q = txw.prio \o txw.txq \o txw.wait
  OBVIOUS
<1>6. /\ q \in Seq(Number) /\ Once(q)
      /\ Elements(q) = {txw.segs[i].seq : i \in {j \in 1..n : ~txw.segs[j].acked}}
  BY <1>2, <1>5, AllQueued
<1>7. Elements(txw.txq) = {txw.segs[i].seq : i \in {j \in 1..n : ~txw.segs[j].sent}} /\ txw.txq \in Seq(Number)
  <2>1. Counted(txw, n, m)
    BY <1>2 DEF Laid
  <2> QED  BY <1>2, <2>1, QueuedIs, WindowFields DEF Counted
<1>8. PICK segs : segs = {txw.segs[i] : i \in DOMAIN txw.segs}
  OBVIOUS
<1>9. \A i \in DOMAIN txw.segs : txw.segs[i].seq =
          (IF i = 1 THEN txw.cur ELSE Plus(txw.segs[i - 1].seq, txw.segs[i - 1].len))
  BY <1>2, <1>4, Consecutive
<1>10. {q[i] : i \in DOMAIN q} = {s.seq : s \in {s \in segs : ~s.acked}}
  <2>1. {q[i] : i \in DOMAIN q} = Elements(q)
    BY <1>6, LenProperties DEF Elements
  <2>2. {s.seq : s \in {s \in segs : ~s.acked}} = {txw.segs[i].seq : i \in {j \in 1..n : ~txw.segs[j].acked}}
    BY <1>4, <1>8
  <2> QED  BY <1>6, <2>1, <2>2
<1>11. Len(q) = Cardinality({q[i] : i \in DOMAIN q})
  <2>1. {q[i] : i \in DOMAIN q} = Elements(q)
    BY <1>6, LenProperties DEF Elements
  <2> QED  BY <1>6, <2>1, OnceLength
<1>12. {txw.txq[i] : i \in DOMAIN txw.txq} = {s.seq : s \in {s \in segs : ~s.sent}}
  <2>1. {txw.txq[i] : i \in DOMAIN txw.txq} = Elements(txw.txq)
    BY <1>7, LenProperties DEF Elements
  <2>2. {s.seq : s \in {s \in segs : ~s.sent}} = {txw.segs[i].seq : i \in {j \in 1..n : ~txw.segs[j].sent}}
    BY <1>4, <1>8
  <2> QED  BY <1>7, <2>1, <2>2
<1>13. LET all == txw.prio \o txw.txq \o txw.wait
           every == {txw.segs[i] : i \in DOMAIN txw.segs}
       IN /\ {all[i] : i \in DOMAIN all} = {s.seq : s \in {s \in every : ~s.acked}}
          /\ Len(all) = Cardinality({all[i] : i \in DOMAIN all})
          /\ {txw.txq[i] : i \in DOMAIN txw.txq} = {s.seq : s \in {s \in every : ~s.sent}}
  BY <1>5, <1>8, <1>10, <1>11, <1>12
<1> QED  BY <1>9, <1>13, Zenon DEF QueuesPartition

\* Every host's state is of its type.
THEOREM StreamTypes == Unambiguous => (Spec => []TypeOK)
BY StreamHolds, TypesOf, PTL

\* What can be read ends where the next segment is expected.
THEOREM ReadUpToCurrent == Unambiguous => (Spec => []HeadAtCurrent)
BY StreamHolds, CurrentOf, PTL

\* Stored segments lie ahead of the number expected, within the free space.
THEOREM StoredSegmentsAhead == Unambiguous => (Spec => []StoredAhead)
<1> SUFFICES ASSUME Unambiguous PROVE Spec => []StoredAhead
  OBVIOUS
<1>1. StreamInv => StoredAhead
  BY AheadOf
<1>2. Spec => []StreamInv
  BY StreamHolds
<1> QED  BY <1>1, <1>2, PTL

\* Every segment that is not acknowledged is in exactly one queue.
THEOREM EachInOneQueue == Unambiguous => (Spec => []QueuesPartition)
<1> SUFFICES ASSUME Unambiguous PROVE Spec => []QueuesPartition
  OBVIOUS
<1>1. StreamInv => QueuesPartition
  BY PartitionOf
<1>2. Spec => []StreamInv
  BY StreamHolds
<1> QED  BY <1>1, <1>2, PTL

-----------------------------------------------------------------------------
(* The stream of bytes. *)

LEMMA StreamBegins == Init => Stream!Init
BY DEF Init, SenderInit, ReceiverInit, Stream!Init

LEMMA StreamReads ==
  ASSUME StreamInv, RecvCopy, UNCHANGED sender
  PROVE  Stream!Receive
<1>1. /\ read' \in Seq(Byte) /\ Peeked(read', 0, Len(read')) /\ Len(read') <= Here /\ Len(read) < Len(read')
  BY RecvCopyReads
<1>2. PICK n \in Nat : n = Len(read')
  BY <1>1, LenProperties
<1>3. /\ Here \in Nat /\ Top \in Nat /\ sent \in Nat /\ Off(txw.next) \in Nat /\ Len(read) \in Nat
      /\ Here <= Top /\ Top <= Off(txw.next) /\ Off(txw.next) <= sent
  BY Positions
<1>4. n \in Len(read) + 1..sent
  BY <1>1, <1>2, <1>3
<1>5. read' = [k \in 1..n |-> k]
  <2>1. read' = [k \in 1..n |-> 0 + k]
    BY <1>1, <1>2 DEF Peeked
  <2>2. \A k \in 1..n : 0 + k = k
    OBVIOUS
  <2>3. [k \in 1..n |-> 0 + k] = [k \in 1..n |-> k]
    BY <2>2
  <2> QED  BY <2>1, <2>3
<1>6. sent' = sent
  BY DEF sender
<1> QED  BY <1>4, <1>5, <1>6 DEF Stream!Receive

LEMMA StreamSends ==
  ASSUME StreamInv, SendPublish, UNCHANGED receiver
  PROVE  Stream!Send
<1>1. sent' = sent + copying /\ copying > 0 /\ read' = read
  BY DEF SendPublish, receiver
<1>2. sent \in Nat /\ copying \in Nat /\ sent + copying <= Total /\ Total \in Nat
  BY Positions, WindowConstants DEF StreamInv, SendInv
<1>3. sent' \in sent + 1..Total
  BY <1>1, <1>2
<1> QED  BY <1>1, <1>3 DEF Stream!Send

\* Every step is one of the stream, or leaves what was sent and read alone.
LEMMA StreamStep ==
  ASSUME StreamInv, [Next]_vars
  PROVE  [Stream!Next]_<<sent, read>>
<1>1. CASE SenderStep /\ UNCHANGED receiver
  <2>1. read' = read
    BY <1>1 DEF receiver
  <2>2. CASE SendPublish
    BY <1>1, <2>2, StreamSends DEF Stream!Next
  <2>3. CASE \E n \in 1..MaxChunk : SendCopy(n)
    <3>1. sent' = sent
      BY <2>3 DEF SendCopy
    <3> QED  BY <2>1, <3>1
  <2>4. ASSUME NEW due, Poll(due) PROVE sent' = sent
    BY <2>4 DEF Poll
  <2>5. CASE Transmission
    <3>1. Poll(0)
      BY <2>5 DEF Transmission, SendNew
    <3> QED  BY <2>1, <2>4, <3>1
  <2>6. CASE TimeOut
    <3>1. PICK due \in 1..Len(txw.wait) : Poll(due)
      BY <2>6 DEF TimeOut, Resend
    <3> QED  BY <2>1, <2>4, <3>1
  <2>7. CASE EarlyOut
    <3>1. Poll(1)
      BY <2>7 DEF EarlyOut
    <3> QED  BY <2>1, <2>4, <3>1
  <2>8. CASE AliveProbe
    <3>1. sent' = sent
      BY <2>8 DEF AliveProbe, KeepAlive, sender
    <3> QED  BY <2>1, <3>1
  <2>9. CASE HandleAck
    <3>1. sent' = sent
      BY <2>9 DEF HandleAck
    <3> QED  BY <2>1, <3>1
  <2> QED  BY <1>1, <2>2, <2>3, <2>5, <2>6, <2>7, <2>8, <2>9 DEF SenderStep, Send
<1>2. CASE ReceiverStep /\ UNCHANGED sender
  <2>1. sent' = sent
    BY <1>2 DEF sender
  <2>2. CASE RecvCopy
    BY <1>2, <2>2, StreamReads DEF Stream!Next
  <2>3. CASE HandleData
    <3>1. read' = read
      BY <2>3 DEF HandleData
    <3> QED  BY <2>1, <3>1
  <2>4. CASE SocketCheck
    <3>1. read' = read
      BY <2>4 DEF SocketCheck
    <3> QED  BY <2>1, <3>1
  <2>5. CASE RecvPublish
    <3>1. read' = read
      BY <2>5 DEF RecvPublish
    <3> QED  BY <2>1, <3>1
  <2>6. CASE RecvWater \/ RecvOpen
    <3>1. read' = read
      BY <2>6 DEF RecvWater, RecvOpen
    <3> QED  BY <2>1, <3>1
  <2> QED  BY <1>2, <2>2, <2>3, <2>4, <2>5, <2>6 DEF ReceiverStep, Receive
<1>3. CASE Damage /\ UNCHANGED <<sender, receiver>>
  BY <1>3 DEF sender, receiver
<1>4. CASE UNCHANGED vars
  BY <1>4 DEF vars, sender, receiver
<1> QED  BY <1>1, <1>2, <1>3, <1>4 DEF Next

\* The bytes read are the bytes sent, each once and in order.
THEOREM StreamImplemented == Unambiguous => (Spec => ImplementsStream)
<1> SUFFICES ASSUME Unambiguous PROVE Spec => ImplementsStream
  OBVIOUS
<1>1. Init => Stream!Init
  BY StreamBegins
<1>2. StreamInv /\ [Next]_vars => [Stream!Next]_<<sent, read>>
  BY StreamStep
<1>3. Spec => []StreamInv
  BY StreamHolds
<1> QED  BY <1>1, <1>2, <1>3, PTL DEF Spec, ImplementsStream, Stream!Spec
=============================================================================
