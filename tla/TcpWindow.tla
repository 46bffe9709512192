----------------------------- MODULE TcpWindow ------------------------------
(***************************************************************************)
(* The sliding windows of FreeRTOS+TCP (FreeRTOS_TCP_WIN.c) as operators.  *)
(* A reception window keeps which segments were stored ahead of the next   *)
(* byte; a transmission window keeps every segment not yet acknowledged,   *)
(* each in one of three queues.  Sequence numbers are unsigned and wrap.   *)
(***************************************************************************)
EXTENDS Integers, Sequences, FiniteSets, StreamBuffer

CONSTANTS
  Modulus,    \* sequence numbers are 0..Modulus-1; 2^32 in the code
  MSS,        \* maximum segment size
  SegCount    \* segments in the pool, ipconfigTCP_WIN_SEG_COUNT

ASSUME ModulusAssumption == Modulus \in Nat /\ Modulus > 1 /\ Modulus % 2 = 0
ASSUME MSSAssumption == MSS \in Nat \ {0}
ASSUME SegCountAssumption == SegCount \in Nat \ {0}

DUPLICATE_ACKS_BEFORE_FAST_RETRANSMIT == 3
MAX_TRANSMIT_COUNT_USING_LARGE_WINDOW == 4

\* step applied for 1, 2, ..., n in turn.
Repeat(step(_, _), start, n) ==
  LET after[i \in 0..n] == IF i = 0 THEN start ELSE step(after[i - 1], i)
  IN after[n]

Number == 0..Modulus - 1
None   == -1        \* no segment: a NULL pointer

Plus(a, n)  == (a + n) % Modulus
Minus(a, b) == (a - b) % Modulus

\* Signed reading of an unsigned difference.
Signed(n) == IF n < Modulus \div 2 THEN n ELSE n - Modulus

LessThanOrEqual(a, b) == Minus(b, a) < Modulus \div 2
LessThan(a, b)        == Minus(b, a + 1) < Modulus \div 2
GreaterThan(a, b)     == LessThan(b, a)
-----------------------------------------------------------------------------
(* The reception window: cur is the next byte expected, segs the segments   *)
(* stored ahead of it.                                                      *)

RxFind(segs, seq) == {s \in segs : s.seq = seq}

\* The lowest stored segment that begins in the one just received.
RxConfirm(segs, seq, len) ==
  LET inside == {s \in segs : LessThanOrEqual(seq, s.seq) /\ LessThan(s.seq, Plus(seq, len))}
  IN {s \in inside : \A t \in inside : LessThanOrEqual(s.seq, t.seq)}

\* The ends of the segments stored one after the other from seq on.
Chain(segs, seq) ==
  LET end[k \in 0..Cardinality(segs)] ==
        IF k = 0 THEN seq
        ELSE LET next == RxFind(segs, end[k - 1])
             IN IF next = {} THEN end[k - 1]
                ELSE Plus(end[k - 1], (CHOOSE s \in next : TRUE).len)
  IN end

ChainEnd(segs, seq) == Chain(segs, seq)[Cardinality(segs)]

\* The expected segment: cur moves past it and past what was stored behind it; user is the
\* number of stored bytes that can now be read.
RxExpected(w, seq, len) ==
  LET found == RxConfirm(w.segs, seq, len)
      start == IF found = {} THEN Plus(seq, len)
               ELSE LET s == CHOOSE s \in found : TRUE IN Plus(s.seq, s.len)
      rest  == w.segs \ found
      end   == ChainEnd(rest, start)
      ends  == LET c == Chain(rest, start) IN {c[k] : k \in DOMAIN c}
  IN [offset |-> 0, user |-> Minus(end, Plus(seq, len)), sack |-> <<>>,
      w |-> [w EXCEPT !.cur = end, !.segs = {s \in rest : s.seq \notin ends}]]

RxRefused(w, sack) == [offset |-> None, user |-> 0, sack |-> sack, w |-> w]

\* An early segment: stored if a descriptor is free, and reported in a selective ACK.
RxEarly(w, seq, len) ==
  LET sack == <<seq, ChainEnd(w.segs, Plus(seq, len))>>
  IN IF RxFind(w.segs, seq) # {} THEN RxRefused(w, sack)
     ELSE IF Cardinality(w.segs) = SegCount THEN RxRefused(w, <<>>)
     ELSE [offset |-> Signed(Minus(seq, w.cur)), user |-> 0, sack |-> sack,
           w |-> [w EXCEPT !.segs = @ \cup {[seq |-> seq, len |-> len]}]]

\* Fault: an early segment is stored wherever it ends.
RxCheckAnywhere(w, seq, len, space) ==
  IF seq = w.cur
  THEN IF len > space THEN RxRefused(w, <<>>) ELSE RxExpected(w, seq, len)
  ELSE IF Signed(Minus(Plus(seq, len), w.cur)) <= 0 THEN RxRefused(w, <<>>)
  ELSE RxEarly(w, seq, len)

\* lTCPWindowRxCheck: offset is 0 for data that can be read, positive for data to be stored
\* ahead of the head, negative for data to be dropped.
RxCheck(w, seq, len, space) ==
  LET distance == Signed(Minus(Plus(seq, len), w.cur))
  IN IF seq = w.cur
     THEN IF len > space THEN RxRefused(w, <<>>) ELSE RxExpected(w, seq, len)
     ELSE IF w.cur = Plus(seq, 1) \/ distance <= 0 \/ distance > space THEN RxRefused(w, <<>>)
     ELSE RxEarly(w, seq, len)
-----------------------------------------------------------------------------
(* The transmission window: segs in the order of their bytes, the queues    *)
(* name segments by their sequence number.                                  *)

NewTxWindow(first, txWin) ==
  [segs |-> <<>>, prio |-> <<>>, txq |-> <<>>, wait |-> <<>>, head |-> None,
   cur |-> first, highest |-> first, next |-> first, txWin |-> txWin]

Index(w, seq)   == CHOOSE i \in DOMAIN w.segs : w.segs[i].seq = seq
Segment(w, seq) == w.segs[Index(w, seq)]

\* What is left of a queue.
Without(q, numbers) ==
  LET left[i \in 0..Len(q)] ==
        IF i = 0 THEN <<>>
        ELSE IF q[i] \in numbers THEN left[i - 1] ELSE Append(left[i - 1], q[i])
  IN left[Len(q)]

\* The last segment may still take bytes.
Open(w) == w.head # None /\ ~Segment(w, w.head).sent

\* Fault: all the bytes in one segment.
AddSegmentUncut(a) ==
  IF a.left = 0 \/ Len(a.w.segs) = SegCount THEN a
  ELSE LET s == [seq |-> a.w.next, len |-> a.left, pos |-> a.pos, sent |-> FALSE,
                 acked |-> FALSE, count |-> 0, dups |-> 0]
       IN [left |-> 0, pos |-> (a.pos + a.left) % a.max, max |-> a.max,
           w |-> [a.w EXCEPT !.segs = Append(@, s), !.txq = Append(@, s.seq),
                             !.next = Plus(@, s.len), !.head = None]]

\* lTCPWindowTxAdd for n bytes at stream position pos: fills the open segment, then adds new
\* ones as long as there are descriptors; returns the window and the bytes it took.
AddSegment(a) ==
  IF a.left = 0 \/ Len(a.w.segs) = SegCount THEN a
  ELSE LET len == Lesser(a.left, MSS)
           s   == [seq |-> a.w.next, len |-> len, pos |-> a.pos, sent |-> FALSE,
                   acked |-> FALSE, count |-> 0, dups |-> 0]
       IN [left |-> a.left - len, pos |-> (a.pos + len) % a.max, max |-> a.max,
           w |-> [a.w EXCEPT !.segs = Append(@, s), !.txq = Append(@, s.seq),
                             !.next = Plus(@, len),
                             !.head = IF len < MSS THEN s.seq ELSE None]]

TxAdd(w, n, pos, max) ==
  LET open == Open(w)
      grow == IF open THEN Lesser(n, MSS - Segment(w, w.head).len) ELSE 0
      full == open /\ Segment(w, w.head).len + grow = MSS
      w1   == IF open
              THEN [w EXCEPT !.segs[Index(w, w.head)].len = @ + grow, !.next = Plus(@, grow),
                             !.head = IF full THEN None ELSE @]
              ELSE w
      last == Repeat(LAMBDA a, i : AddSegment(a),
                     [left |-> n - grow, pos |-> (pos + grow) % max, max |-> max, w |-> w1],
                     SegCount)
  IN [w |-> last.w, done |-> n - last.left]

\* The bytes sent and not yet acknowledged, as prvTCPWindowTxHasSpace computes them: the
\* comparison does not allow for the numbers' wrap.
Outstanding(w) == IF w.highest >= w.cur THEN w.highest - w.cur ELSE 0

TxHasSpace(w, wnd) ==
  /\ w.txq # <<>>
  /\ LET len == Segment(w, Head(w.txq)).len
         out == Outstanding(w)
     IN /\ wnd - Lesser(wnd, out) >= len
        /\ ~(out # 0 /\ w.txWin < out + len)

\* A segment goes out: to the end of the wait queue, its count up.
Transmit(w, seq) ==
  LET i == Index(w, seq)
      c == Lesser(w.segs[i].count, MAX_TRANSMIT_COUNT_USING_LARGE_WINDOW) + 1
  IN [w EXCEPT !.wait = Append(@, seq), !.segs[i].sent = TRUE, !.segs[i].count = c,
               !.txWin = IF c = MAX_TRANSMIT_COUNT_USING_LARGE_WINDOW THEN Lesser(@, 2 * MSS)
                         ELSE @]

\* ulTCPWindowTxGet, when the timer of the oldest waiting segment has or has not run out:
\* the segment to send, or None.
TxGet(w, wnd, due) ==
  IF w.prio # <<>>
  THEN [seq |-> Head(w.prio), w |-> Transmit([w EXCEPT !.prio = Tail(@)], Head(w.prio))]
  ELSE IF w.wait # <<>> /\ due
  THEN LET i == Index(w, Head(w.wait))
       IN [seq |-> Head(w.wait),
           w |-> Transmit([w EXCEPT !.wait = Tail(@), !.segs[i].dups = 0], Head(w.wait))]
  ELSE IF TxHasSpace(w, wnd)
  THEN LET s == Segment(w, Head(w.txq))
       IN [seq |-> s.seq,
           w |-> Transmit([w EXCEPT !.txq = Tail(@), !.highest = Plus(s.seq, s.len),
                                    !.head = IF @ = s.seq THEN None ELSE @], s.seq)]
  ELSE [seq |-> None, w |-> w]

\* Fault: an acknowledged segment stays among those that wait.
UnlinkSome(w, seq) == [w EXCEPT !.prio = Without(@, {seq}), !.txq = Without(@, {seq})]

Unlink(w, seq) ==
  [w EXCEPT !.prio = Without(@, {seq}), !.txq = Without(@, {seq}), !.wait = Without(@, {seq})]

\* Fault: a segment that was acknowledged ahead of time is not counted when its turn comes.
CheckSegmentUncounted(a, s, last) ==
  LET keep == [a EXCEPT !.segs = Append(@, s)]
      end  == Plus(s.seq, s.len)
  IN IF a.done \/ GreaterThan(a.at, s.seq) THEN keep
     ELSE IF ~LessThan(a.at, last) \/ a.at # s.seq \/ (~s.acked /\ GreaterThan(end, last))
     THEN [keep EXCEPT !.done = TRUE]
     ELSE LET w == Unlink(a.w, s.seq)
          IN IF s.seq = a.w.cur
             THEN [a EXCEPT !.w = [w EXCEPT !.cur = end], !.at = end,
                            !.confirmed = IF s.acked THEN @ ELSE @ + s.len]
             ELSE [a EXCEPT !.w = w, !.segs = Append(@, [s EXCEPT !.acked = TRUE]), !.at = end]

\* One round of prvTCPWindowTxCheckAck: at is the next byte of the acknowledged range.
CheckSegment(a, s, last) ==
  LET keep == [a EXCEPT !.segs = Append(@, s)]
      end  == Plus(s.seq, s.len)
  IN IF a.done \/ GreaterThan(a.at, s.seq) THEN keep
     ELSE IF ~LessThan(a.at, last) \/ a.at # s.seq \/ (~s.acked /\ GreaterThan(end, last))
     THEN [keep EXCEPT !.done = TRUE]
     ELSE LET w == Unlink(a.w, s.seq)
          IN IF s.seq = a.w.cur
             THEN [a EXCEPT !.w = [w EXCEPT !.cur = end], !.confirmed = @ + s.len, !.at = end]
             ELSE [a EXCEPT !.w = w, !.segs = Append(@, [s EXCEPT !.acked = TRUE]), !.at = end]

CheckAck(w, first, last) ==
  LET a == Repeat(LAMBDA acc, i : CheckSegment(acc, w.segs[i], last),
                  [w |-> w, segs |-> <<>>, at |-> first, confirmed |-> 0, done |-> FALSE],
                  Len(w.segs))
  IN [w |-> [a.w EXCEPT !.segs = a.segs], confirmed |-> a.confirmed]

TxAck(w, ack) ==
  IF LessThanOrEqual(ack, w.cur) THEN [w |-> w, confirmed |-> 0] ELSE CheckAck(w, w.cur, ack)

\* A later segment was acknowledged: the third time a waiting one is sent again at once.
FastRetransmit(w, first) ==
  LET waiting == {w.wait[k] : k \in DOMAIN w.wait}
      passed  == {i \in DOMAIN w.segs : w.segs[i].seq \in waiting /\ LessThan(w.segs[i].seq, first)}
      again   == {i \in passed : w.segs[i].dups + 1 = DUPLICATE_ACKS_BEFORE_FAST_RETRANSMIT}
      urgent  == {w.segs[i].seq : i \in again}
  IN [w EXCEPT !.segs = [i \in DOMAIN w.segs |->
                  IF i \in again THEN [w.segs[i] EXCEPT !.dups = @ + 1, !.count = 0]
                  ELSE IF i \in passed THEN [w.segs[i] EXCEPT !.dups = @ + 1] ELSE w.segs[i]],
               !.prio = @ \o Without(w.wait, waiting \ urgent),
               !.wait = Without(@, urgent)]

TxSack(w, first, last) ==
  LET c == CheckAck(w, first, last)
  IN [c EXCEPT !.w = FastRetransmit(@, first)]
=============================================================================
