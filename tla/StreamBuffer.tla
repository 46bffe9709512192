---------------------------- MODULE StreamBuffer ----------------------------
(***************************************************************************)
(* The circular buffer between a task and the IP task                      *)
(* (FreeRTOS_Stream_Buffer.c and .h).  One task moves the head, the other  *)
(* the tail, and neither takes a lock.  Out-of-order data are written      *)
(* ahead of the head; front remembers how far.                             *)
(***************************************************************************)
EXTENDS Integers, Sequences

\* A byte no one has written.
NoByte == 0

Lesser(a, b) == IF a < b THEN a ELSE b

EmptyStream(length) ==
  [LENGTH |-> length, array |-> [i \in 0..length - 1 |-> NoByte],
   tail |-> 0, mid |-> 0, head |-> 0, front |-> 0]

StreamType(b, Byte) ==
  /\ b.LENGTH \in Nat \ {0}
  /\ b.array \in [0..b.LENGTH - 1 -> Byte \cup {NoByte}]
  /\ {b.tail, b.mid, b.head, b.front} \subseteq 0..b.LENGTH - 1

\* An index after its move, or a length after the subtraction that may be too large by LENGTH.
Wrap(b, i) == IF i >= b.LENGTH THEN i - b.LENGTH ELSE i

Space(b, lower, upper)    == Wrap(b, b.LENGTH + upper - lower - 1)
Distance(b, lower, upper) == Wrap(b, b.LENGTH + upper - lower)

GetSpace(b)   == Space(b, b.head, b.tail)
FrontSpace(b) == Space(b, b.front, b.tail)
GetSize(b)    == Distance(b, b.tail, b.head)
MidSpace(b)   == Distance(b, b.mid, b.head)

MoveMid(b, n) == [b EXCEPT !.mid = Wrap(b, @ + Lesser(n, MidSpace(b)))]

\* left <= right on the way from the tail.
LessThenEqual(b, left, right) ==
  IF (left < b.tail) # (right < b.tail) THEN right < b.tail ELSE left <= right

\* uxStreamBufferAdd: the bytes that find room, their copy, and the move of head and front.
Room(b, offset, n) == Lesser(IF GetSpace(b) > offset THEN GetSpace(b) - offset ELSE 0, n)

\* Fault: bytes that came early are written where the next ones belong.
CopiedAtHead(b, offset, bytes) ==
  [b EXCEPT !.array = [i \in DOMAIN @ |->
     LET k == Distance(b, b.head, i) IN IF k < Len(bytes) THEN bytes[k + 1] ELSE @[i]]]

Copied(b, offset, bytes) ==
  LET at == Wrap(b, b.head + offset)
  IN [b EXCEPT !.array = [i \in DOMAIN @ |->
        LET k == Distance(b, at, i) IN IF k < Len(bytes) THEN bytes[k + 1] ELSE @[i]]]

Advanced(b, offset, n) ==
  LET next == Wrap(b, b.head + (IF offset = 0 THEN n ELSE offset))
  IN [b EXCEPT !.head = IF offset = 0 THEN next ELSE @,
               !.front = IF LessThenEqual(b, @, next) THEN next ELSE @]

\* Adds n bytes; with no bytes given, pucData is NULL and only the indexes move.
StreamAdd(b, offset, bytes, n) ==
  LET count == Room(b, offset, n)
  IN IF count = 0 THEN b
     ELSE Advanced(Copied(b, offset, SubSeq(bytes, 1, Lesser(count, Len(bytes)))), offset, count)

\* uxStreamBufferGet: up to n bytes from offset on, and the move of the tail.
Peek(b, offset, n) ==
  LET size == IF GetSize(b) > offset THEN GetSize(b) - offset ELSE 0
  IN [k \in 1..Lesser(size, n) |-> b.array[Wrap(b, Wrap(b, b.tail + offset) + k - 1)]]

Released(b, n) == [b EXCEPT !.tail = Wrap(b, @ + Lesser(n, GetSize(b)))]
=============================================================================
