-------------------------- MODULE KernelQueueProofs --------------------------
(***************************************************************************)
(* A FreeRTOS queue implements a bounded sequence (BoundedQueue), whatever *)
(* tasks and interrupts do to its ring.  The proof goes from the positions *)
(* in the ring over the helpers that copy items to the steps of KernelQueue.*)
(* Then what the operators of KernelTasks do to the scheduler's record:    *)
(* which lists, times, priorities and counts they change, and that the     *)
(* lists go on agreeing.  KernelInvariantProofs takes the steps of         *)
(* KernelQueue from these.                                                 *)
(***************************************************************************)
EXTENDS KernelQueue, SequenceTheorems, TLAPS, FiniteSetTheorems, WellFoundedInduction

\* Types of the fields of Queue_t.

QueueRecord(q) ==
  [ring : [0..uxLength[q] - 1 -> Item], pcWriteTo : 0..uxLength[q] - 1,
   pcReadFrom : 0..uxLength[q] - 1, uxMessagesWaiting : 0..uxLength[q],
   cTxLock : Int, cRxLock : Int, pxMutexHolder : SUBSET Task]

\* The write position is the one behind the last item, so no field but the read position and the
\* number of items says what the queue holds.
Ring(q, r) == /\ r \in QueueRecord(q)
              /\ r.pcWriteTo = Next1(q, Slot(q, r.pcReadFrom + r.uxMessagesWaiting))

\* A position counted from the read position is a slot of the ring, wrapped at most once.
LEMMA SlotRange ==
  ASSUME NEW q \in Queue, NEW i \in 0..2 * uxLength[q] - 1
  PROVE  Slot(q, i) \in 0..uxLength[q] - 1
  BY QueueAssumption DEF Slot

\* Moving the read position by one, to either side, moves every item's slot by one.
LEMMA SlotSteps ==
  ASSUME NEW q \in Queue, NEW p \in 0..uxLength[q] - 1, NEW i \in 0..uxLength[q] - 1
  PROVE  /\ Slot(q, p) = p
         /\ Next1(q, Slot(q, p + i)) = Slot(q, p + (i + 1))
         /\ Slot(q, Prev1(q, p) + (i + 1)) = Slot(q, p + i)
         /\ Slot(q, Next1(q, p) + i) = Slot(q, p + (i + 1))
  BY QueueAssumption DEF Slot, Next1, Prev1

\* Items of a queue lie in different slots.
LEMMA SlotsDiffer ==
  ASSUME NEW q \in Queue, NEW p \in 0..uxLength[q] - 1,
         NEW i \in 0..uxLength[q], NEW j \in 0..uxLength[q], i < j, j - i < uxLength[q]
  PROVE  Slot(q, p + i) # Slot(q, p + j)
  BY QueueAssumption DEF Slot

\* What a queue holds is a sequence of as many items as it counts.
LEMMA ContentsType ==
  ASSUME NEW q \in Queue, NEW r \in QueueRecord(q)
  PROVE  /\ Contents(q, r) \in Seq(Item)
         /\ Len(Contents(q, r)) = r.uxMessagesWaiting
         /\ \A i \in 1..r.uxMessagesWaiting : Contents(q, r)[i] = r.ring[Slot(q, r.pcReadFrom + i)]
<1> DEFINE n == r.uxMessagesWaiting
<1>1. n \in Nat /\ r.pcReadFrom \in 0..uxLength[q] - 1 /\ n <= uxLength[q] /\ uxLength[q] \in Nat
  BY QueueAssumption DEF QueueRecord
<1>2. \A i \in 1..n : Slot(q, r.pcReadFrom + i) \in 0..uxLength[q] - 1
  BY <1>1, SlotRange
<1>3. \A i \in 1..n : r.ring[Slot(q, r.pcReadFrom + i)] \in Item
  BY <1>2 DEF QueueRecord
<1>4. Contents(q, r) \in [1..n -> Item]
  BY <1>3 DEF Contents
<1>5. Contents(q, r) \in Seq(Item) /\ Len(Contents(q, r)) = n
  BY <1>1, <1>4, SeqDef, LenProperties
<1> QED  BY <1>5 DEF Contents

\* Setting a field keeps the types.
LEMMA FieldType ==
  ASSUME NEW q \in Queue, NEW r \in QueueRecord(q)
  PROVE  /\ \A x \in [0..uxLength[q] - 1 -> Item] : [r EXCEPT !.ring = x] \in QueueRecord(q)
         /\ \A x \in 0..uxLength[q] - 1 : /\ [r EXCEPT !.pcWriteTo = x] \in QueueRecord(q)
                                          /\ [r EXCEPT !.pcReadFrom = x] \in QueueRecord(q)
         /\ \A x \in 0..uxLength[q] : [r EXCEPT !.uxMessagesWaiting = x] \in QueueRecord(q)
         /\ \A x \in Int : /\ [r EXCEPT !.cTxLock = x] \in QueueRecord(q)
                           /\ [r EXCEPT !.cRxLock = x] \in QueueRecord(q)
         /\ \A x \in SUBSET Task : [r EXCEPT !.pxMutexHolder = x] \in QueueRecord(q)
BY DEF QueueRecord

\* prvCopyDataToQueue keeps the types of a queue that is not full.
LEMMA CopyType ==
  ASSUME NEW q \in Queue, NEW r \in QueueRecord(q), r.uxMessagesWaiting # uxLength[q],
         NEW item \in Item, NEW op
  PROVE  CopyToQueue(q, r, item, op) \in QueueRecord(q)
<1> DEFINE n == r.uxMessagesWaiting + 1
<1>1. /\ n \in 0..uxLength[q] /\ r.ring \in [0..uxLength[q] - 1 -> Item]
      /\ r.pcWriteTo \in 0..uxLength[q] - 1 /\ r.pcReadFrom \in 0..uxLength[q] - 1
  BY QueueAssumption DEF QueueRecord
<1>2. /\ Next1(q, r.pcWriteTo) \in 0..uxLength[q] - 1 /\ Prev1(q, r.pcReadFrom) \in 0..uxLength[q] - 1
  BY <1>1, QueueAssumption DEF Next1, Prev1
<1>3. CASE op = "back"
  <2> DEFINE a == [r EXCEPT !.ring = [r.ring EXCEPT ![r.pcWriteTo] = item]]
             b == [a EXCEPT !.pcWriteTo = Next1(q, r.pcWriteTo)]
  <2>1. a \in QueueRecord(q)
    <3>1. [r.ring EXCEPT ![r.pcWriteTo] = item] \in [0..uxLength[q] - 1 -> Item]  BY <1>1
    <3> QED  BY <3>1, FieldType
  <2>2. CopyToQueue(q, r, item, op) = [b EXCEPT !.uxMessagesWaiting = n]  BY <1>3 DEF CopyToQueue
  <2> HIDE DEF a
  <2>3. b \in QueueRecord(q)  BY <1>2, <2>1, FieldType
  <2> HIDE DEF b, n
  <2> QED  BY <1>1, <2>2, <2>3, FieldType
<1>4. CASE op # "back"
  <2> DEFINE a == [r EXCEPT !.ring = [r.ring EXCEPT ![r.pcReadFrom] = item]]
             b == [a EXCEPT !.pcReadFrom = Prev1(q, r.pcReadFrom)]
  <2>1. a \in QueueRecord(q)
    <3>1. [r.ring EXCEPT ![r.pcReadFrom] = item] \in [0..uxLength[q] - 1 -> Item]  BY <1>1
    <3> QED  BY <3>1, FieldType
  <2>2. CopyToQueue(q, r, item, op) = [b EXCEPT !.uxMessagesWaiting = n]  BY <1>4 DEF CopyToQueue
  <2> HIDE DEF a
  <2>3. b \in QueueRecord(q)  BY <1>2, <2>1, FieldType
  <2> HIDE DEF b, n
  <2> QED  BY <1>1, <2>2, <2>3, FieldType
<1> QED  BY <1>3, <1>4

\* prvCopyDataFromQueue keeps the types of a queue that is not empty.
LEMMA TakeType ==
  ASSUME NEW q \in Queue, NEW r \in QueueRecord(q), r.uxMessagesWaiting # 0
  PROVE  TakeFromQueue(q, r) \in QueueRecord(q)
<1> DEFINE n == r.uxMessagesWaiting - 1
           i == IF q \in Mutex THEN r.pcReadFrom ELSE Next1(q, r.pcReadFrom)
           a == [r EXCEPT !.pcReadFrom = i]
<1>1. n \in 0..uxLength[q] /\ i \in 0..uxLength[q] - 1
  BY QueueAssumption DEF QueueRecord, Next1
<1>2. TakeFromQueue(q, r) = [a EXCEPT !.uxMessagesWaiting = n]  BY DEF TakeFromQueue
<1> HIDE DEF i, n
<1>3. a \in QueueRecord(q)  BY <1>1, FieldType
<1> HIDE DEF a
<1> QED  BY <1>1, <1>2, <1>3, FieldType

\* prvCopyDataToQueue at the back appends the item.
LEMMA CopyBack ==
  ASSUME NEW q \in Queue, NEW r, Ring(q, r), r.uxMessagesWaiting # uxLength[q], NEW item \in Item
  PROVE  /\ Ring(q, CopyToQueue(q, r, item, "back"))
         /\ Contents(q, CopyToQueue(q, r, item, "back")) = Append(Contents(q, r), item)
<1> DEFINE n == r.uxMessagesWaiting
           L == uxLength[q]
           c == CopyToQueue(q, r, item, "back")
<1>1. /\ L \in Nat \ {0} /\ n \in 0..L - 1 /\ r.pcReadFrom \in 0..L - 1 /\ r.pcWriteTo \in 0..L - 1
      /\ r.ring \in [0..L - 1 -> Item] /\ r \in QueueRecord(q)
  BY QueueAssumption DEF Ring, QueueRecord
<1>2. /\ c.ring = [r.ring EXCEPT ![r.pcWriteTo] = item] /\ c.pcWriteTo = Next1(q, r.pcWriteTo)
      /\ c.uxMessagesWaiting = n + 1 /\ c.pcReadFrom = r.pcReadFrom
  BY <1>1 DEF CopyToQueue, QueueRecord
<1> c \in QueueRecord(q)  BY <1>1, CopyType
<1> HIDE DEF c
<1>3. r.pcWriteTo = Slot(q, r.pcReadFrom + (n + 1))
  BY <1>1, SlotSteps DEF Ring
<1>4. Ring(q, c)
  <2>1. Next1(q, r.pcWriteTo) = Next1(q, Slot(q, c.pcReadFrom + c.uxMessagesWaiting))
    BY <1>2, <1>3
  <2> QED  BY <1>2, <2>1 DEF Ring
<1>5. \A i \in 1..n : c.ring[Slot(q, r.pcReadFrom + i)] = r.ring[Slot(q, r.pcReadFrom + i)]
  <2> TAKE i \in 1..n
  <2>1. Slot(q, r.pcReadFrom + i) # r.pcWriteTo
    <3>1. /\ i \in 0..L /\ n + 1 \in 0..L /\ i < n + 1 /\ (n + 1) - i < L
          /\ r.pcReadFrom \in 0..L - 1
      BY <1>1
    <3>2. Slot(q, r.pcReadFrom + i) # Slot(q, r.pcReadFrom + (n + 1))
      BY <3>1, SlotsDiffer
    <3> QED  BY <1>3, <3>2
  <2>2. Slot(q, r.pcReadFrom + i) \in 0..L - 1
    BY <1>1, SlotRange
  <2> QED  BY <1>1, <1>2, <2>1, <2>2
<1>6. c.ring[Slot(q, r.pcReadFrom + (n + 1))] = item
  BY <1>1, <1>2, <1>3
<1>7. Append(Contents(q, r), item) = Contents(q, c)
  <2>1. /\ Contents(q, r) \in Seq(Item) /\ Len(Contents(q, r)) = n
        /\ \A i \in 1..n : Contents(q, r)[i] = r.ring[Slot(q, r.pcReadFrom + i)]
    BY <1>1, ContentsType
  <2>2. /\ Contents(q, c) \in Seq(Item) /\ Len(Contents(q, c)) = n + 1
        /\ \A i \in 1..n + 1 : Contents(q, c)[i] = c.ring[Slot(q, r.pcReadFrom + i)]
    <3>1. /\ Contents(q, c) \in Seq(Item) /\ Len(Contents(q, c)) = c.uxMessagesWaiting
          /\ \A i \in 1..c.uxMessagesWaiting : Contents(q, c)[i] = c.ring[Slot(q, c.pcReadFrom + i)]
      BY ContentsType
    <3>2. c.uxMessagesWaiting = n + 1 /\ c.pcReadFrom = r.pcReadFrom
      BY <1>2
    <3> HIDE DEF n
    <3> QED  BY <3>1, <3>2
  <2>3. /\ Append(Contents(q, r), item) \in Seq(Item) /\ Len(Append(Contents(q, r), item)) = n + 1
        /\ \A i \in 1..n : Append(Contents(q, r), item)[i] = Contents(q, r)[i]
        /\ Append(Contents(q, r), item)[n + 1] = item
    BY <2>1, AppendProperties
  <2>4. \A i \in 1..n + 1 : Append(Contents(q, r), item)[i] = Contents(q, c)[i]
    BY <1>1, <1>5, <1>6, <2>1, <2>2, <2>3
  <2> QED  BY <2>2, <2>3, <2>4, SeqEqual
<1> QED  BY <1>4, <1>7 DEF c

\* prvCopyDataToQueue at the front puts the item before the others.
LEMMA CopyFront ==
  ASSUME NEW q \in Queue, NEW r, Ring(q, r), r.uxMessagesWaiting # uxLength[q], NEW item \in Item
  PROVE  /\ Ring(q, CopyToQueue(q, r, item, "front"))
         /\ Contents(q, CopyToQueue(q, r, item, "front")) = <<item>> \o Contents(q, r)
<1> DEFINE n == r.uxMessagesWaiting
           L == uxLength[q]
           c == CopyToQueue(q, r, item, "front")
<1>1. /\ L \in Nat \ {0} /\ n \in 0..L - 1 /\ r.pcReadFrom \in 0..L - 1 /\ r.pcWriteTo \in 0..L - 1
      /\ r.ring \in [0..L - 1 -> Item] /\ r \in QueueRecord(q)
  BY QueueAssumption DEF Ring, QueueRecord
<1>2. /\ c.ring = [r.ring EXCEPT ![r.pcReadFrom] = item] /\ c.pcReadFrom = Prev1(q, r.pcReadFrom)
      /\ c.uxMessagesWaiting = n + 1 /\ c.pcWriteTo = r.pcWriteTo
  BY <1>1 DEF CopyToQueue, QueueRecord
<1> c \in QueueRecord(q)  BY <1>1, CopyType
<1> HIDE DEF c
<1>3. \A i \in 0..n : Slot(q, c.pcReadFrom + (i + 1)) = Slot(q, r.pcReadFrom + i)
  <2> TAKE i \in 0..n
  <2>1. i \in 0..L - 1 /\ r.pcReadFrom \in 0..L - 1
    BY <1>1
  <2>2. Slot(q, Prev1(q, r.pcReadFrom) + (i + 1)) = Slot(q, r.pcReadFrom + i)
    BY <2>1, SlotSteps
  <2> QED  BY <1>2, <2>2
<1>4. Ring(q, c)
  <2>1. Slot(q, c.pcReadFrom + c.uxMessagesWaiting) = Slot(q, r.pcReadFrom + n)
    BY <1>1, <1>2, <1>3
  <2> QED  BY <1>2, <2>1 DEF Ring
<1>5. \A i \in 1..n : c.ring[Slot(q, r.pcReadFrom + i)] = r.ring[Slot(q, r.pcReadFrom + i)]
  <2> TAKE i \in 1..n
  <2>1. Slot(q, r.pcReadFrom + i) # r.pcReadFrom
    <3>1. /\ i \in 0..L /\ 0 \in 0..L /\ 0 < i /\ i - 0 < L
          /\ r.pcReadFrom \in 0..L - 1 /\ 0 \in 0..L - 1
      BY <1>1
    <3>2. Slot(q, r.pcReadFrom + 0) # Slot(q, r.pcReadFrom + i)
      BY <3>1, SlotsDiffer
    <3>3. Slot(q, r.pcReadFrom + 0) = r.pcReadFrom
      BY <3>1, SlotSteps
    <3> QED  BY <3>2, <3>3
  <2>2. Slot(q, r.pcReadFrom + i) \in 0..L - 1
    BY <1>1, SlotRange
  <2> QED  BY <1>1, <1>2, <2>1, <2>2
<1>6. c.ring[Slot(q, c.pcReadFrom + 1)] = item
  <2>1. Slot(q, c.pcReadFrom + 1) = r.pcReadFrom
    <3>1. 0 \in 0..n /\ 0 \in 0..L - 1 /\ r.pcReadFrom \in 0..L - 1
      BY <1>1
    <3>2. Slot(q, c.pcReadFrom + (0 + 1)) = Slot(q, r.pcReadFrom + 0)
      BY <1>3, <3>1
    <3>3. Slot(q, r.pcReadFrom) = r.pcReadFrom
      BY <3>1, SlotSteps
    <3> QED  BY <1>1, <3>2, <3>3
  <2> QED  BY <1>1, <1>2, <2>1
<1>7. <<item>> \o Contents(q, r) = Contents(q, c)
  <2>1. /\ Contents(q, r) \in Seq(Item) /\ Len(Contents(q, r)) = n
        /\ \A i \in 1..n : Contents(q, r)[i] = r.ring[Slot(q, r.pcReadFrom + i)]
    BY <1>1, ContentsType
  <2>2. /\ Contents(q, c) \in Seq(Item) /\ Len(Contents(q, c)) = n + 1
        /\ \A i \in 1..n + 1 : Contents(q, c)[i] = c.ring[Slot(q, c.pcReadFrom + i)]
    <3>1. /\ Contents(q, c) \in Seq(Item) /\ Len(Contents(q, c)) = c.uxMessagesWaiting
          /\ \A i \in 1..c.uxMessagesWaiting : Contents(q, c)[i] = c.ring[Slot(q, c.pcReadFrom + i)]
      BY ContentsType
    <3>2. c.uxMessagesWaiting = n + 1
      BY <1>2
    <3> HIDE DEF n
    <3> QED  BY <3>1, <3>2
  <2>3. <<item>> \in Seq(Item) /\ Len(<<item>>) = 1 /\ <<item>>[1] = item
    OBVIOUS
  <2>4. /\ <<item>> \o Contents(q, r) \in Seq(Item) /\ Len(<<item>> \o Contents(q, r)) = n + 1
        /\ \A i \in 1..n + 1 : (<<item>> \o Contents(q, r))[i] =
             IF i <= 1 THEN <<item>>[i] ELSE Contents(q, r)[i - 1]
    BY SMTT(20), <1>1, <2>1, <2>3, ConcatProperties
  <2>5. ASSUME NEW i \in 1..n + 1 PROVE (<<item>> \o Contents(q, r))[i] = Contents(q, c)[i]
    <3>1. CASE i = 1  BY <3>1, <1>1, <1>6, <2>2, <2>3, <2>4
    <3>2. CASE i # 1
      <4>1. i - 1 \in 1..n /\ i = (i - 1) + 1  BY <3>2, <1>1
      <4>2. Contents(q, c)[i] = c.ring[Slot(q, r.pcReadFrom + (i - 1))]
        BY SMTT(20), <4>1, <1>3, <2>2, <1>1
      <4> QED  BY SMTT(20), <3>2, <4>1, <4>2, <1>1, <1>5, <2>1, <2>4
    <3> QED  BY <3>1, <3>2
  <2> QED  BY <2>2, <2>4, <2>5, SeqEqual
<1> QED  BY <1>4, <1>7 DEF c

\* prvCopyDataFromQueue takes the first item and leaves the others in order.
LEMMA TakeFront ==
  ASSUME NEW q \in Queue \ Mutex, NEW r, Ring(q, r), r.uxMessagesWaiting # 0
  PROVE  /\ Ring(q, TakeFromQueue(q, r))
         /\ Contents(q, r) # <<>>
         /\ Contents(q, TakeFromQueue(q, r)) = Tail(Contents(q, r))
<1> DEFINE n == r.uxMessagesWaiting
           L == uxLength[q]
           c == TakeFromQueue(q, r)
<1>1. /\ L \in Nat \ {0} /\ n \in 1..L /\ r.pcReadFrom \in 0..L - 1 /\ r.pcWriteTo \in 0..L - 1
      /\ r.ring \in [0..L - 1 -> Item] /\ r \in QueueRecord(q)
  BY QueueAssumption DEF Ring, QueueRecord
<1>2. /\ c.ring = r.ring /\ c.pcReadFrom = Next1(q, r.pcReadFrom)
      /\ c.uxMessagesWaiting = n - 1 /\ c.pcWriteTo = r.pcWriteTo
  BY <1>1 DEF TakeFromQueue, QueueRecord
<1> c \in QueueRecord(q)  BY <1>1, TakeType
<1> HIDE DEF c
<1>3. \A i \in 0..n - 1 : Slot(q, c.pcReadFrom + i) = Slot(q, r.pcReadFrom + (i + 1))
  <2> TAKE i \in 0..n - 1
  <2>1. i \in 0..L - 1 /\ r.pcReadFrom \in 0..L - 1
    BY <1>1
  <2>2. Slot(q, Next1(q, r.pcReadFrom) + i) = Slot(q, r.pcReadFrom + (i + 1))
    BY <2>1, SlotSteps
  <2> QED  BY <1>2, <2>2
<1>4. Ring(q, c)
  <2>1. Slot(q, c.pcReadFrom + c.uxMessagesWaiting) = Slot(q, r.pcReadFrom + n)
    BY <1>1, <1>2, <1>3
  <2> QED  BY <1>2, <2>1 DEF Ring
<1>5. /\ Contents(q, r) \in Seq(Item) /\ Len(Contents(q, r)) = n
      /\ \A i \in 1..n : Contents(q, r)[i] = r.ring[Slot(q, r.pcReadFrom + i)]
  BY <1>1, ContentsType
<1>6. /\ Contents(q, c) \in Seq(Item) /\ Len(Contents(q, c)) = n - 1
      /\ \A i \in 1..n - 1 : Contents(q, c)[i] = c.ring[Slot(q, c.pcReadFrom + i)]
  <2>1. /\ Contents(q, c) \in Seq(Item) /\ Len(Contents(q, c)) = c.uxMessagesWaiting
        /\ \A i \in 1..c.uxMessagesWaiting : Contents(q, c)[i] = c.ring[Slot(q, c.pcReadFrom + i)]
    BY ContentsType
  <2>2. c.uxMessagesWaiting = n - 1
    BY <1>2
  <2> HIDE DEF n
  <2> QED  BY <2>1, <2>2
<1>7. Contents(q, r) # <<>>
  BY <1>1, <1>5
<1>8. /\ Tail(Contents(q, r)) \in Seq(Item) /\ Len(Tail(Contents(q, r))) = n - 1
      /\ \A i \in 1..n - 1 : Tail(Contents(q, r))[i] = Contents(q, r)[i + 1]
  BY <1>1, <1>5, <1>7, HeadTailProperties
<1>9. \A i \in 1..n - 1 : Tail(Contents(q, r))[i] = Contents(q, c)[i]
  <2> TAKE i \in 1..n - 1
  <2>1. i + 1 \in 1..n /\ i \in 0..n - 1
    BY <1>1
  <2>2. Tail(Contents(q, r))[i] = r.ring[Slot(q, r.pcReadFrom + (i + 1))]
    BY <1>5, <1>8, <2>1
  <2>3. Contents(q, c)[i] = c.ring[Slot(q, r.pcReadFrom + (i + 1))]
    BY <1>3, <1>6, <2>1
  <2> QED  BY <1>2, <2>2, <2>3
<1>10. Contents(q, c) = Tail(Contents(q, r))
  BY <1>6, <1>8, <1>9, SeqEqual
<1> QED  BY <1>4, <1>7, <1>10 DEF c

-----------------------------------------------------------------------------
(* The invariant that the refinement needs. *)

Labels == {"out", "test", "block", "lock", "check", "look", "place", "sleep", "unlock_tx",
           "unlock_rx", "resume", "yield", "return", "last"}

\* A task that is not outside is in a call of the program that runs.
CallsOK ==
  /\ program \in Programs
  /\ pc \in [Task -> Labels] /\ call \in [Task -> program.calls \cup {NoCall}]
  /\ \A t \in Task : pc[t] # "out" => call[t] \in program.calls

\* Every queue has its types, and those that hold items keep them as a ring.
QueuesOK ==
  /\ queue \in [Queue -> UNION {QueueRecord(q) : q \in Queue}]
  /\ \A q \in Queue : queue[q] \in QueueRecord(q)
  /\ \A q \in Queue \ Mutex : Ring(q, queue[q])

RefinementInv == CallsOK /\ QueuesOK

\* What a call names exists.
LEMMA CallFields ==
  ASSUME NEW p \in Programs, NEW c \in p.calls
  PROVE  c.task \in Task /\ c.queue \in Queue /\ c.item \in Item
BY CallAssumption

\* A task that is in a call names a queue and an item.
LEMMA CallType ==
  ASSUME CallsOK, NEW t \in Task, pc[t] # "out"
  PROVE  call[t].queue \in Queue /\ call[t].item \in Item
<1>1. program \in Programs /\ call[t] \in program.calls  BY DEF CallsOK
<1> QED  BY <1>1, CallFields

\* A task that is in a call goes on in it, wherever that is.
GoesOn(t) == call' = call /\ pc' \in [Task -> Labels] /\ \A u \in Task \ {t} : pc'[u] = pc[u]

\* A task returns from its call, or goes on in it.
LEMMA CallsStay ==
  ASSUME CallsOK, program' = program, NEW t \in Task, pc[t] # "out", Returns(t) \/ GoesOn(t)
  PROVE  CallsOK'
<1>1. CASE Returns(t)
  <2>1. pc' = [pc EXCEPT ![t] = "out"] /\ call' = [call EXCEPT ![t] = NoCall]
    BY <1>1 DEF Returns, Goto
  <2>2. "out" \in Labels  BY DEF Labels
  <2>3. pc' \in [Task -> Labels] /\ call' \in [Task -> program.calls \cup {NoCall}]
    BY <2>1, <2>2 DEF CallsOK
  <2>4. ASSUME NEW u \in Task, pc'[u] # "out" PROVE call'[u] \in program.calls
    <3>1. u # t  BY <2>1, <2>4 DEF CallsOK
    <3> QED  BY <2>1, <2>4, <3>1 DEF CallsOK
  <2> QED  BY <2>3, <2>4 DEF CallsOK
<1>2. CASE GoesOn(t)
  BY <1>2 DEF CallsOK, GoesOn
<1> QED  BY <1>1, <1>2

\* Going to a label is going on.
LEMMA GotoGoesOn ==
  ASSUME CallsOK, NEW t \in Task, NEW l \in Labels, call' = call, Goto(t, l)
  PROVE  GoesOn(t)
BY DEF CallsOK, Goto, GoesOn

\* Every step keeps the calls' types.
LEMMA CallsInv ==
  ASSUME RefinementInv, [Next]_vars
  PROVE  CallsOK'
<1> CallsOK  BY DEF RefinementInv
<1>1. CASE UNCHANGED vars
  BY <1>1 DEF CallsOK, vars, tasks
<1>2. CASE Next
  <2>1. program' = program  BY <1>2 DEF Next
  <2>2. CASE Interrupt
    <3>1. pc' = pc /\ call' = call
      BY <2>2 DEF Interrupt, Tick, SendFromISR, ReceiveFromISR, tasks
    <3> QED  BY <2>1, <3>1 DEF CallsOK
  <2>3. ASSUME NEW c \in program.calls, Call(c) PROVE CallsOK'
    <3>1. c.task \in Task
      BY CallFields DEF CallsOK
    <3> DEFINE l == IF c.op = "delay" THEN "block" ELSE "test"
    <3>2. pc' = [pc EXCEPT ![c.task] = l] /\ call' = [call EXCEPT ![c.task] = c]
      BY <2>3 DEF Call, Goto
    <3>3. l \in Labels  BY DEF Labels
    <3> HIDE DEF l
    <3> QED  BY <2>1, <3>1, <3>2, <3>3 DEF CallsOK
  <2>4. ASSUME NEW t \in Task, TaskStep(t) PROVE CallsOK'
    <3>1. pc[t] # "out"
      BY <2>4 DEF TaskStep, SendItem, Give, ReceiveItem, Peek, TestFails, Suspend, LockQueue,
                  CheckForTimeOut, Look, Place, Sleep, UnlockTx, UnlockRx, Resume, Yield, Return,
                  LastLook, Runs
    <3>2. \/ Returns(t)
          \/ call' = call /\ \/ Goto(t, "test") \/ Goto(t, "block") \/ Goto(t, "lock") \/ Goto(t, "sleep")
                             \/ Goto(t, "check") \/ Goto(t, "look") \/ Goto(t, "place")
                             \/ Goto(t, "unlock_tx") \/ Goto(t, "unlock_rx") \/ Goto(t, "resume")
                             \/ Goto(t, "yield") \/ Goto(t, "return") \/ Goto(t, "last")
      <4>1. CASE SendItem(t) \/ Give(t) \/ ReceiveItem(t) \/ Peek(t) \/ Return(t)
        BY <4>1 DEF SendItem, Give, ReceiveItem, Peek, Return
      <4>2. CASE TestFails(t)
        BY <4>2 DEF TestFails, tasks
      <4>3. CASE Suspend(t)
        BY <4>3 DEF Suspend, tasks
      <4>4. CASE LockQueue(t) \/ UnlockTx(t) \/ UnlockRx(t) \/ Place(t) \/ Sleep(t)
        BY <4>4 DEF LockQueue, UnlockTx, UnlockRx, Place, Sleep, tasks
      <4>5. CASE CheckForTimeOut(t)
        BY <4>5 DEF CheckForTimeOut, tasks
      <4>6. CASE Look(t)
        BY <4>6 DEF Look, tasks
      <4>7. CASE Resume(t)
        BY <4>7 DEF Resume, Awake, tasks
      <4>8. CASE Yield(t)
        BY <4>8 DEF Yield, Awake, tasks
      <4>9. CASE LastLook(t)
        BY <4>9 DEF LastLook, tasks
      <4> QED  BY <2>4, <4>1, <4>2, <4>3, <4>4, <4>5, <4>6, <4>7, <4>8, <4>9 DEF TaskStep
    <3>3. Returns(t) \/ GoesOn(t)
      BY <3>2, GotoGoesOn DEF Labels
    <3> QED  BY <2>1, <3>1, <3>3, CallsStay
  <2> QED  BY <1>2, <2>2, <2>3, <2>4 DEF Next
<1> QED  BY <1>1, <1>2

-----------------------------------------------------------------------------
(* What a step does to one queue. *)

\* Only what a queue does not show of its ring is changed.
LEMMA SameItems ==
  ASSUME NEW q \in Queue, NEW r \in QueueRecord(q), NEW s \in QueueRecord(q),
         s.ring = r.ring, s.pcWriteTo = r.pcWriteTo, s.pcReadFrom = r.pcReadFrom,
         s.uxMessagesWaiting = r.uxMessagesWaiting
  PROVE  Contents(q, s) = Contents(q, r) /\ (Ring(q, r) => Ring(q, s))
BY DEF Contents, Ring

\* A step that sets one queue changes the items of no other.
LEMMA OneQueue ==
  ASSUME QueuesOK, NEW q \in Queue, NEW r \in QueueRecord(q), q \notin Mutex => Ring(q, r),
         queue' = [queue EXCEPT ![q] = r]
  PROVE  /\ QueuesOK'
         /\ q \notin Mutex => AllContents' = [AllContents EXCEPT ![q] = Contents(q, r)]
         /\ (q \in Mutex \/ Contents(q, r) = Contents(q, queue[q])) => AllContents' = AllContents
<1>1. \A p \in Queue : queue'[p] = IF p = q THEN r ELSE queue[p]
  BY DEF QueuesOK
<1>2. QueuesOK'
  <2>1. queue' \in [Queue -> UNION {QueueRecord(p) : p \in Queue}]
    BY DEF QueuesOK
  <2> QED  BY <1>1, <2>1 DEF QueuesOK
<1>3. AllContents' = [p \in Queue \ Mutex |-> Contents(p, queue'[p])]
  BY DEF AllContents, Contents, Slot
<1>4. AllContents' = [p \in Queue \ Mutex |-> IF p = q THEN Contents(q, r) ELSE Contents(p, queue[p])]
  BY <1>1, <1>3
<1> HIDE DEF QueuesOK
<1> QED  BY <1>2, <1>4 DEF AllContents

\* What a step has to do.
StepOK == QueuesOK' /\ (Bounded!Next \/ AllContents' = AllContents)

\* A queue that keeps its items keeps the refinement.
LEMMA KeptItems ==
  ASSUME QueuesOK, NEW q \in Queue, NEW s \in QueueRecord(q), queue' = [queue EXCEPT ![q] = s],
         s.ring = queue[q].ring, s.pcWriteTo = queue[q].pcWriteTo,
         s.pcReadFrom = queue[q].pcReadFrom, s.uxMessagesWaiting = queue[q].uxMessagesWaiting
  PROVE  StepOK
<1>1. queue[q] \in QueueRecord(q) /\ (q \notin Mutex => Ring(q, queue[q]))
  BY DEF QueuesOK
<1>2. Contents(q, s) = Contents(q, queue[q]) /\ (Ring(q, queue[q]) => Ring(q, s))
  BY <1>1, SameItems
<1> QED  BY <1>1, <1>2, OneQueue DEF StepOK

\* A queue that got an item as prvCopyDataToQueue puts it, whatever becomes of its locks.
LEMMA SentItem ==
  ASSUME QueuesOK, NEW q \in Queue \ Mutex, ~Full(q), NEW item \in Item, NEW op \in {"back", "front"},
         NEW s \in QueueRecord(q), queue' = [queue EXCEPT ![q] = s],
         s.ring = CopyToQueue(q, queue[q], item, op).ring,
         s.pcWriteTo = CopyToQueue(q, queue[q], item, op).pcWriteTo,
         s.pcReadFrom = CopyToQueue(q, queue[q], item, op).pcReadFrom,
         s.uxMessagesWaiting = CopyToQueue(q, queue[q], item, op).uxMessagesWaiting
  PROVE  StepOK
<1> DEFINE r == queue[q]
           c == CopyToQueue(q, r, item, op)
<1>1. r \in QueueRecord(q) /\ Ring(q, r) /\ r.uxMessagesWaiting # uxLength[q]
  BY DEF QueuesOK, Full
<1>2. /\ Ring(q, c)
      /\ Contents(q, c) = IF op = "back" THEN Append(Contents(q, r), item) ELSE <<item>> \o Contents(q, r)
  BY <1>1, CopyBack, CopyFront
<1>3. c \in QueueRecord(q)  BY <1>2 DEF Ring
<1> HIDE DEF c
<1>4. Ring(q, s) /\ Contents(q, s) = Contents(q, c)
  BY <1>2, <1>3, SameItems DEF c
<1>5. QueuesOK' /\ AllContents' = [AllContents EXCEPT ![q] = Contents(q, c)]
  BY <1>4, OneQueue
<1>6. AllContents[q] = Contents(q, r) /\ Len(Contents(q, r)) < uxLength[q]
  <2>1. r.uxMessagesWaiting \in 0..uxLength[q] /\ uxLength[q] \in Nat
    BY <1>1, QueueAssumption DEF QueueRecord
  <2>2. Len(Contents(q, r)) = r.uxMessagesWaiting
    BY <1>1, ContentsType
  <2> QED  BY <1>1, <2>1, <2>2 DEF AllContents
<1>7. Bounded!SendToBack(q, item) \/ Bounded!SendToFront(q, item)
  BY <1>2, <1>5, <1>6 DEF Bounded!SendToBack, Bounded!SendToFront
<1> QED  BY <1>5, <1>7 DEF StepOK, Bounded!Next

\* A queue whose first item was taken, whatever becomes of its locks.
LEMMA TakenItem ==
  ASSUME QueuesOK, NEW q \in Queue \ Mutex, ~Empty(q),
         NEW s \in QueueRecord(q), queue' = [queue EXCEPT ![q] = s],
         s.ring = TakeFromQueue(q, queue[q]).ring,
         s.pcWriteTo = TakeFromQueue(q, queue[q]).pcWriteTo,
         s.pcReadFrom = TakeFromQueue(q, queue[q]).pcReadFrom,
         s.uxMessagesWaiting = TakeFromQueue(q, queue[q]).uxMessagesWaiting
  PROVE  StepOK
<1> DEFINE r == queue[q]
           c == TakeFromQueue(q, r)
<1>1. r \in QueueRecord(q) /\ Ring(q, r) /\ r.uxMessagesWaiting # 0
  BY DEF QueuesOK, Empty
<1>2. Ring(q, c) /\ Contents(q, r) # <<>> /\ Contents(q, c) = Tail(Contents(q, r))
  BY <1>1, TakeFront
<1>3. c \in QueueRecord(q)  BY <1>2 DEF Ring
<1> HIDE DEF c
<1>4. Ring(q, s) /\ Contents(q, s) = Contents(q, c)
  BY <1>2, <1>3, SameItems DEF c
<1>5. QueuesOK' /\ AllContents' = [AllContents EXCEPT ![q] = Contents(q, c)]
  BY <1>4, OneQueue
<1>6. AllContents[q] = Contents(q, r)
  BY DEF AllContents
<1>7. Bounded!Receive(q)
  BY <1>2, <1>5, <1>6 DEF Bounded!Receive
<1> QED  BY <1>5, <1>7 DEF StepOK, Bounded!Next

\* A task that sends.
LEMMA SendStep ==
  ASSUME RefinementInv, NEW t \in Task, SendItem(t)
  PROVE  StepOK
<1> DEFINE q == call[t].queue
           c == CopyToQueue(q, queue[q], call[t].item, call[t].op)
<1>1. /\ q \in Queue \ Mutex /\ ~Full(q) /\ queue' = [queue EXCEPT ![q] = c]
      /\ call[t].op \in {"back", "front"} /\ call[t].item \in Item
  BY CallType DEF SendItem, Sends, CanGo, Runs, RefinementInv
<1>2. queue[q] \in QueueRecord(q) /\ queue[q].uxMessagesWaiting # uxLength[q]
  BY <1>1 DEF RefinementInv, QueuesOK, Full
<1>3. c \in QueueRecord(q)
  BY <1>1, <1>2, CopyType
<1> QED  BY <1>1, <1>3, SentItem DEF RefinementInv

\* A task that receives, or takes a mutex.
LEMMA ReceiveStep ==
  ASSUME RefinementInv, NEW t \in Task, ReceiveItem(t)
  PROVE  StepOK
<1> DEFINE q == call[t].queue
           r == queue[q]
           c == TakeFromQueue(q, r)
           s == [c EXCEPT !.pxMutexHolder = IF q \in Mutex THEN {t} ELSE r.pxMutexHolder]
<1>1. /\ q \in Queue /\ ~Empty(q) /\ queue' = [queue EXCEPT ![q] = s]
  BY CallType DEF ReceiveItem, Sends, CanGo, Runs, RefinementInv
<1>2. r \in QueueRecord(q) /\ r.uxMessagesWaiting # 0
  BY <1>1 DEF RefinementInv, QueuesOK, Empty
<1>3. c \in QueueRecord(q)
  BY <1>1, <1>2, TakeType
<1>4. (IF q \in Mutex THEN {t} ELSE r.pxMutexHolder) \in SUBSET Task
  BY <1>2 DEF QueueRecord
<1> HIDE DEF c
<1>5. s \in QueueRecord(q)
  BY <1>1, <1>3, <1>4, FieldType
<1>6. /\ s.ring = c.ring /\ s.pcWriteTo = c.pcWriteTo /\ s.pcReadFrom = c.pcReadFrom
      /\ s.uxMessagesWaiting = c.uxMessagesWaiting
  BY <1>3 DEF QueueRecord
<1>7. CASE q \in Mutex
  BY <1>1, <1>5, <1>7, <1>2, OneQueue DEF StepOK, RefinementInv
<1>8. CASE q \notin Mutex
  <2> HIDE DEF s
  <2> QED  BY <1>1, <1>5, <1>6, <1>8, TakenItem DEF RefinementInv, c
<1> QED  BY <1>7, <1>8

\* A task that gives a mutex.
LEMMA GiveStep ==
  ASSUME RefinementInv, NEW t \in Task, Give(t)
  PROVE  StepOK
<1> DEFINE q == call[t].queue
           r == queue[q]
           a == [r EXCEPT !.pxMutexHolder = {}]
           s == [r EXCEPT !.pxMutexHolder = {}, !.uxMessagesWaiting = r.uxMessagesWaiting + 1]
<1>1. q \in Queue /\ q \in Mutex /\ ~Full(q) /\ queue' = [queue EXCEPT ![q] = s]
  BY CallType DEF Give, Sends, CanGo, Runs, RefinementInv
<1>2. r \in QueueRecord(q) /\ r.uxMessagesWaiting + 1 \in 0..uxLength[q]
  <2>1. r \in QueueRecord(q) /\ r.uxMessagesWaiting # uxLength[q]
    BY <1>1 DEF RefinementInv, QueuesOK, Full
  <2>2. r.uxMessagesWaiting \in 0..uxLength[q] /\ uxLength[q] \in Nat
    BY <1>1, <2>1, QueueAssumption DEF QueueRecord
  <2> QED  BY <2>1, <2>2
<1>3. a \in QueueRecord(q)
  BY <1>1, <1>2, FieldType
<1>4. s = [a EXCEPT !.uxMessagesWaiting = r.uxMessagesWaiting + 1]
  OBVIOUS
<1> HIDE DEF a
<1>5. s \in QueueRecord(q)
  BY <1>1, <1>2, <1>3, <1>4, FieldType
<1> QED  BY <1>1, <1>5, OneQueue DEF StepOK, RefinementInv

\* prvLockQueue hides nothing and shows nothing.
LEMMA LockStep ==
  ASSUME RefinementInv, NEW t \in Task, LockQueue(t)
  PROVE  StepOK
<1> DEFINE q == call[t].queue
           r == queue[q]
           a == [r EXCEPT !.cTxLock = Locked(r.cTxLock)]
           s == [r EXCEPT !.cTxLock = Locked(r.cTxLock), !.cRxLock = Locked(r.cRxLock)]
<1>1. q \in Queue /\ queue' = [queue EXCEPT ![q] = s]
  BY CallType DEF LockQueue, Runs, RefinementInv
<1>2. r \in QueueRecord(q) /\ Locked(r.cTxLock) \in Int /\ Locked(r.cRxLock) \in Int
  <2>1. r \in QueueRecord(q)
    BY <1>1 DEF RefinementInv, QueuesOK
  <2>2. r.cTxLock \in Int /\ r.cRxLock \in Int
    BY <2>1 DEF QueueRecord
  <2> QED  BY <2>1, <2>2 DEF Locked
<1>3. a \in QueueRecord(q)
  BY <1>1, <1>2, FieldType
<1>4. /\ s = [a EXCEPT !.cRxLock = Locked(r.cRxLock)]
      /\ s.ring = r.ring /\ s.pcWriteTo = r.pcWriteTo /\ s.pcReadFrom = r.pcReadFrom
      /\ s.uxMessagesWaiting = r.uxMessagesWaiting
  BY <1>2 DEF QueueRecord
<1> HIDE DEF a
<1>5. s \in QueueRecord(q)
  BY <1>1, <1>2, <1>3, <1>4, FieldType
<1> HIDE DEF s
<1> QED  BY <1>1, <1>4, <1>5, KeptItems DEF RefinementInv

\* prvUnlockQueue neither.
LEMMA UnlockStep ==
  ASSUME RefinementInv, NEW t \in Task, UnlockTx(t) \/ UnlockRx(t)
  PROVE  StepOK
<1> DEFINE q == call[t].queue
           r == queue[q]
           tx == [r EXCEPT !.cTxLock = queueUNLOCKED]
           rx == [r EXCEPT !.cRxLock = queueUNLOCKED]
<1>1. q \in Queue /\ (queue' = [queue EXCEPT ![q] = tx] \/ queue' = [queue EXCEPT ![q] = rx])
  BY CallType DEF UnlockTx, UnlockRx, Runs, RefinementInv
<1>2. r \in QueueRecord(q) /\ queueUNLOCKED \in Int
  BY <1>1 DEF RefinementInv, QueuesOK, queueUNLOCKED
<1>3. /\ tx.ring = r.ring /\ tx.pcWriteTo = r.pcWriteTo /\ tx.pcReadFrom = r.pcReadFrom
      /\ tx.uxMessagesWaiting = r.uxMessagesWaiting
  BY <1>2 DEF QueueRecord
<1>4. /\ rx.ring = r.ring /\ rx.pcWriteTo = r.pcWriteTo /\ rx.pcReadFrom = r.pcReadFrom
      /\ rx.uxMessagesWaiting = r.uxMessagesWaiting
  BY <1>2 DEF QueueRecord
<1>5. tx \in QueueRecord(q) /\ rx \in QueueRecord(q)
  BY <1>1, <1>2, FieldType
<1> HIDE DEF tx, rx
<1> QED  BY <1>1, <1>3, <1>4, <1>5, KeptItems DEF RefinementInv

\* An interrupt that sends, the queue locked or not.
LEMMA SendFromISRStep ==
  ASSUME RefinementInv, NEW q \in Queue \ Mutex, SendFromISR(q)
  PROVE  StepOK
<1> DEFINE r == queue[q]
           c == CopyToQueue(q, r, ISRItem, "back")
           l == IF r.cTxLock = queueUNLOCKED THEN queueUNLOCKED ELSE r.cTxLock + 1
           s == [c EXCEPT !.cTxLock = l]
<1>1. ~Full(q) /\ queue' = [queue EXCEPT ![q] = s]
  BY DEF SendFromISR
<1>2. r \in QueueRecord(q) /\ r.uxMessagesWaiting # uxLength[q] /\ l \in Int
  <2>1. r \in QueueRecord(q) /\ r.uxMessagesWaiting # uxLength[q]
    BY <1>1 DEF RefinementInv, QueuesOK, Full
  <2>2. r.cTxLock \in Int /\ r.cRxLock \in Int
    BY <2>1 DEF QueueRecord
  <2> QED  BY <2>1, <2>2 DEF queueUNLOCKED
<1>3. c \in QueueRecord(q)
  BY <1>2, CopyType, ItemAssumption
<1> HIDE DEF c, l
<1>4. s \in QueueRecord(q)
  BY <1>2, <1>3, FieldType
<1>5. /\ s.ring = c.ring /\ s.pcWriteTo = c.pcWriteTo /\ s.pcReadFrom = c.pcReadFrom
      /\ s.uxMessagesWaiting = c.uxMessagesWaiting
  BY <1>3 DEF QueueRecord
<1> HIDE DEF s
<1> QED  BY <1>1, <1>4, <1>5, SentItem, ItemAssumption DEF RefinementInv, c

\* An interrupt that receives, the queue locked or not.
LEMMA ReceiveFromISRStep ==
  ASSUME RefinementInv, NEW q \in Queue \ Mutex, ReceiveFromISR(q)
  PROVE  StepOK
<1> DEFINE r == queue[q]
           c == TakeFromQueue(q, r)
           l == IF r.cRxLock = queueUNLOCKED THEN queueUNLOCKED ELSE r.cRxLock + 1
           s == [c EXCEPT !.cRxLock = l]
<1>1. ~Empty(q) /\ queue' = [queue EXCEPT ![q] = s]
  BY DEF ReceiveFromISR
<1>2. r \in QueueRecord(q) /\ r.uxMessagesWaiting # 0 /\ l \in Int
  <2>1. r \in QueueRecord(q) /\ r.uxMessagesWaiting # 0
    BY <1>1 DEF RefinementInv, QueuesOK, Empty
  <2>2. r.cTxLock \in Int /\ r.cRxLock \in Int
    BY <2>1 DEF QueueRecord
  <2> QED  BY <2>1, <2>2 DEF queueUNLOCKED
<1>3. c \in QueueRecord(q)
  BY <1>2, TakeType
<1> HIDE DEF c, l
<1>4. s \in QueueRecord(q)
  BY <1>2, <1>3, FieldType
<1>5. /\ s.ring = c.ring /\ s.pcWriteTo = c.pcWriteTo /\ s.pcReadFrom = c.pcReadFrom
      /\ s.uxMessagesWaiting = c.uxMessagesWaiting
  BY <1>3 DEF QueueRecord
<1> HIDE DEF s
<1> QED  BY <1>1, <1>4, <1>5, TakenItem DEF RefinementInv, c

\* Every step puts an item at an end, takes the first, or leaves the items alone.
LEMMA StepImplements ==
  ASSUME RefinementInv, [Next]_vars
  PROVE  StepOK
<1>1. ASSUME queue' = queue PROVE StepOK
  <2>1. QueuesOK'
    BY <1>1 DEF RefinementInv, QueuesOK
  <2>2. AllContents' = AllContents
    BY <1>1 DEF AllContents, Contents, Slot
  <2> QED  BY <2>1, <2>2 DEF StepOK
<1>2. CASE UNCHANGED vars
  BY <1>1, <1>2 DEF vars
<1>3. CASE Next
  <2>1. CASE Interrupt
    <3>1. CASE Tick
      BY <1>1, <3>1 DEF Tick
    <3>2. ASSUME NEW q \in Queue \ Mutex, SendFromISR(q) \/ ReceiveFromISR(q) PROVE StepOK
      BY <3>2, SendFromISRStep, ReceiveFromISRStep
    <3> QED  BY <2>1, <3>1, <3>2 DEF Interrupt
  <2>2. ASSUME NEW c \in program.calls, Call(c) PROVE StepOK
    BY <1>1, <2>2 DEF Call
  <2>3. ASSUME NEW t \in Task, TaskStep(t) PROVE StepOK
    <3>1. CASE SendItem(t) \/ ReceiveItem(t) \/ Give(t)
      BY <3>1, SendStep, ReceiveStep, GiveStep
    <3>2. CASE LockQueue(t) \/ UnlockTx(t) \/ UnlockRx(t)
      BY <3>2, LockStep, UnlockStep
    <3>3. CASE Peek(t) \/ TestFails(t) \/ Suspend(t) \/ CheckForTimeOut(t) \/ Look(t) \/ Place(t) \/ Sleep(t)
      BY <1>1, <3>3 DEF Peek, TestFails, Suspend, CheckForTimeOut, Look, Place, Sleep
    <3>4. CASE Resume(t) \/ Yield(t) \/ Return(t) \/ LastLook(t)
      BY <1>1, <3>4 DEF Resume, Yield, Return, LastLook
    <3> QED  BY <2>3, <3>1, <3>2, <3>3, <3>4 DEF TaskStep
  <2> QED  BY <1>3, <2>1, <2>2, <2>3 DEF Next
<1> QED  BY <1>2, <1>3

\* All queues are empty at first, their read position in the last slot.
LEMMA InitImplements ==
  ASSUME Init
  PROVE  RefinementInv /\ Bounded!Init
<1>1. CallsOK
  BY DEF Init, CallsOK, Labels
<1>2. ASSUME NEW q \in Queue PROVE EmptyQueue(q) \in QueueRecord(q)
  <2>1. (CHOOSE x \in Item : TRUE) \in Item
    BY ItemAssumption
  <2>2. [i \in 0..uxLength[q] - 1 |-> CHOOSE x \in Item : TRUE] \in [0..uxLength[q] - 1 -> Item]
    BY <2>1
  <2>3. /\ 0 \in 0..uxLength[q] - 1 /\ uxLength[q] - 1 \in 0..uxLength[q] - 1
        /\ 0 \in 0..uxLength[q] /\ 1 \in 0..uxLength[q]
    BY QueueAssumption
  <2> QED  BY <2>2, <2>3 DEF EmptyQueue, QueueRecord, queueUNLOCKED
<1>3. ASSUME NEW q \in Queue \ Mutex
      PROVE  Ring(q, EmptyQueue(q)) /\ Contents(q, EmptyQueue(q)) = <<>>
  <2>1. /\ EmptyQueue(q).pcWriteTo = 0 /\ EmptyQueue(q).pcReadFrom = uxLength[q] - 1
        /\ EmptyQueue(q).uxMessagesWaiting = 0
    BY DEF EmptyQueue
  <2>2. Next1(q, Slot(q, uxLength[q] - 1 + 0)) = 0
    BY QueueAssumption DEF Next1, Slot
  <2>3. Ring(q, EmptyQueue(q))
    BY <1>2, <2>1, <2>2 DEF Ring
  <2>4. Contents(q, EmptyQueue(q)) \in Seq(Item) /\ Len(Contents(q, EmptyQueue(q))) = 0
    BY <1>2, <2>1, ContentsType
  <2> QED  BY <2>3, <2>4, EmptySeq
<1>4. QueuesOK
  BY <1>2, <1>3 DEF Init, QueuesOK
<1>5. Bounded!Init
  BY <1>3 DEF Init, Bounded!Init, AllContents
<1> QED  BY <1>1, <1>4, <1>5 DEF RefinementInv

\* A FreeRTOS queue under its scheduler is a bounded sequence of items: whatever tasks and
\* interrupts do, and in whatever order their critical sections come, each item that
\* prvCopyDataToQueue accepts stands at the end it was put to, and prvCopyDataFromQueue takes
\* the first one.
THEOREM QueueIsBoundedSequence == Spec => ImplementsBounded
<1>1. Init => RefinementInv /\ Bounded!Init
  BY InitImplements
<1>2. RefinementInv /\ [Next]_vars => RefinementInv' /\ [Bounded!Next]_AllContents
  BY CallsInv, StepImplements DEF RefinementInv, StepOK
<1> QED  BY <1>1, <1>2, PTL DEF Spec, ImplementsBounded, Bounded!Spec

-----------------------------------------------------------------------------
(* Arithmetic, and functions defined by recursion. *)

\* A set of numbers has a least one.
LEMMA LeastNatural ==
  ASSUME NEW S \in SUBSET Nat, S # {}
  PROVE  \E x \in S : \A y \in S : x <= y
<1>1. PICK x \in S : \A y \in S : ~ (<<y, x>> \in OpToRel(<, Nat))
  BY NatLessThanWellFounded, WFMin
<1>2. ASSUME NEW y \in S PROVE x <= y
  <2>1. x \in Nat /\ y \in Nat
    OBVIOUS
  <2>2. ~ (y < x)
    BY <1>1, <2>1 DEF OpToRel
  <2> QED
    BY SMT, <2>1, <2>2
<1> QED
  BY <1>2

\* The least of a bound and some numbers is one of them, and none is smaller.
LEMMA LeastType ==
  ASSUME NEW S \in SUBSET Nat, NEW bound \in Nat
  PROVE  /\ Least(S, bound) \in S \cup {bound}
         /\ \A y \in S \cup {bound} : Least(S, bound) <= y
<1> DEFINE T == S \cup {bound}
<1>1. T \in SUBSET Nat /\ T # {}
  OBVIOUS
<1>2. \E x \in T : \A y \in T : x <= y
  <2> HIDE DEF T
  <2> QED  BY <1>1, LeastNatural
<1> QED  BY <1>2 DEF Least

\* What holds of 0, and of each number up to n if of the one before, holds up to n.
LEMMA UpTo ==
  ASSUME NEW n \in Nat, NEW T, 0 \in T, \A i \in 1..n : i - 1 \in T => i \in T
  PROVE  \A i \in 0..n : i \in T
<1> DEFINE S == {i \in 0..n : i \notin T}
<1>1. SUFFICES S = {}
  OBVIOUS
<1>2. SUFFICES ASSUME S # {} PROVE FALSE
  OBVIOUS
<1>3. S \in SUBSET Nat
  OBVIOUS
<1>4. PICK x \in S : \A y \in S : x <= y
  <2> HIDE DEF S
  <2> QED  BY <1>2, <1>3, LeastNatural
<1>5. x \in 0..n /\ x \notin T
  OBVIOUS
<1>6. x \in 1..n /\ x - 1 \in 0..n /\ ~ (x <= x - 1)
  BY <1>5
<1>7. x - 1 \in T
  BY <1>4, <1>6
<1> QED  BY <1>5, <1>6, <1>7

\* A function on 0..n is made from its first value by steps that stay in a set.
Stepped(n, V, first, step) ==
  \E f \in [0..n -> V] : f[0] = first /\ \A i \in 1..n : f[i] = step[i][f[i - 1]]

LEMMA Steps ==
  ASSUME NEW n \in Nat, NEW V, NEW first \in V, NEW step \in [1..n -> [V -> V]]
  PROVE  Stepped(n, V, first, step)
<1> DEFINE Made(m) == \E f \in [0..m -> V] : f[0] = first /\ \A i \in 1..m : f[i] = step[i][f[i - 1]]
           T == {m \in 0..n : Made(m)}
<1>1. 0 \in T
  <2> DEFINE f == [i \in 0..0 |-> first]
  <2>1. f \in [0..0 -> V] /\ f[0] = first /\ \A i \in 1..0 : f[i] = step[i][f[i - 1]]
    OBVIOUS
  <2>2. Made(0)
    <3> HIDE DEF f
    <3> QED  BY <2>1
  <2> QED  BY <2>2
<1>2. ASSUME NEW m \in 1..n, m - 1 \in T PROVE m \in T
  <2>1. Made(m - 1)
    BY <1>2
  <2>2. PICK f \in [0..m - 1 -> V] : f[0] = first /\ \A i \in 1..m - 1 : f[i] = step[i][f[i - 1]]
    BY <2>1
  <2> DEFINE g == [i \in 0..m |-> IF i = m THEN step[m][f[m - 1]] ELSE f[i]]
  <2>3. step[m][f[m - 1]] \in V
    <3>1. f[m - 1] \in V  BY <2>2
    <3>2. step[m] \in [V -> V]  OBVIOUS
    <3> QED  BY <3>1, <3>2
  <2>4. g \in [0..m -> V]
    BY <2>2, <2>3
  <2>5. g[0] = first
    BY <2>2
  <2>6. ASSUME NEW i \in 1..m PROVE g[i] = step[i][g[i - 1]]
    <3>1. CASE i = m
      <4>1. g[i - 1] = f[m - 1]  BY <3>1
      <4> QED  BY <3>1, <4>1
    <3>2. CASE i # m
      <4>1. i \in 1..m - 1 /\ g[i] = f[i] /\ g[i - 1] = f[i - 1]  BY <3>2
      <4> QED  BY <2>2, <4>1
    <3> QED  BY <3>1, <3>2
  <2>7. Made(m)
    <3> HIDE DEF g
    <3> QED  BY <2>4, <2>5, <2>6
  <2>8. m \in 0..n
    OBVIOUS
  <2> QED  BY <2>7, <2>8
<1>3. n \in T
  <2> HIDE DEF T
  <2>1. \A i \in 0..n : i \in T
    BY <1>1, <1>2, UpTo
  <2> QED  BY <2>1
<1> QED  BY <1>3 DEF Stepped

-----------------------------------------------------------------------------
(* The scheduler's state. *)

\* Types of the scheduler's fields.
Kernel ==
  [xTickCount : 0..TickMod - 1, xNumOfOverflows : Nat, uxPendedTicks : Nat,
   uxSchedulerSuspended : Nat, xYieldPending : BOOLEAN, pxCurrentTCB : Task,
   ready : SUBSET Task, pending : SUBSET Task, delayed : SUBSET Task, overflow : SUBSET Task,
   suspended : SUBSET Task, wake : [Task -> 0..TickMod - 1],
   xNextTaskUnblockTime : 0..portMAX_DELAY, uxPriority : [Task -> Nat],
   uxMutexesHeld : [Task -> Int], waiting : [Lists -> Seq(Task)]]

\* Groups of fields that an operator leaves alone.
SameTime(a, b) ==
  /\ b.xTickCount = a.xTickCount /\ b.xNumOfOverflows = a.xNumOfOverflows
  /\ b.uxPendedTicks = a.uxPendedTicks
SameRun(a, b) ==
  /\ b.uxSchedulerSuspended = a.uxSchedulerSuspended /\ b.pxCurrentTCB = a.pxCurrentTCB
  /\ b.uxMutexesHeld = a.uxMutexesHeld
SameLists(a, b) ==
  /\ b.ready = a.ready /\ b.pending = a.pending /\ b.delayed = a.delayed
  /\ b.overflow = a.overflow /\ b.suspended = a.suspended /\ b.waiting = a.waiting

SameAlarm(a, b) == b.wake = a.wake /\ b.xNextTaskUnblockTime = a.xNextTaskUnblockTime

\* No time passes, and no task that sleeps is put off.
Quiet(a, b) ==
  SameTime(a, b) /\ SameAlarm(a, b) /\ b.delayed \subseteq a.delayed /\ b.overflow \subseteq a.overflow

\* Setting a field keeps the types.
LEMMA FieldKept ==
  ASSUME NEW a \in Kernel
  PROVE  /\ \A x \in 0..TickMod - 1 : [a EXCEPT !.xTickCount = x] \in Kernel
         /\ \A x \in Nat : /\ [a EXCEPT !.xNumOfOverflows = x] \in Kernel
                           /\ [a EXCEPT !.uxPendedTicks = x] \in Kernel
                           /\ [a EXCEPT !.uxSchedulerSuspended = x] \in Kernel
         /\ \A x \in BOOLEAN : [a EXCEPT !.xYieldPending = x] \in Kernel
         /\ \A x \in Task : [a EXCEPT !.pxCurrentTCB = x] \in Kernel
         /\ \A x \in SUBSET Task : /\ [a EXCEPT !.ready = x] \in Kernel
                                    /\ [a EXCEPT !.pending = x] \in Kernel
                                    /\ [a EXCEPT !.delayed = x] \in Kernel
                                    /\ [a EXCEPT !.overflow = x] \in Kernel
                                    /\ [a EXCEPT !.suspended = x] \in Kernel
         /\ \A x \in [Task -> 0..TickMod - 1] : [a EXCEPT !.wake = x] \in Kernel
         /\ \A x \in 0..portMAX_DELAY : [a EXCEPT !.xNextTaskUnblockTime = x] \in Kernel
         /\ \A x \in [Task -> Nat] : [a EXCEPT !.uxPriority = x] \in Kernel
         /\ \A x \in [Task -> Int] : [a EXCEPT !.uxMutexesHeld = x] \in Kernel
         /\ \A x \in [Lists -> Seq(Task)] : [a EXCEPT !.waiting = x] \in Kernel
BY DEF Kernel

\* The types of the fields that the proofs look at.
LEMMA Fields ==
  ASSUME NEW a \in Kernel
  PROVE  /\ a.xTickCount \in 0..TickMod - 1 /\ a.xNumOfOverflows \in Nat /\ a.uxPendedTicks \in Nat
         /\ a.uxSchedulerSuspended \in Nat /\ a.xYieldPending \in BOOLEAN /\ a.pxCurrentTCB \in Task
         /\ a.ready \subseteq Task /\ a.pending \subseteq Task /\ a.delayed \subseteq Task
         /\ a.overflow \subseteq Task /\ a.suspended \subseteq Task
         /\ a.wake \in [Task -> 0..TickMod - 1] /\ a.xNextTaskUnblockTime \in 0..portMAX_DELAY
         /\ a.uxPriority \in [Task -> Nat] /\ a.uxMutexesHeld \in [Task -> Int]
         /\ a.waiting \in [Lists -> Seq(Task)]
BY DEF Kernel

\* prvAddTaskToReadyList takes the tasks out of the other lists.
LEMMA MakeReadyFields ==
  ASSUME NEW a \in Kernel, NEW S \in SUBSET Task, NEW b, b = MakeReady(a, S)
  PROVE  /\ b \in Kernel /\ SameTime(a, b) /\ SameRun(a, b)
         /\ b.ready = a.ready \cup S /\ b.delayed = a.delayed \ S /\ b.overflow = a.overflow \ S
         /\ b.suspended = a.suspended \ S /\ b.pending = a.pending /\ b.waiting = a.waiting
         /\ SameAlarm(a, b) /\ b.xYieldPending = a.xYieldPending
<1> DEFINE c == [a EXCEPT !.ready = a.ready \cup S]
           d == [c EXCEPT !.delayed = c.delayed \ S]
           e == [d EXCEPT !.overflow = d.overflow \ S]
<1>1. b = [e EXCEPT !.suspended = e.suspended \ S]
  BY DEF MakeReady
<1>2. c \in Kernel
  BY Fields, FieldKept
<1>3. d \in Kernel
  <2> HIDE DEF c
  <2> QED  BY <1>2, Fields, FieldKept
<1>4. e \in Kernel
  <2> HIDE DEF d
  <2> QED  BY <1>3, Fields, FieldKept
<1>5. b \in Kernel
  <2> HIDE DEF e
  <2>1. e.suspended \ S \in SUBSET Task
    BY <1>4, Fields
  <2>2. [e EXCEPT !.suspended = e.suspended \ S] \in Kernel
    BY <1>4, <2>1, FieldKept
  <2> QED  BY <1>1, <2>2
<1>6. /\ SameTime(a, b) /\ SameRun(a, b)
      /\ b.ready = a.ready \cup S /\ b.delayed = a.delayed \ S /\ b.overflow = a.overflow \ S
      /\ b.suspended = a.suspended \ S /\ b.pending = a.pending /\ b.waiting = a.waiting
      /\ SameAlarm(a, b) /\ b.xYieldPending = a.xYieldPending
  BY <1>1 DEF Kernel, SameTime, SameRun, SameAlarm
<1> QED  BY <1>5, <1>6

\* prvResetNextTaskUnblockTime changes nothing else, and misses no delayed task.
LEMMA ResetFields ==
  ASSUME NEW a \in Kernel, NEW b, b = ResetNextTaskUnblockTime(a)
  PROVE  /\ b \in Kernel /\ SameTime(a, b) /\ SameRun(a, b) /\ SameLists(a, b)
         /\ b.wake = a.wake /\ b.xYieldPending = a.xYieldPending
         /\ \A t \in a.delayed : b.xNextTaskUnblockTime <= b.wake[t]
<1> DEFINE S == {a.wake[t] : t \in a.delayed}
           x == Least(S, portMAX_DELAY)
<1>1. S \in SUBSET (0..TickMod - 1)
  BY Fields
<1>2. portMAX_DELAY \in Nat /\ S \in SUBSET Nat /\ portMAX_DELAY = TickMod - 1
  BY <1>1, TickAssumption DEF portMAX_DELAY
<1>3. x \in 0..portMAX_DELAY
  <2> HIDE DEF S
  <2>1. x \in S \cup {portMAX_DELAY}
    BY <1>2, LeastType
  <2>2. x \in S => x \in 0..portMAX_DELAY
    BY <1>1, <1>2
  <2> HIDE DEF x
  <2> QED  BY <1>2, <2>1, <2>2
<1>4. b = [a EXCEPT !.xNextTaskUnblockTime = x]
  BY DEF ResetNextTaskUnblockTime
<1>5. ASSUME NEW t \in a.delayed PROVE x <= a.wake[t]
  <2>1. a.wake[t] \in S
    OBVIOUS
  <2> HIDE DEF S
  <2>2. \A y \in S \cup {portMAX_DELAY} : x <= y
    BY <1>2, LeastType
  <2> QED  BY <2>1, <2>2
<1> HIDE DEF x
<1>6. b \in Kernel
  BY <1>3, <1>4, FieldKept
<1>7. b.xNextTaskUnblockTime = x /\ b.wake = a.wake
  BY <1>4 DEF Kernel
<1> QED  BY <1>4, <1>5, <1>6, <1>7 DEF Kernel, SameTime, SameRun, SameLists

-----------------------------------------------------------------------------
(* Lists of tasks. *)

\* A task waits in an event list; a task is awake, though it may have to be made ready yet.
Waits(a, t, l) == \E i \in 1..Len(a.waiting[l]) : a.waiting[l][i] = t
Awoken(a)      == a.ready \cup a.pending

\* Each task is in one of the scheduler's lists, and in at most one event list, once; a task
\* that waits in an event list is not awake.
Sound(a) ==
  /\ a.ready \cup a.delayed \cup a.overflow \cup a.suspended = Task
  /\ a.ready \cap (a.delayed \cup a.overflow \cup a.suspended) = {}
  /\ a.delayed \cap (a.overflow \cup a.suspended) = {} /\ a.overflow \cap a.suspended = {}
  /\ a.pending \cap a.ready = {}
  /\ \A l \in Lists : \A i, j \in 1..Len(a.waiting[l]) : a.waiting[l][i] = a.waiting[l][j] => i = j
  /\ \A t \in Task : \A l \in Lists : Waits(a, t, l) =>
       t \notin Awoken(a) /\ \A m \in Lists : Waits(a, t, m) => m = l

\* The scheduler goes from a to b by waking tasks.
Moves(a, b) ==
  /\ b \in Kernel /\ Sound(b) /\ b.pxCurrentTCB = a.pxCurrentTCB /\ b.uxMutexesHeld = a.uxMutexesHeld
  /\ a.ready \subseteq b.ready /\ Awoken(a) \subseteq Awoken(b)
  /\ \A t \in Task : \A l \in Lists : Waits(b, t, l) => Waits(a, t, l)

\* The first task of a list, and the list without it.
LEMMA HeadOfList ==
  ASSUME NEW a \in Kernel, NEW l \in Lists, a.waiting[l] # <<>>
  PROVE  /\ Head(a.waiting[l]) \in Task /\ Tail(a.waiting[l]) \in Seq(Task)
         /\ Len(a.waiting[l]) \in Nat \ {0} /\ Len(Tail(a.waiting[l])) = Len(a.waiting[l]) - 1
         /\ Head(a.waiting[l]) = a.waiting[l][1]
         /\ \A i \in 1..Len(a.waiting[l]) - 1 : Tail(a.waiting[l])[i] = a.waiting[l][i + 1]
<1> DEFINE s == a.waiting[l]
<1>1. s \in Seq(Task)
  BY Fields
<1> HIDE DEF s
<1>2. s # <<>>
  BY DEF s
<1>3. /\ Head(s) \in Task /\ Tail(s) \in Seq(Task) /\ Len(Tail(s)) = Len(s) - 1
      /\ \A i \in 1..Len(Tail(s)) : Tail(s)[i] = s[i + 1]
  BY <1>1, <1>2, HeadTailProperties
<1>4. Len(s) \in Nat \ {0}
  BY <1>1, <1>2, EmptySeq
<1>5. Head(s) = s[1]
  BY <1>1, <1>2
<1> QED  BY <1>3, <1>4, <1>5 DEF s

\* Task h, the first of a list, has left it for the ready list or for xTaskResumeAll.
Removed(a, b, l, h) ==
  /\ b \in Kernel /\ SameTime(a, b) /\ SameRun(a, b)
  /\ b.waiting = [a.waiting EXCEPT ![l] = Tail(a.waiting[l])] /\ SameAlarm(a, b)
  /\ IF a.uxSchedulerSuspended = 0
     THEN /\ b.ready = a.ready \cup {h} /\ b.delayed = a.delayed \ {h}
          /\ b.overflow = a.overflow \ {h} /\ b.suspended = a.suspended \ {h}
          /\ b.pending = a.pending
     ELSE /\ b.ready = a.ready /\ b.delayed = a.delayed /\ b.overflow = a.overflow
          /\ b.suspended = a.suspended /\ b.pending = a.pending \cup {h}

\* xTaskRemoveFromEventList takes the first task out of the list, and makes it ready or keeps
\* it for xTaskResumeAll.
LEMMA RemoveFields ==
  ASSUME NEW a \in Kernel, NEW l \in Lists, a.waiting[l] # <<>>, NEW b,
         b = RemoveFromEventList(a, l).k, NEW h, h = Head(a.waiting[l])
  PROVE  Removed(a, b, l, h)
<1> DEFINE higher == a.uxPriority[h] > a.uxPriority[a.pxCurrentTCB]
           rest   == [a.waiting EXCEPT ![l] = Tail(a.waiting[l])]
           c      == [a EXCEPT !.waiting = rest]
           out    == [c EXCEPT !.xYieldPending = a.xYieldPending \/ higher]
<1>1. h \in Task
  BY HeadOfList
<1>2. rest \in [Lists -> Seq(Task)]
  BY HeadOfList, Fields
<1>3. out = [a EXCEPT !.waiting[l] = Tail(@), !.xYieldPending = @ \/ higher]
  BY DEF Kernel
<1>4. b = IF a.uxSchedulerSuspended = 0 THEN MakeReady(out, {h})
          ELSE [out EXCEPT !.pending = @ \cup {h}]
  BY <1>3 DEF RemoveFromEventList
<1> HIDE DEF rest
<1>5. c \in Kernel
  BY <1>2, FieldKept
<1>6. out \in Kernel
  <2>1. (a.xYieldPending \/ higher) \in BOOLEAN
    BY Fields
  <2> HIDE DEF c, higher
  <2> QED  BY <1>5, <2>1, FieldKept
<1>7. /\ SameTime(a, out) /\ SameRun(a, out) /\ out.waiting = rest /\ SameAlarm(a, out)
      /\ out.ready = a.ready /\ out.delayed = a.delayed /\ out.overflow = a.overflow
      /\ out.suspended = a.suspended /\ out.pending = a.pending
  BY DEF Kernel, SameTime, SameRun, SameAlarm
<1> HIDE DEF out
<1>8. CASE a.uxSchedulerSuspended = 0
  <2>1. b = MakeReady(out, {h})
    BY <1>4, <1>8
  <2>2. {h} \in SUBSET Task
    BY <1>1
  <2>3. /\ b \in Kernel /\ SameTime(out, b) /\ SameRun(out, b)
        /\ b.ready = out.ready \cup {h} /\ b.delayed = out.delayed \ {h} /\ b.overflow = out.overflow \ {h}
        /\ b.suspended = out.suspended \ {h} /\ b.pending = out.pending /\ b.waiting = out.waiting
        /\ SameAlarm(out, b)
    BY <1>6, <2>1, <2>2, MakeReadyFields
  <2> QED  BY <1>7, <1>8, <2>3 DEF SameTime, SameRun, SameAlarm, rest, Removed
<1>9. CASE a.uxSchedulerSuspended # 0
  <2>1. b = [out EXCEPT !.pending = out.pending \cup {h}]
    BY <1>4, <1>9
  <2>2. out.pending \cup {h} \in SUBSET Task
    BY <1>1, <1>6, Fields
  <2>3. b \in Kernel
    <3>1. \A x \in SUBSET Task : [out EXCEPT !.pending = x] \in Kernel
      BY <1>6, FieldKept
    <3> QED  BY <2>1, <2>2, <3>1
  <2>4. /\ SameTime(out, b) /\ SameRun(out, b)
        /\ b.ready = out.ready /\ b.delayed = out.delayed /\ b.overflow = out.overflow
        /\ b.suspended = out.suspended /\ b.pending = out.pending \cup {h} /\ b.waiting = out.waiting
        /\ SameAlarm(out, b)
    BY <1>6, <2>1 DEF Kernel, SameTime, SameRun, SameAlarm
  <2> QED  BY <1>7, <1>9, <2>3, <2>4 DEF SameTime, SameRun, SameAlarm, rest, Removed
<1> QED  BY <1>8, <1>9

\* The task that is woken waited, and was not awake; no other task's place changes.
LEMMA RemoveMoves ==
  ASSUME NEW a \in Kernel, Sound(a), NEW l \in Lists, a.waiting[l] # <<>>, NEW b,
         b = RemoveFromEventList(a, l).k, NEW h, h = Head(a.waiting[l])
  PROVE  /\ Moves(a, b)
         /\ h \in Task /\ Waits(a, h, l) /\ h \in Awoken(b) /\ h \notin Awoken(a)
<1>1. /\ h \in Task /\ Len(a.waiting[l]) \in Nat \ {0} /\ h = a.waiting[l][1]
      /\ Len(Tail(a.waiting[l])) = Len(a.waiting[l]) - 1
      /\ \A i \in 1..Len(a.waiting[l]) - 1 : Tail(a.waiting[l])[i] = a.waiting[l][i + 1]
  BY HeadOfList
<1>2. Removed(a, b, l, h)
  BY RemoveFields
<1>3. b.waiting[l] = Tail(a.waiting[l]) /\ \A m \in Lists : m # l => b.waiting[m] = a.waiting[m]
  BY <1>2, Fields DEF Removed
<1>4. Waits(a, h, l)
  BY <1>1 DEF Waits
<1>5. h \notin Awoken(a) /\ h \in Awoken(b)
  BY <1>1, <1>2, <1>4 DEF Sound, Awoken, Removed
<1>6. ASSUME NEW t \in Task, NEW m \in Lists, Waits(b, t, m) PROVE Waits(a, t, m) /\ t # h
  <2>1. CASE m # l
    <3>1. Waits(a, t, m)
      BY <1>3, <1>6, <2>1 DEF Waits
    <3> QED  BY <1>1, <1>4, <2>1, <3>1 DEF Sound
  <2>2. CASE m = l
    <3>1. PICK i \in 1..Len(a.waiting[l]) - 1 : a.waiting[l][i + 1] = t
      <4>1. \E i \in 1..Len(a.waiting[l]) - 1 : Tail(a.waiting[l])[i] = t
        BY <1>1, <1>3, <1>6, <2>2 DEF Waits
      <4> QED  BY <1>1, <4>1
    <3>2. i + 1 \in 1..Len(a.waiting[l]) /\ i + 1 # 1 /\ 1 \in 1..Len(a.waiting[l])
      BY <1>1
    <3>3. t # h
      BY <1>1, <3>1, <3>2 DEF Sound
    <3> QED  BY <2>2, <3>1, <3>2, <3>3 DEF Waits
  <2> QED  BY <2>1, <2>2
<1>7. ASSUME NEW m \in Lists PROVE \A i, j \in 1..Len(b.waiting[m]) : b.waiting[m][i] = b.waiting[m][j] => i = j
  <2>1. CASE m # l
    BY <1>3, <2>1 DEF Sound
  <2>2. CASE m = l
    <3>1. ASSUME NEW i \in 1..Len(a.waiting[l]) - 1, NEW j \in 1..Len(a.waiting[l]) - 1,
                 a.waiting[l][i + 1] = a.waiting[l][j + 1]
          PROVE  i = j
      <4>1. i + 1 \in 1..Len(a.waiting[l]) /\ j + 1 \in 1..Len(a.waiting[l])
        BY <1>1
      <4>2. i + 1 = j + 1
        BY <3>1, <4>1 DEF Sound
      <4> QED  BY <1>1, <4>2
    <3> DEFINE s == Tail(a.waiting[l])
    <3>2. Len(s) = Len(a.waiting[l]) - 1 /\ b.waiting[m] = s
      BY <1>1, <1>3, <2>2
    <3>3. \A i \in 1..Len(s) : s[i] = a.waiting[l][i + 1]
      BY <1>1
    <3> HIDE DEF s
    <3>4. \A i, j \in 1..Len(s) : s[i] = s[j] => i = j
      BY <3>1, <3>2, <3>3
    <3> QED  BY <3>2, <3>4
  <2> QED  BY <2>1, <2>2
<1>8. Awoken(b) = Awoken(a) \cup {h} /\ a.ready \subseteq b.ready
  BY <1>2 DEF Awoken, Removed
<1>9. Sound(b)
  <2>1. /\ b.ready \cup b.delayed \cup b.overflow \cup b.suspended = Task
        /\ b.ready \cap (b.delayed \cup b.overflow \cup b.suspended) = {}
        /\ b.delayed \cap (b.overflow \cup b.suspended) = {} /\ b.overflow \cap b.suspended = {}
        /\ b.pending \cap b.ready = {}
    BY <1>1, <1>2, <1>5 DEF Sound, Awoken, Removed
  <2>2. ASSUME NEW t \in Task, NEW m \in Lists, Waits(b, t, m)
        PROVE  t \notin Awoken(b) /\ \A n \in Lists : Waits(b, t, n) => n = m
    <3>1. Waits(a, t, m) /\ t # h
      BY <1>6, <2>2
    <3>2. t \notin Awoken(a) /\ \A n \in Lists : Waits(a, t, n) => n = m
      BY <3>1 DEF Sound
    <3> QED  BY <1>6, <1>8, <3>1, <3>2
  <2> QED  BY <1>7, <2>1, <2>2 DEF Sound
<1> QED  BY <1>1, <1>2, <1>4, <1>5, <1>6, <1>8, <1>9 DEF Moves, SameRun, Removed

\* What is woken stays awake.
LEMMA MovesSelf ==
  ASSUME NEW a \in Kernel, Sound(a)
  PROVE  Moves(a, a) /\ SameTime(a, a) /\ SameRun(a, a)
BY DEF Moves, SameTime, SameRun

LEMMA MovesOn ==
  ASSUME NEW a, NEW b, NEW c, Moves(a, b), Moves(b, c)
  PROVE  Moves(a, c)
BY DEF Moves

LEMMA QuietOn ==
  ASSUME NEW a, NEW b, NEW c, Quiet(a, b), Quiet(b, c)
  PROVE  Quiet(a, c)
BY DEF Quiet, SameTime, SameAlarm

\* A task h that waited in a list is awake.
Woken(a, b, l, h) == h \in Task /\ Waits(a, h, l) /\ h \in Awoken(b) /\ h \notin Awoken(a)

\* The first task of a list is woken, if there is one; what comes while the scheduler is not
\* suspended is not kept.
LEMMA WakeMoves ==
  ASSUME NEW a \in Kernel, Sound(a), NEW l \in Lists, NEW x, NEW b, b = Wake(a, l, x).k
  PROVE  /\ Moves(a, b) /\ Quiet(a, b) /\ SameRun(a, b)
         /\ a.waiting[l] = <<>> => b = a
         /\ a.waiting[l] # <<>> => \E h \in Task : Woken(a, b, l, h)
         /\ a.uxSchedulerSuspended = 0 => b.pending = a.pending
<1>1. CASE a.waiting[l] = <<>>
  BY <1>1, MovesSelf DEF Wake, Quiet, SameAlarm
<1>2. CASE a.waiting[l] # <<>>
  <2>1. b = RemoveFromEventList(a, l).k
    BY <1>2 DEF Wake
  <2>2. PICK h : h = Head(a.waiting[l])
    OBVIOUS
  <2>3. Removed(a, b, l, h) /\ Moves(a, b) /\ Woken(a, b, l, h)
    BY <1>2, <2>1, <2>2, RemoveFields, RemoveMoves DEF Woken
  <2>4. Quiet(a, b)
    BY <2>3 DEF Removed, Quiet
  <2> QED  BY <1>2, <2>3, <2>4 DEF Removed, Woken
<1> QED  BY <1>1, <1>2

\* Waking is defined on every state of the scheduler.
LEMMA WakeType ==
  ASSUME NEW a \in Kernel, NEW l \in Lists, NEW x
  PROVE  Wake(a, l, x).k \in Kernel
<1>1. CASE a.waiting[l] = <<>>
  BY <1>1 DEF Wake
<1>2. CASE a.waiting[l] # <<>>
  <2>1. PICK b : b = RemoveFromEventList(a, l).k
    OBVIOUS
  <2>2. PICK h : h = Head(a.waiting[l])
    OBVIOUS
  <2>3. Removed(a, b, l, h)
    BY <1>2, <2>1, <2>2, RemoveFields
  <2> QED  BY <1>2, <2>1, <2>3 DEF Wake, Removed
<1> QED  BY <1>1, <1>2

\* What prvUnlockQueue reaches by waking i tasks of a list: their number tells the list that is
\* not empty.
WakesTo(a, b, l, i) ==
  /\ Moves(a, b) /\ Quiet(a, b) /\ SameRun(a, b)
  /\ \E W \in SUBSET Task : /\ \A h \in W : Woken(a, b, l, h)
                            /\ b.waiting[l] # <<>> => Cardinality(W) = i

\* One more task.
LEMMA WakeOneMore ==
  ASSUME NEW a \in Kernel, NEW b \in Kernel, NEW l \in Lists, NEW i \in Nat, WakesTo(a, b, l, i),
         NEW c, c = Wake(b, l, FALSE).k
  PROVE  WakesTo(a, c, l, i + 1)
<1>1. Moves(a, b) /\ Quiet(a, b) /\ SameRun(a, b) /\ Sound(b)
  BY DEF WakesTo, Moves
<1>2. /\ Moves(b, c) /\ Quiet(b, c) /\ SameRun(b, c)
      /\ b.waiting[l] = <<>> => c = b
      /\ b.waiting[l] # <<>> => \E h \in Task : Woken(b, c, l, h)
  BY <1>1, WakeMoves
<1>3. Moves(a, c) /\ Quiet(a, c) /\ SameRun(a, c)
  <2>1. Moves(a, c) /\ Quiet(a, c)
    BY <1>1, <1>2, MovesOn, QuietOn
  <2> QED  BY <1>1, <1>2, <2>1 DEF SameRun
<1>4. PICK W \in SUBSET Task : /\ \A h \in W : Woken(a, b, l, h)
                               /\ b.waiting[l] # <<>> => Cardinality(W) = i
  BY DEF WakesTo
<1>5. CASE b.waiting[l] = <<>>
  BY <1>2, <1>3, <1>4, <1>5 DEF WakesTo
<1>6. CASE b.waiting[l] # <<>>
  <2>1. PICK h \in Task : Woken(b, c, l, h)
    BY <1>2, <1>6
  <2>2. h \notin W
    BY <1>4, <2>1 DEF Woken
  <2>3. IsFiniteSet(W)
    BY FS_Subset, TaskAssumption
  <2>4. Cardinality(W \cup {h}) = i + 1
    BY <1>4, <1>6, <2>2, <2>3, FS_AddElement
  <2>5. ASSUME NEW g \in W \cup {h} PROVE Woken(a, c, l, g)
    <3>1. CASE g \in W
      BY <1>2, <1>4, <3>1 DEF Woken, Moves
    <3>2. CASE g = h
      BY <1>1, <2>1, <3>2 DEF Woken, Moves
    <3> QED  BY <3>1, <3>2
  <2>6. W \cup {h} \in SUBSET Task
    BY <2>1
  <2> QED  BY <1>3, <2>4, <2>5, <2>6 DEF WakesTo
<1> QED  BY <1>5, <1>6

\* One half of prvUnlockQueue wakes as many tasks as items were moved, if so many wait.
LEMMA WakeSomeMoves ==
  ASSUME k \in Kernel, Sound(k), NEW l \in Lists, NEW n, NEW m \in Nat, m = Locked(n), NEW b, b = WakeSome(l, n)
  PROVE  WakesTo(k, b, l, m)
<1> DEFINE R(f) == f = [i \in 0..m |-> IF i = 0 THEN k ELSE Wake(f[i - 1], l, FALSE).k]
           wake == CHOOSE f : R(f)
           one  == [x \in Kernel |-> Wake(x, l, FALSE).k]
           step == [i \in 1..m |-> one]
<1>1. b = wake[m]
  BY DEF WakeSome
<1>2. \E f : R(f)
  <2>1. \A x \in Kernel : one[x] \in Kernel /\ one[x] = Wake(x, l, FALSE).k
    BY WakeType
  <2>2. one \in [Kernel -> Kernel]
    BY <2>1
  <2> HIDE DEF one
  <2>3. step \in [1..m -> [Kernel -> Kernel]] /\ \A i \in 1..m : step[i] = one
    BY <2>2
  <2> HIDE DEF step
  <2>4. PICK f \in [0..m -> Kernel] : f[0] = k /\ \A i \in 1..m : f[i] = step[i][f[i - 1]]
    <3>1. Stepped(m, Kernel, k, step)
      BY <2>3, Steps
    <3> QED  BY <3>1 DEF Stepped
  <2>5. ASSUME NEW i \in 1..m PROVE f[i] = Wake(f[i - 1], l, FALSE).k
    <3>1. i - 1 \in 0..m
      OBVIOUS
    <3>2. f[i - 1] \in Kernel
      BY <2>4, <3>1
    <3> QED  BY <2>1, <2>3, <2>4, <3>2
  <2>6. ASSUME NEW i \in 0..m PROVE f[i] = IF i = 0 THEN k ELSE Wake(f[i - 1], l, FALSE).k
    <3>1. i # 0 => i \in 1..m
      OBVIOUS
    <3> QED  BY <2>4, <2>5, <3>1
  <2>7. f = [i \in 0..m |-> f[i]]
    BY <2>4
  <2>8. R(f)
    BY <2>6, <2>7
  <2> QED  BY <2>8
<1>3. R(wake)
  BY <1>2
<1> HIDE DEF wake, step, one
<1>4. ASSUME NEW i \in 0..m PROVE wake[i] = IF i = 0 THEN k ELSE Wake(wake[i - 1], l, FALSE).k
  BY <1>3
<1>5. wake[0] = k /\ \A i \in 1..m : wake[i] = Wake(wake[i - 1], l, FALSE).k
  <2>1. 0 \in 0..m /\ \A i \in 1..m : i \in 0..m /\ i # 0
    OBVIOUS
  <2> QED  BY <1>4, <2>1
<1> DEFINE T == {i \in Nat : wake[i] \in Kernel /\ WakesTo(k, wake[i], l, i)}
<1>6. 0 \in T
  <2>1. Moves(k, k) /\ Quiet(k, k) /\ SameRun(k, k)
    BY MovesSelf DEF Quiet, SameAlarm
  <2>2. {} \in SUBSET Task /\ Cardinality({}) = 0
    BY FS_EmptySet
  <2>3. WakesTo(k, k, l, 0)
    BY <2>1, <2>2 DEF WakesTo
  <2> QED  BY <1>5, <2>3
<1>7. ASSUME NEW i \in 1..m, i - 1 \in T PROVE i \in T
  <2>1. wake[i - 1] \in Kernel /\ WakesTo(k, wake[i - 1], l, i - 1) /\ i - 1 \in Nat /\ (i - 1) + 1 = i
    BY <1>7
  <2>2. wake[i] = Wake(wake[i - 1], l, FALSE).k
    BY <1>5
  <2>3. WakesTo(k, wake[i], l, (i - 1) + 1)
    BY <2>1, <2>2, WakeOneMore
  <2>4. wake[i] \in Kernel
    BY <2>3 DEF WakesTo, Moves
  <2> QED  BY <2>1, <2>3, <2>4
<1>8. m \in T
  <2> HIDE DEF T
  <2>1. \A i \in 0..m : i \in T
    BY <1>6, <1>7, UpTo
  <2> QED  BY <2>1
<1> QED  BY <1>1, <1>8

\* What is left of a list are tasks of it that do not go, each as often as before.
Left(s, S, r, i) ==
  /\ r \in Seq(Task)
  /\ \A j \in 1..Len(r) : \E p \in 1..i : r[j] = s[p] /\ s[p] \notin S
  /\ (\A p, q \in 1..Len(s) : s[p] = s[q] => p = q) => \A p, q \in 1..Len(r) : r[p] = r[q] => p = q

\* One more task of the list.
LEMMA LeftOneMore ==
  ASSUME NEW s \in Seq(Task), NEW S, NEW i \in 1..Len(s), NEW r, Left(s, S, r, i - 1), NEW t,
         t = IF s[i] \in S THEN r ELSE Append(r, s[i])
  PROVE  Left(s, S, t, i)
<1>1. r \in Seq(Task) /\ Len(r) \in Nat /\ Len(s) \in Nat /\ s[i] \in Task
  BY LenProperties DEF Left
<1>2. ASSUME NEW j \in 1..Len(r) PROVE \E p \in 1..i - 1 : r[j] = s[p] /\ s[p] \notin S
  BY DEF Left
<1>3. CASE s[i] \in S
  <2>1. t = r
    BY <1>3
  <2>2. 1..i - 1 \subseteq 1..i
    BY <1>1
  <2> QED  BY <1>1, <1>2, <2>1, <2>2 DEF Left
<1>4. CASE s[i] \notin S
  <2>1. /\ t \in Seq(Task) /\ Len(t) = Len(r) + 1 /\ t[Len(r) + 1] = s[i]
        /\ \A j \in 1..Len(r) : t[j] = r[j]
    BY <1>1, <1>4, AppendProperties
  <2>2. ASSUME NEW j \in 1..Len(t) PROVE \E p \in 1..i : t[j] = s[p] /\ s[p] \notin S
    <3>1. CASE j = Len(r) + 1
      BY <1>4, <2>1, <3>1
    <3>2. CASE j # Len(r) + 1
      <4>1. j \in 1..Len(r)
        BY <1>1, <2>1, <3>2
      <4> QED  BY <1>2, <2>1, <4>1
    <3> QED  BY <3>1, <3>2
  <2>3. ASSUME \A p, q \in 1..Len(s) : s[p] = s[q] => p = q,
               NEW p \in 1..Len(t), NEW q \in 1..Len(t), t[p] = t[q]
        PROVE  p = q
    <3>1. ASSUME NEW j \in 1..Len(r) PROVE r[j] # s[i]
      <4>1. PICK o \in 1..i - 1 : r[j] = s[o]
        BY <1>2
      <4>2. o \in 1..Len(s) /\ o # i
        BY <1>1
      <4> QED  BY <2>3, <4>1, <4>2
    <3>2. \A x, y \in 1..Len(r) : r[x] = r[y] => x = y
      BY <2>3 DEF Left
    <3>3. (p \in 1..Len(r) \/ p = Len(r) + 1) /\ (q \in 1..Len(r) \/ q = Len(r) + 1)
      BY <1>1, <2>1
    <3> QED  BY <2>1, <2>3, <3>1, <3>2, <3>3
  <2> QED  BY <2>1, <2>2, <2>3 DEF Left
<1> QED  BY <1>3, <1>4

LEMMA WithoutLeft ==
  ASSUME NEW s \in Seq(Task), NEW S, NEW r, r = Without(s, S), NEW m \in Nat, m = Len(s)
  PROVE  Left(s, S, r, m)
<1> DEFINE R(f) == f = [i \in 0..m |-> IF i = 0 THEN <<>>
                                       ELSE IF s[i] \in S THEN f[i - 1] ELSE Append(f[i - 1], s[i])]
           left == CHOOSE f : R(f)
           next == [i \in 1..m |-> [x \in Seq(Task) |-> IF s[i] \in S THEN x ELSE Append(x, s[i])]]
<1>1. r = left[m]
  BY DEF Without
<1>2. m \in Nat /\ \A i \in 1..m : s[i] \in Task
  BY LenProperties
<1>3. \E f : R(f)
  <2>1. ASSUME NEW i \in 1..m, NEW x \in Seq(Task)
        PROVE  /\ (IF s[i] \in S THEN x ELSE Append(x, s[i])) \in Seq(Task)
               /\ next[i][x] = IF s[i] \in S THEN x ELSE Append(x, s[i])
    BY <1>2, AppendProperties
  <2>2. next \in [1..m -> [Seq(Task) -> Seq(Task)]]
    BY <2>1
  <2> HIDE DEF next
  <2>3. <<>> \in Seq(Task)
    BY EmptySeq
  <2>4. PICK f \in [0..m -> Seq(Task)] : f[0] = <<>> /\ \A i \in 1..m : f[i] = next[i][f[i - 1]]
    <3> DEFINE V == Seq(Task)
               first == <<>>
    <3>1. first \in V /\ next \in [1..m -> [V -> V]]
      BY <2>2, <2>3
    <3> HIDE DEF V, first
    <3>2. Stepped(m, V, first, next)
      BY <3>1, Steps
    <3> QED  BY <3>2 DEF Stepped, V, first
  <2>5. ASSUME NEW i \in 1..m PROVE f[i] = IF s[i] \in S THEN f[i - 1] ELSE Append(f[i - 1], s[i])
    <3>1. i - 1 \in 0..m
      BY <1>2
    <3>2. f[i - 1] \in Seq(Task)
      BY <2>4, <3>1
    <3> QED  BY <2>1, <2>4, <3>2
  <2>6. ASSUME NEW i \in 0..m
        PROVE  f[i] = IF i = 0 THEN <<>>
                      ELSE IF s[i] \in S THEN f[i - 1] ELSE Append(f[i - 1], s[i])
    <3>1. i # 0 => i \in 1..m
      BY <1>2
    <3> QED  BY <2>4, <2>5, <3>1
  <2>7. f = [i \in 0..m |-> f[i]]
    BY <2>4
  <2>8. R(f)
    BY <2>6, <2>7
  <2> QED  BY <2>8
<1>4. R(left)
  BY <1>3
<1> HIDE DEF left, next
<1>5. ASSUME NEW i \in 0..m
      PROVE  left[i] = IF i = 0 THEN <<>>
                       ELSE IF s[i] \in S THEN left[i - 1] ELSE Append(left[i - 1], s[i])
  BY <1>4
<1>6. /\ left[0] = <<>>
      /\ \A i \in 1..m : left[i] = IF s[i] \in S THEN left[i - 1] ELSE Append(left[i - 1], s[i])
  <2>1. 0 \in 0..m /\ \A i \in 1..m : i \in 0..m /\ i # 0
    BY <1>2
  <2> QED  BY <1>5, <2>1
<1> DEFINE T == {i \in Nat : Left(s, S, left[i], i)}
<1>7. 0 \in T
  <2>1. <<>> \in Seq(Task) /\ Len(<<>>) = 0
    BY EmptySeq
  <2>2. Left(s, S, <<>>, 0)
    BY <2>1 DEF Left
  <2> QED  BY <1>6, <2>2
<1>8. ASSUME NEW i \in 1..m, i - 1 \in T PROVE i \in T
  <2>1. i \in 1..Len(s) /\ i \in Nat
    BY <1>2
  <2>2. Left(s, S, left[i - 1], i - 1)
    BY <1>8
  <2>3. left[i] = IF s[i] \in S THEN left[i - 1] ELSE Append(left[i - 1], s[i])
    BY <1>6
  <2>4. Left(s, S, left[i], i)
    BY <2>1, <2>2, <2>3, LeftOneMore
  <2> QED  BY <2>1, <2>4
<1>9. m \in T
  <2> HIDE DEF T
  <2>1. \A i \in 0..m : i \in T
    BY <1>2, <1>7, <1>8, UpTo
  <2> QED  BY <1>2, <2>1
<1> QED  BY <1>1, <1>9

-----------------------------------------------------------------------------
(* Ticks. *)

\* The tasks of S, whose time has come, have left their lists.
Expired(a, b, S) ==
  /\ \A t \in a.delayed : a.wake[t] <= a.xTickCount => t \in S
  /\ \A t \in b.delayed : b.xNextTaskUnblockTime <= b.wake[t]
  /\ b \in Kernel /\ SameTime(a, b) /\ SameRun(a, b) /\ b.pending = a.pending /\ b.wake = a.wake
  /\ S \subseteq a.delayed /\ b.ready = a.ready \cup S /\ b.delayed = a.delayed \ S
  /\ b.overflow = a.overflow \ S /\ b.suspended = a.suspended \ S
  /\ \A l \in Lists : b.waiting[l] = Without(a.waiting[l], S)

LEMMA ExpireFields ==
  ASSUME NEW a \in Kernel, NEW b, b = Expire(a)
  PROVE  \/ b = a /\ a.xTickCount < a.xNextTaskUnblockTime
         \/ \E S \in SUBSET Task : Expired(a, b, S)
<1> DEFINE due  == {t \in a.delayed : a.wake[t] <= a.xTickCount}
           rest == [l \in Lists |-> Without(a.waiting[l], due)]
<1>1. PICK c : c = MakeReady(a, due)
  OBVIOUS
<1>2. /\ due \in SUBSET Task /\ due \subseteq a.delayed /\ DOMAIN a.waiting = Lists
      /\ \A t \in a.delayed : a.wake[t] <= a.xTickCount => t \in due
  BY Fields
<1>3. a.xTickCount < a.xNextTaskUnblockTime => b = a
  BY DEF Expire
<1>4. ~ (a.xTickCount < a.xNextTaskUnblockTime) =>
        b = ResetNextTaskUnblockTime([c EXCEPT !.waiting = [l \in DOMAIN @ |-> Without(@[l], due)]])
  BY <1>1 DEF Expire
<1> HIDE DEF due
<1>5. /\ c \in Kernel /\ SameTime(a, c) /\ SameRun(a, c)
      /\ c.ready = a.ready \cup due /\ c.delayed = a.delayed \ due /\ c.overflow = a.overflow \ due
      /\ c.suspended = a.suspended \ due /\ c.pending = a.pending /\ c.waiting = a.waiting
      /\ c.wake = a.wake
  BY <1>1, <1>2, MakeReadyFields DEF SameAlarm
<1>6. rest \in [Lists -> Seq(Task)]
  <2>1. ASSUME NEW l \in Lists PROVE Without(a.waiting[l], due) \in Seq(Task)
    <3>1. a.waiting[l] \in Seq(Task)
      BY Fields
    <3>2. PICK s \in Seq(Task) : s = a.waiting[l]
      BY <3>1
    <3>3. Len(s) \in Nat
      BY <3>2, LenProperties
    <3>4. PICK m \in Nat : m = Len(s)
      BY <3>3
    <3>5. PICK r : r = Without(s, due)
      OBVIOUS
    <3>6. Left(s, due, r, m)
      BY <3>2, <3>4, <3>5, WithoutLeft
    <3> QED  BY <3>2, <3>5, <3>6 DEF Left
  <2> QED  BY <2>1
<1>7. PICK d : d = [c EXCEPT !.waiting = rest]
  OBVIOUS
<1>8. d \in Kernel
  BY <1>5, <1>6, <1>7, FieldKept
<1>9. /\ SameTime(c, d) /\ SameRun(c, d) /\ d.ready = c.ready /\ d.delayed = c.delayed
      /\ d.overflow = c.overflow /\ d.suspended = c.suspended /\ d.pending = c.pending
      /\ d.wake = c.wake /\ d.waiting = rest
  BY <1>5, <1>7 DEF Kernel, SameTime, SameRun
<1>10. d = [c EXCEPT !.waiting = [l \in DOMAIN @ |-> Without(@[l], due)]]
  BY <1>2, <1>5, <1>7
<1>11. CASE ~ (a.xTickCount < a.xNextTaskUnblockTime)
  <2>1. b = ResetNextTaskUnblockTime(d)
    BY <1>4, <1>10, <1>11
  <2>2. /\ b \in Kernel /\ SameTime(d, b) /\ SameRun(d, b) /\ SameLists(d, b) /\ b.wake = d.wake
        /\ \A t \in d.delayed : b.xNextTaskUnblockTime <= b.wake[t]
    BY <1>8, <2>1, ResetFields
  <2>3. Expired(a, b, due)
    BY <1>2, <1>5, <1>9, <2>2 DEF Expired, SameTime, SameRun, SameLists
  <2> QED  BY <1>2, <2>3
<1> QED  BY <1>3, <1>11

\* Tasks whose time has come are awake; none of them was to be made ready yet.
LEMMA ExpireMoves ==
  ASSUME NEW a \in Kernel, Sound(a), a.pending = {}, NEW b, b = Expire(a)
  PROVE  /\ Moves(a, b) /\ SameTime(a, b) /\ b.uxSchedulerSuspended = a.uxSchedulerSuspended
         /\ b.pending = {}
<1>1. CASE b = a
  BY <1>1, MovesSelf
<1>2. ASSUME NEW S \in SUBSET Task, Expired(a, b, S)
      PROVE  /\ Moves(a, b) /\ SameTime(a, b) /\ b.uxSchedulerSuspended = a.uxSchedulerSuspended
             /\ b.pending = {}
  <2>1. ASSUME NEW l \in Lists
        PROVE  /\ \A t \in Task : Waits(b, t, l) => Waits(a, t, l) /\ t \notin S
               /\ \A i, j \in 1..Len(b.waiting[l]) : b.waiting[l][i] = b.waiting[l][j] => i = j
    <3>1. a.waiting[l] \in Seq(Task)
      BY Fields
    <3>2. PICK s \in Seq(Task) : s = a.waiting[l]
      BY <3>1
    <3>3. Len(s) \in Nat
      BY <3>2, LenProperties
    <3>4. PICK m \in Nat : m = Len(s)
      BY <3>3
    <3>5. PICK r : r = Without(s, S)
      OBVIOUS
    <3>6. Left(s, S, r, m)
      BY <3>2, <3>4, <3>5, WithoutLeft
    <3>7. b.waiting[l] = r
      BY <1>2, <3>2, <3>5 DEF Expired
    <3>8. \A i, j \in 1..Len(s) : s[i] = s[j] => i = j
      BY <3>2 DEF Sound
    <3>9. \A i, j \in 1..Len(r) : r[i] = r[j] => i = j
      BY <3>6, <3>8 DEF Left
    <3>10. ASSUME NEW t \in Task, Waits(b, t, l) PROVE Waits(a, t, l) /\ t \notin S
      <4>1. PICK j \in 1..Len(r) : r[j] = t
        BY <3>7, <3>10 DEF Waits
      <4>2. PICK p \in 1..m : r[j] = s[p] /\ s[p] \notin S
        BY <3>6, <4>1 DEF Left
      <4> QED  BY <3>2, <3>4, <4>1, <4>2 DEF Waits
    <3> QED  BY <3>7, <3>9, <3>10
  <2>2. Awoken(b) = Awoken(a) \cup S
    BY <1>2 DEF Awoken, Expired
  <2>3. Sound(b)
    <3>1. /\ b.ready \cup b.delayed \cup b.overflow \cup b.suspended = Task
          /\ b.ready \cap (b.delayed \cup b.overflow \cup b.suspended) = {}
          /\ b.delayed \cap (b.overflow \cup b.suspended) = {} /\ b.overflow \cap b.suspended = {}
          /\ b.pending \cap b.ready = {}
      BY <1>2 DEF Sound, Expired
    <3>2. ASSUME NEW t \in Task, NEW l \in Lists, Waits(b, t, l)
          PROVE  t \notin Awoken(b) /\ \A n \in Lists : Waits(b, t, n) => n = l
      <4>1. Waits(a, t, l) /\ t \notin S
        BY <2>1, <3>2
      <4>2. t \notin Awoken(a) /\ \A n \in Lists : Waits(a, t, n) => n = l
        BY <4>1 DEF Sound
      <4> QED  BY <2>1, <2>2, <4>1, <4>2
    <3> QED  BY <2>1, <3>1, <3>2 DEF Sound
  <2> QED  BY <1>2, <2>1, <2>2, <2>3 DEF Moves, Expired, SameRun
<1> QED  BY <1>1, <1>2, ExpireFields

\* The ticks that the scheduler has counted, over every wrap of its count.
Clock(a) == a.xNumOfOverflows * TickMod + a.xTickCount

\* The tasks that sleep for a limited time, and the count at which the time of one is over.
Asleep(a)   == a.delayed \cup a.overflow
DueAt(a, t) == (IF t \in a.overflow THEN a.xNumOfOverflows + 1 ELSE a.xNumOfOverflows) * TickMod
                 + a.wake[t]

\* The time of no task in the delayed list is over, and the tick that ends it will be noticed.
\* Until the tasks whose time a tick ends are awake, it may be over now.
Alarmed(a) == \A t \in a.delayed : a.xTickCount < a.wake[t] /\ a.xNextTaskUnblockTime <= a.wake[t]
Ringing(a) == \A t \in a.delayed : a.xTickCount <= a.wake[t] /\ a.xNextTaskUnblockTime <= a.wake[t]

\* No task is put to sleep, and the time of those that still sleep is over when it was to be.
Undisturbed(a, b) == \A t \in Asleep(b) : t \in Asleep(a) /\ DueAt(b, t) = DueAt(a, t)
Rests(a, b)       == Alarmed(a) => Alarmed(b) /\ Undisturbed(a, b)
Rings(a, b)       == Alarmed(a) => Ringing(b) /\ Undisturbed(a, b)

LEMMA RestsOn ==
  ASSUME NEW a, NEW b, NEW c, Rests(a, b), Rests(b, c)
  PROVE  Rests(a, c)
BY DEF Rests, Undisturbed

\* While no time passes and no task is put off, alarms are kept.
LEMMA QuietRests ==
  ASSUME NEW a, NEW b, Sound(a), Quiet(a, b)
  PROVE  Rests(a, b)
<1>1. ASSUME Alarmed(a) PROVE Alarmed(b)
  BY <1>1 DEF Quiet, SameTime, SameAlarm, Alarmed
<1>2. ASSUME NEW t \in Asleep(b) PROVE t \in Asleep(a) /\ (t \in b.overflow <=> t \in a.overflow)
  BY <1>2 DEF Quiet, Asleep, Sound
<1>3. Undisturbed(a, b)
  BY <1>2 DEF Quiet, SameTime, SameAlarm, DueAt, Undisturbed
<1> QED  BY <1>1, <1>3 DEF Rests

\* xTaskIncrementTick notices every task whose time is over.
LEMMA ExpireRests ==
  ASSUME NEW a \in Kernel, Sound(a), Ringing(a), NEW b, b = Expire(a)
  PROVE  Alarmed(b) /\ Undisturbed(a, b)
<1>1. /\ a.xTickCount \in Int /\ a.xNextTaskUnblockTime \in Int
      /\ \A t \in a.delayed : a.wake[t] \in Int
  BY Fields, TickAssumption DEF portMAX_DELAY
<1>2. CASE b = a /\ a.xTickCount < a.xNextTaskUnblockTime
  BY <1>1, <1>2 DEF Ringing, Alarmed, Undisturbed
<1>3. ASSUME NEW S \in SUBSET Task, Expired(a, b, S) PROVE Alarmed(b) /\ Undisturbed(a, b)
  <2>1. /\ SameTime(a, b) /\ b.wake = a.wake /\ b.delayed = a.delayed \ S
        /\ b.overflow = a.overflow \ S
    BY <1>3 DEF Expired
  <2>2. Alarmed(b)
    BY <1>1, <1>3, <2>1 DEF Expired, SameTime, Alarmed
  <2>3. ASSUME NEW t \in Asleep(b) PROVE t \in Asleep(a) /\ (t \in b.overflow <=> t \in a.overflow)
    BY <2>1, <2>3 DEF Asleep
  <2>4. Undisturbed(a, b)
    BY <2>1, <2>3 DEF SameTime, DueAt, Undisturbed
  <2> QED  BY <2>2, <2>4
<1> QED  BY <1>2, <1>3, ExpireFields

LEMMA NextCount ==
  ASSUME NEW x \in 0..TickMod - 1
  PROVE  /\ (x + 1) % TickMod = IF x + 1 = TickMod THEN 0 ELSE x + 1
         /\ (x + 1) % TickMod \in 0..TickMod - 1
<1>1. TickMod \in Nat \ {0, 1}
  BY TickAssumption
<1>2. CASE x + 1 = TickMod
  BY <1>1, <1>2
<1>3. CASE x + 1 # TickMod
  BY <1>1, <1>3
<1> QED  BY <1>2, <1>3

\* taskSWITCH_DELAYED_LISTS
LEMMA SwitchFields ==
  ASSUME NEW a \in Kernel, NEW b, b = SwitchDelayedLists(a)
  PROVE  /\ b \in Kernel /\ SameRun(a, b) /\ b.xTickCount = a.xTickCount
         /\ b.uxPendedTicks = a.uxPendedTicks /\ b.xNumOfOverflows = a.xNumOfOverflows + 1
         /\ b.ready = a.ready /\ b.pending = a.pending /\ b.suspended = a.suspended
         /\ b.waiting = a.waiting /\ b.delayed = a.overflow /\ b.overflow = a.delayed
         /\ b.wake = a.wake /\ \A t \in b.delayed : b.xNextTaskUnblockTime <= b.wake[t]
<1> DEFINE c == [a EXCEPT !.delayed = a.overflow]
           d == [c EXCEPT !.overflow = a.delayed]
           e == [d EXCEPT !.xNumOfOverflows = a.xNumOfOverflows + 1]
<1>1. b = ResetNextTaskUnblockTime(e)
  BY DEF SwitchDelayedLists, Kernel
<1>2. /\ a.overflow \in SUBSET Task /\ a.delayed \in SUBSET Task /\ a.xNumOfOverflows + 1 \in Nat
  BY Fields
<1>3. c \in Kernel
  BY <1>2, FieldKept
<1>4. d \in Kernel
  <2> HIDE DEF c
  <2> QED  BY <1>2, <1>3, FieldKept
<1>5. e \in Kernel
  <2> HIDE DEF d
  <2> QED  BY <1>2, <1>4, FieldKept
<1>6. /\ SameRun(a, e) /\ e.xTickCount = a.xTickCount /\ e.uxPendedTicks = a.uxPendedTicks
      /\ e.xNumOfOverflows = a.xNumOfOverflows + 1
      /\ e.ready = a.ready /\ e.pending = a.pending /\ e.suspended = a.suspended
      /\ e.waiting = a.waiting /\ e.delayed = a.overflow /\ e.overflow = a.delayed
      /\ e.wake = a.wake
  BY DEF Kernel, SameRun
<1> HIDE DEF e
<1>7. /\ b \in Kernel /\ SameTime(e, b) /\ SameRun(e, b) /\ SameLists(e, b) /\ b.wake = e.wake
      /\ \A t \in e.delayed : b.xNextTaskUnblockTime <= b.wake[t]
  BY <1>1, <1>5, ResetFields
<1> QED  BY <1>6, <1>7 DEF SameTime, SameRun, SameLists

\* The state between the count and the tasks whose time has come.
Counted(a, b) ==
  /\ b \in Kernel /\ SameRun(a, b) /\ b.uxPendedTicks = a.uxPendedTicks /\ Clock(b) = Clock(a) + 1
  /\ b.ready = a.ready /\ b.pending = a.pending /\ b.suspended = a.suspended
  /\ b.waiting = a.waiting /\ b.wake = a.wake
  /\ \/ b.delayed = a.delayed /\ b.overflow = a.overflow
     \/ b.delayed = a.overflow /\ b.overflow = a.delayed
  /\ Rings(a, b)

LEMMA CountFields ==
  ASSUME NEW a \in Kernel, NEW b, b = IncrementTick(a).k
  PROVE  IF a.uxSchedulerSuspended = 0 THEN \E c : Counted(a, c) /\ b = Expire(c)
         ELSE b = [a EXCEPT !.uxPendedTicks = a.uxPendedTicks + 1]
<1> DEFINE n    == (a.xTickCount + 1) % TickMod
           tick == [a EXCEPT !.xTickCount = n]
           c    == IF n = 0 THEN SwitchDelayedLists(tick) ELSE tick
<1>1. /\ n = IF a.xTickCount + 1 = TickMod THEN 0 ELSE a.xTickCount + 1
      /\ n \in 0..TickMod - 1
  BY Fields, NextCount
<1>2. a.xTickCount \in Nat /\ a.xNumOfOverflows \in Nat /\ TickMod \in Nat /\ TickMod # 0
  BY Fields, TickAssumption
<1>3. b = IF a.uxSchedulerSuspended = 0 THEN Expire(c) ELSE [a EXCEPT !.uxPendedTicks = @ + 1]
  BY DEF IncrementTick, Kernel
<1> HIDE DEF n
<1>4. tick \in Kernel
  BY <1>1, FieldKept
<1>5. /\ SameRun(a, tick) /\ tick.xTickCount = n /\ tick.uxPendedTicks = a.uxPendedTicks
      /\ tick.xNumOfOverflows = a.xNumOfOverflows
      /\ tick.ready = a.ready /\ tick.pending = a.pending /\ tick.suspended = a.suspended
      /\ tick.waiting = a.waiting /\ tick.delayed = a.delayed /\ tick.overflow = a.overflow
      /\ SameAlarm(a, tick)
  BY DEF Kernel, SameRun, SameAlarm
<1> HIDE DEF tick
<1>6. CASE n = 0
  <2>1. c = SwitchDelayedLists(tick)
    BY <1>6
  <2> HIDE DEF c
  <2>2. /\ c \in Kernel /\ SameRun(tick, c) /\ c.xTickCount = tick.xTickCount
        /\ c.uxPendedTicks = tick.uxPendedTicks /\ c.xNumOfOverflows = tick.xNumOfOverflows + 1
        /\ c.ready = tick.ready /\ c.pending = tick.pending /\ c.suspended = tick.suspended
        /\ c.waiting = tick.waiting /\ c.delayed = tick.overflow /\ c.overflow = tick.delayed
        /\ c.wake = tick.wake /\ \A t \in c.delayed : c.xNextTaskUnblockTime <= c.wake[t]
    BY <1>4, <2>1, SwitchFields
  <2>3. a.xTickCount + 1 = TickMod
    BY <1>1, <1>2, <1>6
  <2>4. c.xTickCount = 0 /\ c.xNumOfOverflows = a.xNumOfOverflows + 1
    BY <1>5, <1>6, <2>2
  <2>5. Clock(c) = Clock(a) + 1
    <3>1. (a.xNumOfOverflows + 1) * TickMod + 0 = a.xNumOfOverflows * TickMod + a.xTickCount + 1
      BY <1>2, <2>3
    <3> QED  BY <2>4, <3>1 DEF Clock
  <2>6. ASSUME Alarmed(a) PROVE Ringing(c) /\ Undisturbed(a, c)
    <3>1. \A t \in Task : a.wake[t] \in 0..TickMod - 1
      BY Fields
    <3>2. a.delayed = {} /\ a.overflow \subseteq Task
      BY <1>2, <2>3, <2>6, <3>1, Fields DEF Alarmed
    <3>3. c.delayed = a.overflow /\ c.overflow = {} /\ c.wake = a.wake
      BY <1>5, <2>2, <3>2 DEF SameAlarm
    <3>4. Ringing(c)
      BY <2>2, <2>4, <3>1, <3>2, <3>3 DEF Ringing
    <3>5. Undisturbed(a, c)
      BY <2>4, <3>3 DEF Undisturbed, Asleep, DueAt
    <3> QED  BY <3>4, <3>5
  <2>7. Counted(a, c)
    BY <1>5, <2>2, <2>5, <2>6 DEF Counted, SameRun, SameAlarm, Rings
  <2> QED  BY <1>3, <2>7
<1>7. CASE n # 0
  <2>1. c = tick
    BY <1>7
  <2>2. n = a.xTickCount + 1
    BY <1>1, <1>7
  <2>3. Clock(tick) = Clock(a) + 1
    <3>1. a.xNumOfOverflows * TickMod \in Int
      BY <1>2
    <3> DEFINE o == a.xNumOfOverflows * TickMod
    <3> HIDE DEF o
    <3>2. o + n = o + a.xTickCount + 1
      BY <1>2, <2>2, <3>1 DEF o
    <3> QED  BY <1>5, <3>2 DEF Clock, o
  <2>4. Undisturbed(a, c)
    BY <1>5, <2>1 DEF Undisturbed, Asleep, DueAt, SameAlarm
  <2>5. ASSUME Alarmed(a) PROVE Ringing(c)
    <3>1. \A t \in a.delayed : a.wake[t] \in Int
      BY Fields
    <3> QED  BY <1>2, <1>5, <2>1, <2>2, <2>5, <3>1 DEF Alarmed, Ringing, SameAlarm
  <2>6. Counted(a, c)
    BY <1>4, <1>5, <2>1, <2>3, <2>4, <2>5 DEF Counted, SameAlarm, Rings
  <2> QED  BY <1>3, <2>6
<1> QED  BY <1>6, <1>7

\* A tick that the scheduler counts at once.
Ticked(a, b) ==
  /\ Moves(a, b) /\ Clock(b) = Clock(a) + 1 /\ b.uxPendedTicks = a.uxPendedTicks
  /\ b.uxSchedulerSuspended = 0 /\ b.pending = {} /\ Rests(a, b)

LEMMA TickMoves ==
  ASSUME NEW a \in Kernel, Sound(a), a.pending = {}, a.uxSchedulerSuspended = 0,
         NEW b, b = IncrementTick(a).k
  PROVE  Ticked(a, b)
<1>1. PICK c : Counted(a, c) /\ b = Expire(c)
  BY CountFields
<1>2. \A t \in Task : \A l \in Lists : Waits(c, t, l) <=> Waits(a, t, l)
  BY <1>1 DEF Counted, Waits
<1>3. Awoken(c) = Awoken(a)
  BY <1>1 DEF Counted, Awoken
<1>4. Sound(c)
  <2>1. /\ c.ready \cup c.delayed \cup c.overflow \cup c.suspended = Task
        /\ c.ready \cap (c.delayed \cup c.overflow \cup c.suspended) = {}
        /\ c.delayed \cap (c.overflow \cup c.suspended) = {} /\ c.overflow \cap c.suspended = {}
        /\ c.pending \cap c.ready = {}
    BY <1>1 DEF Sound, Counted
  <2>2. \A l \in Lists : \A i, j \in 1..Len(c.waiting[l]) : c.waiting[l][i] = c.waiting[l][j] => i = j
    BY <1>1 DEF Sound, Counted
  <2>3. \A t \in Task : \A l \in Lists : Waits(c, t, l) =>
          t \notin Awoken(c) /\ \A m \in Lists : Waits(c, t, m) => m = l
    BY <1>2, <1>3 DEF Sound
  <2> QED  BY <2>1, <2>2, <2>3 DEF Sound
<1>5. /\ Moves(c, b) /\ SameTime(c, b) /\ b.uxSchedulerSuspended = c.uxSchedulerSuspended
      /\ b.pending = {}
  BY <1>1, <1>4, ExpireMoves DEF Counted
<1>6. Moves(a, c)
  BY <1>1, <1>2, <1>3, <1>4 DEF Moves, Counted, SameRun
<1>7. Moves(a, b)
  BY <1>5, <1>6, MovesOn
<1>8. Clock(b) = Clock(c)
  BY <1>5 DEF Clock, SameTime
<1>9. Rests(a, b)
  <2>1. ASSUME Alarmed(a) PROVE Alarmed(b) /\ Undisturbed(a, b)
    <3>1. c \in Kernel /\ Ringing(c) /\ Undisturbed(a, c)
      BY <1>1, <2>1 DEF Counted, Rings
    <3>2. Alarmed(b) /\ Undisturbed(c, b)
      BY <1>1, <1>4, <3>1, ExpireRests
    <3> QED  BY <3>1, <3>2 DEF Undisturbed
  <2> QED  BY <2>1 DEF Rests
<1> QED  BY <1>1, <1>5, <1>7, <1>8, <1>9 DEF Ticked, Counted, SameTime, SameRun

\* A tick is defined on every state of the scheduler.
LEMMA TickType ==
  ASSUME NEW a \in Kernel
  PROVE  IncrementTick(a) \in [k : Kernel, yield : BOOLEAN]
<1>1. PICK b : b = IncrementTick(a).k
  OBVIOUS
<1>2. CASE a.uxSchedulerSuspended = 0
  <2>1. PICK c : Counted(a, c) /\ b = Expire(c)
    BY <1>1, <1>2, CountFields
  <2>2. c \in Kernel
    BY <2>1 DEF Counted
  <2>3. b = c \/ \E S \in SUBSET Task : Expired(c, b, S)
    BY <2>1, <2>2, ExpireFields
  <2>4. b \in Kernel
    BY <2>2, <2>3 DEF Expired
  <2>5. PICK y \in BOOLEAN : IncrementTick(a) = [k |-> b, yield |-> y]
    <3>1. \E x : \E y \in BOOLEAN : IncrementTick(a) = [k |-> x, yield |-> y]
      BY <1>2 DEF IncrementTick
    <3> QED  BY <1>1, <3>1
  <2> QED  BY <2>4, <2>5
<1>3. CASE a.uxSchedulerSuspended # 0
  <2>1. b = [a EXCEPT !.uxPendedTicks = a.uxPendedTicks + 1]
    BY <1>1, <1>3, CountFields
  <2>2. b \in Kernel
    <3>1. a.uxPendedTicks + 1 \in Nat
      BY Fields
    <3>2. [a EXCEPT !.uxPendedTicks = a.uxPendedTicks + 1] \in Kernel
      BY <3>1, FieldKept
    <3> QED  BY <2>1, <3>2
  <2>3. IncrementTick(a) = [k |-> b, yield |-> a.xYieldPending]
    BY <1>1, <1>3 DEF IncrementTick
  <2>4. a.xYieldPending \in BOOLEAN
    BY Fields
  <2> QED  BY <2>2, <2>3, <2>4
<1> QED  BY <1>2, <1>3

\* What xTaskResumeAll reaches after n of the ticks that it counts later.
Resumed(a, b, n) ==
  /\ Moves(a, b) /\ Clock(b) = Clock(a) + n /\ b.uxPendedTicks = a.uxPendedTicks
  /\ b.uxSchedulerSuspended = 0 /\ b.pending = {} /\ Rests(a, b)

\* The tasks woken meanwhile are ready.
LEMMA OpenMoves ==
  ASSUME NEW a \in Kernel, Sound(a), a.uxSchedulerSuspended = 1, NEW b,
         b = [MakeReady(a, a.pending) EXCEPT !.uxSchedulerSuspended = @ - 1, !.pending = {}]
  PROVE  Resumed(a, b, 0)
<1>1. PICK c : c = MakeReady(a, a.pending)
  OBVIOUS
<1>2. a.pending \in SUBSET Task
  BY Fields
<1>3. /\ c \in Kernel /\ SameTime(a, c) /\ SameRun(a, c)
      /\ c.ready = a.ready \cup a.pending /\ c.delayed = a.delayed \ a.pending
      /\ c.overflow = a.overflow \ a.pending /\ c.suspended = a.suspended \ a.pending
      /\ c.pending = a.pending /\ c.waiting = a.waiting /\ SameAlarm(a, c)
  BY <1>1, <1>2, MakeReadyFields
<1> DEFINE d == [c EXCEPT !.uxSchedulerSuspended = 0]
<1>4. b = [d EXCEPT !.pending = {}]
  BY <1>1, <1>3 DEF Kernel, SameRun
<1>5. d \in Kernel
  BY <1>3, FieldKept
<1>6. b \in Kernel
  <2> HIDE DEF d
  <2>1. {} \in SUBSET Task
    OBVIOUS
  <2>2. [d EXCEPT !.pending = {}] \in Kernel
    BY <1>5, <2>1, FieldKept
  <2> QED  BY <1>4, <2>2
<1>7. /\ SameTime(c, b) /\ b.pxCurrentTCB = c.pxCurrentTCB /\ b.uxMutexesHeld = c.uxMutexesHeld
      /\ b.uxSchedulerSuspended = 0 /\ b.pending = {} /\ b.ready = c.ready /\ b.delayed = c.delayed
      /\ b.overflow = c.overflow /\ b.suspended = c.suspended /\ b.waiting = c.waiting
      /\ SameAlarm(c, b)
  BY <1>3, <1>4 DEF Kernel, SameTime, SameAlarm
<1>8. \A t \in Task : \A l \in Lists : Waits(b, t, l) <=> Waits(a, t, l)
  BY <1>3, <1>7 DEF Waits
<1>9. Awoken(b) = Awoken(a)
  BY <1>3, <1>7 DEF Awoken
<1>10. Sound(b)
  <2>1. /\ b.ready \cup b.delayed \cup b.overflow \cup b.suspended = Task
        /\ b.ready \cap (b.delayed \cup b.overflow \cup b.suspended) = {}
        /\ b.delayed \cap (b.overflow \cup b.suspended) = {} /\ b.overflow \cap b.suspended = {}
        /\ b.pending \cap b.ready = {}
    BY <1>2, <1>3, <1>7 DEF Sound
  <2>2. \A l \in Lists : \A i, j \in 1..Len(b.waiting[l]) : b.waiting[l][i] = b.waiting[l][j] => i = j
    BY <1>3, <1>7 DEF Sound
  <2>3. \A t \in Task : \A l \in Lists : Waits(b, t, l) =>
          t \notin Awoken(b) /\ \A m \in Lists : Waits(b, t, m) => m = l
    BY <1>8, <1>9 DEF Sound
  <2> QED  BY <2>1, <2>2, <2>3 DEF Sound
<1>11. Moves(a, b)
  BY <1>3, <1>6, <1>7, <1>8, <1>9, <1>10 DEF Moves, SameRun
<1>12. Clock(b) = Clock(a) + 0
  <2>1. Clock(b) = Clock(a) /\ Clock(a) \in Int
    <3>1. a.xNumOfOverflows \in Int /\ a.xTickCount \in Int /\ TickMod \in Int
      BY Fields, TickAssumption
    <3> QED  BY <1>3, <1>7, <3>1 DEF Clock, SameTime
  <2> QED  BY <2>1
<1>13. Rests(a, b)
  <2>1. Quiet(a, b)
    BY <1>3, <1>7 DEF Quiet, SameTime, SameAlarm
  <2> QED  BY <2>1, QuietRests
<1> QED  BY <1>3, <1>7, <1>11, <1>12, <1>13 DEF Resumed, SameTime

\* xTaskResumeAll wakes the tasks that were kept and counts the ticks that were.
LEMMA ResumeMoves ==
  ASSUME NEW a \in Kernel, Sound(a), a.uxSchedulerSuspended = 1, NEW b, b = ResumeAll(a).k
  PROVE  /\ Moves(a, b) /\ Clock(b) = Clock(a) + a.uxPendedTicks /\ b.uxPendedTicks = 0
         /\ b.uxSchedulerSuspended = 0 /\ b.pending = {} /\ Rests(a, b)
<1> DEFINE current == a.uxPriority[a.pxCurrentTCB]
           moved   == [MakeReady(a, a.pending) EXCEPT !.uxSchedulerSuspended = @ - 1, !.pending = {}]
           open    == IF a.pending = {} THEN moved ELSE ResetNextTaskUnblockTime(moved)
           yields  == a.xYieldPending \/ \E t \in a.pending : a.uxPriority[t] >= current
           first   == [k |-> open, yield |-> yields]
           Tk(r)   == [k |-> IncrementTick(r.k).k, yield |-> r.yield \/ IncrementTick(r.k).yield]
           R(f)    == f = [n \in 0..a.uxPendedTicks |-> IF n = 0 THEN first ELSE Tk(f[n - 1])]
           unwind  == CHOOSE f : R(f)
           last    == unwind[a.uxPendedTicks]
           V       == [k : Kernel, yield : BOOLEAN]
           one     == [r \in V |-> Tk(r)]
           next    == [i \in 1..a.uxPendedTicks |-> one]
<1>1. b = [last.k EXCEPT !.uxPendedTicks = 0]
  BY DEF ResumeAll
<1>2. PICK m \in Nat : m = a.uxPendedTicks
  BY Fields
<1>3. Resumed(a, open, 0) /\ open \in Kernel
  <2>1. PICK c : c = moved
    OBVIOUS
  <2>2. Resumed(a, c, 0) /\ c \in Kernel /\ Sound(c)
    <3>1. Resumed(a, c, 0)
      BY <2>1, OpenMoves
    <3> QED  BY <3>1 DEF Resumed, Moves
  <2>3. CASE a.pending = {}
    BY <2>1, <2>2, <2>3
  <2>4. CASE a.pending # {}
    <3>1. PICK d : d = ResetNextTaskUnblockTime(c)
      OBVIOUS
    <3>2. /\ d \in Kernel /\ SameTime(c, d) /\ SameRun(c, d) /\ SameLists(c, d) /\ d.wake = c.wake
          /\ \A t \in c.delayed : d.xNextTaskUnblockTime <= d.wake[t]
      BY <2>2, <3>1, ResetFields
    <3>3. \A t \in Task : \A l \in Lists : Waits(d, t, l) <=> Waits(c, t, l)
      BY <3>2 DEF SameLists, Waits
    <3>4. Awoken(d) = Awoken(c)
      BY <3>2 DEF SameLists, Awoken
    <3>5. Sound(d)
      BY <2>2, <3>2, <3>3, <3>4 DEF Sound, SameLists
    <3>6. Moves(c, d)
      BY <3>2, <3>3, <3>4, <3>5 DEF Moves, SameRun, SameLists
    <3>7. Moves(a, d)
      BY <2>2, <3>6, MovesOn DEF Resumed
    <3>8. Rests(a, d)
      <4>1. Undisturbed(c, d)
        BY <3>2 DEF SameTime, SameLists, Undisturbed, Asleep, DueAt
      <4>2. Alarmed(c) => Alarmed(d)
        BY <3>2 DEF SameTime, SameLists, Alarmed
      <4>3. Rests(c, d)
        BY <4>1, <4>2 DEF Rests
      <4> QED  BY <2>2, <4>3, RestsOn DEF Resumed
    <3>9. Resumed(a, d, 0)
      BY <2>2, <3>2, <3>7, <3>8 DEF Resumed, SameTime, SameRun, SameLists, Clock
    <3> QED  BY <2>1, <2>4, <3>1, <3>2, <3>9
  <2> QED  BY <2>3, <2>4
<1> HIDE DEF open
<1>4. first \in V /\ first.k = open
  <2>1. yields \in BOOLEAN
    BY Fields
  <2> HIDE DEF yields
  <2> QED  BY <1>3, <2>1
<1> HIDE DEF first
<1>5. ASSUME NEW r \in V PROVE Tk(r) \in V /\ Tk(r).k = IncrementTick(r.k).k
  <2>1. r.k \in Kernel /\ r.yield \in BOOLEAN
    OBVIOUS
  <2>2. IncrementTick(r.k) \in [k : Kernel, yield : BOOLEAN]
    BY <2>1, TickType
  <2>3. (r.yield \/ IncrementTick(r.k).yield) \in BOOLEAN /\ IncrementTick(r.k).k \in Kernel
    BY <2>1, <2>2
  <2> QED  BY <2>3
<1>6. \E f : R(f)
  <2>1. \A r \in V : one[r] \in V /\ one[r] = Tk(r)
    BY <1>5
  <2>2. one \in [V -> V]
    BY <2>1
  <2> HIDE DEF V, one, Tk
  <2>3. next \in [1..m -> [V -> V]] /\ \A i \in 1..m : next[i] = one
    BY <1>2, <2>2
  <2> HIDE DEF next
  <2>4. Stepped(m, V, first, next)
    BY <1>4, <2>3, Steps
  <2>5. PICK f \in [0..m -> V] : f[0] = first /\ \A i \in 1..m : f[i] = next[i][f[i - 1]]
    BY <2>4 DEF Stepped
  <2>6. ASSUME NEW i \in 1..m PROVE f[i] = Tk(f[i - 1])
    <3>1. i - 1 \in 0..m
      OBVIOUS
    <3>2. f[i - 1] \in V
      BY <2>5, <3>1
    <3> QED  BY <2>1, <2>3, <2>5, <3>2
  <2>7. ASSUME NEW i \in 0..m PROVE f[i] = IF i = 0 THEN first ELSE Tk(f[i - 1])
    <3>1. i # 0 => i \in 1..m
      OBVIOUS
    <3> QED  BY <2>5, <2>6, <3>1
  <2>8. f = [i \in 0..m |-> f[i]]
    BY <2>5
  <2>9. R(f)
    BY <1>2, <2>7, <2>8
  <2> QED  BY <2>9
<1>7. R(unwind)
  BY <1>6
<1> HIDE DEF unwind, next, one, Tk
<1>8. ASSUME NEW i \in 0..m PROVE unwind[i] = IF i = 0 THEN first ELSE Tk(unwind[i - 1])
  BY <1>2, <1>7
<1>9. unwind[0] = first /\ \A i \in 1..m : unwind[i] = Tk(unwind[i - 1])
  <2>1. 0 \in 0..m /\ \A i \in 1..m : i \in 0..m /\ i # 0
    OBVIOUS
  <2> QED  BY <1>8, <2>1
<1> DEFINE T == {i \in Nat : unwind[i] \in V /\ Resumed(a, unwind[i].k, i)}
<1>10. 0 \in T
  BY <1>3, <1>4, <1>9
<1>11. ASSUME NEW i \in 1..m, i - 1 \in T PROVE i \in T
  <2>1. PICK r : r = unwind[i - 1]
    OBVIOUS
  <2>2. r \in V /\ Resumed(a, r.k, i - 1) /\ r.k \in Kernel
    BY <1>11, <2>1
  <2>3. Tk(r) \in V /\ Tk(r).k = IncrementTick(r.k).k /\ unwind[i] = Tk(r)
    BY <1>5, <1>9, <2>1, <2>2
  <2>4. PICK c : c = r.k
    OBVIOUS
  <2>5. PICK d : d = IncrementTick(c).k
    OBVIOUS
  <2>6. Moves(a, c) /\ Sound(c) /\ c.pending = {} /\ c.uxSchedulerSuspended = 0 /\ c \in Kernel
    BY <2>2, <2>4 DEF Resumed, Moves
  <2>7. Ticked(c, d)
    BY <2>5, <2>6, TickMoves
  <2>8. Moves(a, d)
    BY <2>6, <2>7, MovesOn DEF Ticked
  <2>9. Clock(d) = Clock(a) + i
    <3>1. Clock(c) = Clock(a) + (i - 1) /\ Clock(d) = Clock(c) + 1
      BY <2>2, <2>4, <2>7 DEF Resumed, Ticked
    <3>2. Clock(a) \in Int
      <4>1. a.xNumOfOverflows \in Int /\ a.xTickCount \in Int /\ TickMod \in Int
        BY Fields, TickAssumption
      <4> QED  BY <4>1 DEF Clock
    <3> QED  BY <3>1, <3>2
  <2>10. Rests(a, d)
    BY <2>2, <2>4, <2>7, RestsOn DEF Resumed, Ticked
  <2>11. Resumed(a, d, i)
    BY <2>2, <2>4, <2>7, <2>8, <2>9, <2>10 DEF Resumed, Ticked
  <2> QED  BY <2>3, <2>4, <2>5, <2>11
<1>12. m \in T
  <2> HIDE DEF T
  <2>1. \A i \in 0..m : i \in T
    BY <1>10, <1>11, UpTo
  <2> QED  BY <2>1
<1>13. PICK c : c = last.k
  OBVIOUS
<1>14. Resumed(a, c, m) /\ c \in Kernel /\ Sound(c)
  <2>1. Resumed(a, c, m)
    BY <1>2, <1>12, <1>13
  <2> QED  BY <2>1 DEF Resumed, Moves
<1>15. b = [c EXCEPT !.uxPendedTicks = 0]
  BY <1>1, <1>13
<1>16. b \in Kernel
  <2>1. [c EXCEPT !.uxPendedTicks = 0] \in Kernel
    BY <1>14, FieldKept
  <2> QED  BY <1>15, <2>1
<1>17. /\ SameRun(c, b) /\ SameLists(c, b) /\ b.uxPendedTicks = 0 /\ Clock(b) = Clock(c)
       /\ SameAlarm(c, b) /\ b.xTickCount = c.xTickCount /\ b.xNumOfOverflows = c.xNumOfOverflows
  BY <1>14, <1>15 DEF Kernel, SameRun, SameLists, Clock, SameAlarm
<1>18. \A t \in Task : \A l \in Lists : Waits(b, t, l) <=> Waits(c, t, l)
  BY <1>17 DEF SameLists, Waits
<1>19. Awoken(b) = Awoken(c)
  BY <1>17 DEF SameLists, Awoken
<1>20. Sound(b)
  BY <1>14, <1>17, <1>18, <1>19 DEF Sound, SameLists
<1>21. Moves(c, b)
  BY <1>16, <1>17, <1>18, <1>19, <1>20 DEF Moves, SameRun, SameLists
<1>22. Moves(a, b)
  BY <1>14, <1>21, MovesOn DEF Resumed
<1>23. Rests(a, b)
  <2>1. Undisturbed(c, b)
    BY <1>17 DEF SameAlarm, SameLists, Undisturbed, Asleep, DueAt
  <2>2. Alarmed(c) => Alarmed(b)
    BY <1>17 DEF SameAlarm, SameLists, Alarmed
  <2>3. Rests(c, b)
    BY <2>1, <2>2 DEF Rests
  <2> QED  BY <1>14, <2>3, RestsOn DEF Resumed
<1> QED  BY <1>2, <1>14, <1>17, <1>22, <1>23 DEF Resumed, SameRun, SameLists

-----------------------------------------------------------------------------
(* Who runs, who waits, and who holds a mutex. *)

\* Only the running task may be another, and only while the scheduler is not suspended.
Settled(a, b) ==
  /\ b \in Kernel /\ SameTime(a, b) /\ SameLists(a, b) /\ SameAlarm(a, b)
  /\ b.uxMutexesHeld = a.uxMutexesHeld /\ b.uxSchedulerSuspended = a.uxSchedulerSuspended
  /\ b.pxCurrentTCB = a.pxCurrentTCB \/ (a.uxSchedulerSuspended = 0 /\ b.pxCurrentTCB \in a.ready)

\* vTaskSwitchContext
LEMMA SwitchContextFields ==
  ASSUME NEW a \in Kernel, NEW b, b \in SwitchContext(a)
  PROVE  /\ Settled(a, b)
         /\ a.uxSchedulerSuspended = 0 => b.pxCurrentTCB \in a.ready
<1>1. CASE a.uxSchedulerSuspended > 0
  <2>1. b = [a EXCEPT !.xYieldPending = TRUE]
    BY <1>1 DEF SwitchContext
  <2>2. b \in Kernel
    BY <2>1, FieldKept
  <2>3. a.uxSchedulerSuspended # 0
    BY <1>1, Fields
  <2> QED  BY <2>1, <2>2, <2>3 DEF Kernel, Settled, SameTime, SameLists, SameAlarm
<1>2. CASE ~ (a.uxSchedulerSuspended > 0)
  <2>1. PICK t \in a.ready : b = [a EXCEPT !.xYieldPending = FALSE, !.pxCurrentTCB = t]
    BY <1>2 DEF SwitchContext
  <2>2. PICK c : c = [a EXCEPT !.xYieldPending = FALSE]
    OBVIOUS
  <2>3. c \in Kernel /\ t \in Task
    BY <2>2, FieldKept, Fields
  <2>4. b = [c EXCEPT !.pxCurrentTCB = t]
    BY <2>1, <2>2
  <2>5. b \in Kernel
    BY <2>3, <2>4, FieldKept
  <2>6. a.uxSchedulerSuspended = 0
    BY <1>2, Fields
  <2> QED  BY <2>1, <2>5, <2>6 DEF Kernel, Settled, SameTime, SameLists, SameAlarm
<1> QED  BY <1>1, <1>2

LEMMA SettleFields ==
  ASSUME NEW a \in Kernel, NEW yield, Settle(a, yield)
  PROVE  /\ Settled(a, k')
         /\ yield /\ a.uxSchedulerSuspended = 0 => k'.pxCurrentTCB \in a.ready
<1>1. CASE yield
  <2>1. k' \in SwitchContext(a)
    BY <1>1 DEF Settle
  <2>2. PICK b : b = k'
    OBVIOUS
  <2>3. Settled(a, b) /\ (a.uxSchedulerSuspended = 0 => b.pxCurrentTCB \in a.ready)
    BY <2>1, <2>2, SwitchContextFields
  <2> QED  BY <2>2, <2>3
<1>2. CASE ~ yield
  <2>1. k' = a
    BY <1>2 DEF Settle
  <2> QED  BY <1>2, <2>1 DEF Settled, SameTime, SameLists, SameAlarm
<1> QED  BY <1>1, <1>2

\* A list with a task at one place more.
Inserted(s, i, t, r) ==
  /\ r \in Seq(Task) /\ Len(r) = Len(s) + 1
  /\ \A j \in 1..Len(s) + 1 : r[j] = IF j < i THEN s[j] ELSE IF j = i THEN t ELSE s[j - 1]

LEMMA InsertFields ==
  ASSUME NEW s \in Seq(Task), NEW t \in Task, NEW i \in 1..Len(s) + 1, NEW r, r = InsertAt(s, i, t)
  PROVE  Inserted(s, i, t, r)
<1>1. Len(s) \in Nat /\ \A j \in 1..Len(s) : s[j] \in Task
  BY LenProperties
<1>2. PICK front : front = SubSeq(s, 1, i - 1)
  OBVIOUS
<1>3. PICK back : back = SubSeq(s, i, Len(s))
  OBVIOUS
<1>4. /\ front \in Seq(Task) /\ Len(front) = i - 1 /\ \A j \in 1..i - 1 : front[j] = s[j]
  <2>1. \A j \in 1..i - 1 : s[j] \in Task
    BY <1>1
  <2>2. /\ front \in Seq(Task) /\ Len(front) = (IF 1 <= i - 1 THEN i - 1 - 1 + 1 ELSE 0)
        /\ \A j \in 1..i - 1 - 1 + 1 : front[j] = s[1 + j - 1]
    BY <1>2, <2>1, SubSeqProperties
  <2> QED  BY <1>1, <2>2
<1>5. /\ back \in Seq(Task) /\ Len(back) = Len(s) - i + 1
      /\ \A j \in 1..Len(s) - i + 1 : back[j] = s[i + j - 1]
  <2>1. \A j \in i..Len(s) : s[j] \in Task
    BY <1>1
  <2>2. /\ back \in Seq(Task) /\ Len(back) = (IF i <= Len(s) THEN Len(s) - i + 1 ELSE 0)
        /\ \A j \in 1..Len(s) - i + 1 : back[j] = s[i + j - 1]
    BY <1>1, <1>3, <2>1, SubSeqProperties
  <2> QED  BY <1>1, <2>2
<1>6. <<t>> \in Seq(Task) /\ Len(<<t>>) = 1 /\ <<t>>[1] = t
  OBVIOUS
<1>7. PICK one : one = <<t>>
  OBVIOUS
<1>8. PICK f : f = front \o one
  OBVIOUS
<1>9. /\ f \in Seq(Task) /\ Len(f) = i
      /\ \A j \in 1..i : f[j] = IF j <= i - 1 THEN s[j] ELSE t
  <2>1. /\ f \in Seq(Task) /\ Len(f) = Len(front) + Len(one)
        /\ \A j \in 1..Len(front) + Len(one) :
             f[j] = IF j <= Len(front) THEN front[j] ELSE one[j - Len(front)]
    BY <1>4, <1>6, <1>7, <1>8, ConcatProperties
  <2>2. Len(f) = i
    BY <1>4, <1>6, <1>7, <2>1
  <2>3. ASSUME NEW j \in 1..i PROVE f[j] = IF j <= i - 1 THEN s[j] ELSE t
    <3>1. CASE j <= i - 1
      BY <1>4, <1>6, <1>7, <2>1, <3>1
    <3>2. CASE ~ (j <= i - 1)
      <4>1. j - Len(front) = 1
        BY <1>4, <3>2
      <4> QED  BY <1>4, <1>6, <1>7, <2>1, <3>2, <4>1
    <3> QED  BY <3>1, <3>2
  <2> QED  BY <2>1, <2>2, <2>3
<1>10. r = f \o back
  BY <1>2, <1>3, <1>7, <1>8 DEF InsertAt
<1>11. /\ r \in Seq(Task) /\ Len(r) = Len(f) + Len(back)
       /\ \A j \in 1..Len(f) + Len(back) : r[j] = IF j <= Len(f) THEN f[j] ELSE back[j - Len(f)]
  <2>1. f \in Seq(Task) /\ back \in Seq(Task)
    BY <1>5, <1>9
  <2> QED  BY <1>10, <2>1, ConcatProperties
<1>12. ASSUME NEW j \in 1..Len(s) + 1
       PROVE  r[j] = IF j < i THEN s[j] ELSE IF j = i THEN t ELSE s[j - 1]
  <2>1. j \in 1..Len(f) + Len(back)
    BY <1>1, <1>5, <1>9
  <2>2. CASE j <= i
    <3>1. r[j] = f[j]
      BY <1>9, <1>11, <2>1, <2>2
    <3> QED  BY <1>9, <2>2, <3>1
  <2>3. CASE ~ (j <= i)
    <3>1. r[j] = back[j - i] /\ j - i \in 1..Len(s) - i + 1 /\ i + (j - i) - 1 = j - 1
      BY <1>1, <1>9, <1>11, <2>1, <2>3
    <3>2. back[j - i] = s[i + (j - i) - 1]
      BY <1>5, <3>1
    <3> QED  BY <2>3, <3>1, <3>2
  <2> QED  BY <2>2, <2>3
<1>13. Len(r) = Len(s) + 1
  BY <1>1, <1>5, <1>9, <1>11
<1> QED  BY <1>11, <1>12, <1>13 DEF Inserted

\* The running task has left the ready list for one of those that block it.
Delayed(a, b, t) ==
  /\ b \in Kernel /\ SameTime(a, b) /\ SameRun(a, b) /\ b.ready = a.ready \ {t}
  /\ b.pending = a.pending /\ b.waiting = a.waiting
  /\ \/ b.suspended = a.suspended \cup {t} /\ b.delayed = a.delayed /\ b.overflow = a.overflow
     \/ b.overflow = a.overflow \cup {t} /\ b.delayed = a.delayed /\ b.suspended = a.suspended
     \/ b.delayed = a.delayed \cup {t} /\ b.overflow = a.overflow /\ b.suspended = a.suspended

LEMMA DelayFields ==
  ASSUME NEW a \in Kernel, NEW ticks \in Nat, NEW t, t = a.pxCurrentTCB,
         NEW b, b = AddCurrentTaskToDelayedList(a, ticks)
  PROVE  Delayed(a, b, t)
<1> DEFINE at == (a.xTickCount + ticks) % TickMod
           c  == [a EXCEPT !.ready = a.ready \ {t}]
           w  == [a.wake EXCEPT ![t] = at]
           x  == Least({at}, a.xNextTaskUnblockTime)
<1>1. /\ t \in Task /\ at \in 0..TickMod - 1 /\ TickMod - 1 = portMAX_DELAY /\ TickMod - 1 \in Nat
  <2>1. a.xTickCount + ticks \in Nat
    BY Fields
  <2>2. \A n \in Nat : n % TickMod \in 0..TickMod - 1
    BY TickAssumption
  <2>3. at \in 0..TickMod - 1
    BY <2>1, <2>2
  <2> HIDE DEF at
  <2> QED  BY <2>3, Fields, TickAssumption DEF portMAX_DELAY
<1> HIDE DEF at
<1>2. x \in 0..portMAX_DELAY
  <2>1. {at} \in SUBSET Nat /\ a.xNextTaskUnblockTime \in Nat
    BY <1>1, Fields
  <2>2. x \in {at} \cup {a.xNextTaskUnblockTime}
    BY <2>1, LeastType
  <2>3. a.xNextTaskUnblockTime \in 0..portMAX_DELAY
    BY Fields
  <2> HIDE DEF x
  <2> QED  BY <1>1, <2>2, <2>3
<1> HIDE DEF x
<1>3. w \in [Task -> 0..TickMod - 1]
  BY <1>1, Fields
<1> HIDE DEF w
<1>4. c \in Kernel /\ a.ready \ {t} \in SUBSET Task
  <2>1. a.ready \ {t} \in SUBSET Task
    BY Fields
  <2> QED  BY <2>1, FieldKept
<1>5. b = IF ticks = portMAX_DELAY THEN [c EXCEPT !.suspended = a.suspended \cup {t}]
          ELSE IF at < a.xTickCount
            THEN [[c EXCEPT !.overflow = a.overflow \cup {t}] EXCEPT !.wake = w]
            ELSE [[[c EXCEPT !.delayed = a.delayed \cup {t}] EXCEPT !.wake = w]
                  EXCEPT !.xNextTaskUnblockTime = x]
  BY DEF AddCurrentTaskToDelayedList, Kernel, at, w, x
<1>6. /\ SameTime(a, c) /\ SameRun(a, c) /\ c.ready = a.ready \ {t} /\ c.pending = a.pending
      /\ c.waiting = a.waiting /\ c.delayed = a.delayed /\ c.overflow = a.overflow
      /\ c.suspended = a.suspended
  BY DEF Kernel, SameTime, SameRun
<1> HIDE DEF c
<1>7. /\ a.suspended \cup {t} \in SUBSET Task /\ a.overflow \cup {t} \in SUBSET Task
      /\ a.delayed \cup {t} \in SUBSET Task
  BY <1>1, Fields
<1>8. CASE ticks = portMAX_DELAY
  <2>1. b = [c EXCEPT !.suspended = a.suspended \cup {t}]
    BY <1>5, <1>8
  <2>2. b \in Kernel
    <3>1. [c EXCEPT !.suspended = a.suspended \cup {t}] \in Kernel
      BY <1>4, <1>7, FieldKept
    <3> QED  BY <2>1, <3>1
  <2> QED  BY <1>4, <1>6, <2>1, <2>2 DEF Kernel, SameTime, SameRun, Delayed
<1>9. CASE ticks # portMAX_DELAY /\ at < a.xTickCount
  <2>1. PICK d : d = [c EXCEPT !.overflow = a.overflow \cup {t}]
    OBVIOUS
  <2>2. d \in Kernel
    BY <1>4, <1>7, <2>1, FieldKept
  <2>3. b = [d EXCEPT !.wake = w]
    BY <1>5, <1>9, <2>1
  <2>4. b \in Kernel
    BY <1>3, <2>2, <2>3, FieldKept
  <2>5. /\ SameTime(c, b) /\ SameRun(c, b) /\ b.ready = c.ready /\ b.pending = c.pending
        /\ b.waiting = c.waiting /\ b.delayed = c.delayed /\ b.overflow = a.overflow \cup {t}
        /\ b.suspended = c.suspended
    BY <1>4, <2>1, <2>3 DEF Kernel, SameTime, SameRun
  <2> QED  BY <1>6, <2>4, <2>5 DEF SameTime, SameRun, Delayed
<1>10. CASE ticks # portMAX_DELAY /\ ~ (at < a.xTickCount)
  <2>1. PICK d : d = [c EXCEPT !.delayed = a.delayed \cup {t}]
    OBVIOUS
  <2>2. d \in Kernel
    BY <1>4, <1>7, <2>1, FieldKept
  <2>3. PICK e : e = [d EXCEPT !.wake = w]
    OBVIOUS
  <2>4. e \in Kernel
    BY <1>3, <2>2, <2>3, FieldKept
  <2>5. b = [e EXCEPT !.xNextTaskUnblockTime = x]
    BY <1>5, <1>10, <2>1, <2>3
  <2>6. b \in Kernel
    BY <1>2, <2>4, <2>5, FieldKept
  <2>7. /\ SameTime(c, b) /\ SameRun(c, b) /\ b.ready = c.ready /\ b.pending = c.pending
        /\ b.waiting = c.waiting /\ b.overflow = c.overflow /\ b.delayed = a.delayed \cup {t}
        /\ b.suspended = c.suspended
    BY <1>4, <2>1, <2>3, <2>5 DEF Kernel, SameTime, SameRun
  <2> QED  BY <1>6, <2>6, <2>7 DEF SameTime, SameRun, Delayed
<1> QED  BY <1>8, <1>9, <1>10

\* The tick at which a time that is limited ends, and whether the count wraps before.
LEMMA WakeTime ==
  ASSUME NEW c \in 0..TickMod - 1, NEW ticks \in 1..portMAX_DELAY, ticks # portMAX_DELAY,
         NEW at, at = (c + ticks) % TickMod
  PROVE  /\ at \in 0..TickMod - 1
         /\ at < c => at + TickMod = c + ticks
         /\ ~(at < c) => at = c + ticks
<1>1. PICK M \in Nat : M = TickMod /\ M > 1
  BY TickAssumption
<1>2. c \in Nat /\ c < M /\ ticks \in Nat /\ 0 < ticks /\ ticks < M
  BY <1>1 DEF portMAX_DELAY
<1>3. PICK s \in Nat : s = c + ticks
  BY <1>2
<1>4. CASE s < M
  <2>1. at = s
    BY <1>1, <1>3, <1>4
  <2> QED  BY <1>1, <1>2, <1>3, <1>4, <2>1
<1>5. CASE ~(s < M)
  <2>1. PICK d \in Nat : s = d + M /\ d < c
    <3>1. s - M \in Nat /\ s = (s - M) + M /\ s - M < c
      BY <1>1, <1>2, <1>3, <1>5
    <3> QED  BY <3>1
  <2>2. d < M
    BY <1>1, <1>2, <2>1
  <2>3. at = d
    BY <1>1, <1>3, <2>1, <2>2
  <2> QED  BY <1>1, <1>2, <1>3, <2>1, <2>2, <2>3
<1> QED  BY <1>4, <1>5

\* The running task sleeps until as many ticks from now as it asked for, the others as before.
SleepsWith(a, b, t, ticks) ==
  /\ Alarmed(b)
  /\ \A u \in Asleep(b) : IF u = t THEN ticks # portMAX_DELAY /\ DueAt(b, t) = Clock(a) + ticks
                          ELSE u \in Asleep(a) /\ DueAt(b, u) = DueAt(a, u)
Sleeps(a, b, t, ticks) == Alarmed(a) /\ ticks \in 1..portMAX_DELAY => SleepsWith(a, b, t, ticks)

\* Two states of the scheduler in which the same tasks sleep, and until the same count.
SleepsLike(a, b) ==
  /\ Alarmed(a) <=> Alarmed(b)
  /\ Asleep(a) = Asleep(b) /\ Clock(a) = Clock(b) /\ \A t : DueAt(a, t) = DueAt(b, t)

LEMMA DelaySleeps ==
  ASSUME NEW a \in Kernel, a.ready \cap Asleep(a) = {}, NEW t, t = a.pxCurrentTCB, t \in a.ready,
         NEW ticks, NEW b, b = AddCurrentTaskToDelayedList(a, ticks)
  PROVE  Sleeps(a, b, t, ticks)
<1> SUFFICES ASSUME Alarmed(a), ticks \in 1..portMAX_DELAY PROVE SleepsWith(a, b, t, ticks)
  BY DEF Sleeps
<1>1. PICK at : at = (a.xTickCount + ticks) % TickMod
  OBVIOUS
<1>2. /\ t \in Task /\ a.wake \in [Task -> 0..TickMod - 1] /\ t \notin a.delayed /\ t \notin a.overflow
      /\ a.delayed \subseteq Task /\ a.overflow \subseteq Task /\ a.xTickCount \in 0..TickMod - 1
      /\ a.xNumOfOverflows \in Nat /\ a.xNextTaskUnblockTime \in 0..portMAX_DELAY
  BY Fields DEF Asleep
<1>3. PICK M \in Nat : M = TickMod /\ M > 1
  BY TickAssumption
<1>4. PICK o \in Nat, c \in Nat : o = a.xNumOfOverflows /\ c = a.xTickCount
  BY <1>2
<1>5. (o + 1) * M = o * M + M /\ o * M \in Nat /\ Clock(a) = o * M + c
  <2>1. o * M \in Nat
    OBVIOUS
  <2> QED  BY <1>3, <1>4, <2>1 DEF Clock
<1>6. CASE ticks = portMAX_DELAY
  <2>1. /\ b.delayed = a.delayed /\ b.overflow = a.overflow /\ b.wake = a.wake /\ b.xTickCount = a.xTickCount
        /\ b.xNumOfOverflows = a.xNumOfOverflows /\ b.xNextTaskUnblockTime = a.xNextTaskUnblockTime
    BY <1>6 DEF AddCurrentTaskToDelayedList, Kernel
  <2>2. Alarmed(b)
    BY <2>1 DEF Alarmed
  <2>3. \A u \in Asleep(b) : u # t /\ u \in Asleep(a) /\ DueAt(b, u) = DueAt(a, u)
    BY <1>2, <2>1 DEF Asleep, DueAt
  <2> QED  BY <2>2, <2>3 DEF SleepsWith
<1>7. CASE ticks # portMAX_DELAY
  <2>1. /\ at \in 0..TickMod - 1
        /\ at < c => at + TickMod = c + ticks
        /\ ~(at < c) => at = c + ticks
    BY <1>1, <1>2, <1>4, <1>7, WakeTime
  <2>2. /\ b.xTickCount = a.xTickCount /\ b.xNumOfOverflows = a.xNumOfOverflows
        /\ b.wake = [a.wake EXCEPT ![t] = at]
        /\ IF at < c
           THEN /\ b.overflow = a.overflow \cup {t} /\ b.delayed = a.delayed
                /\ b.xNextTaskUnblockTime = a.xNextTaskUnblockTime
           ELSE /\ b.delayed = a.delayed \cup {t} /\ b.overflow = a.overflow
                /\ b.xNextTaskUnblockTime = Least({at}, a.xNextTaskUnblockTime)
    BY <1>1, <1>4, <1>7 DEF AddCurrentTaskToDelayedList, Kernel
  <2>3. b.wake[t] = at /\ \A u \in Task \ {t} : b.wake[u] = a.wake[u]
    BY <1>2, <2>2
  <2>4. \A u \in Asleep(b) \ {t} : u \in Asleep(a) /\ u \in Task
    BY <1>2, <2>2 DEF Asleep
  <2>5. \A u \in Asleep(b) \ {t} : DueAt(b, u) = DueAt(a, u)
    <3>1. ASSUME NEW u \in Asleep(b) \ {t} PROVE u \in b.overflow <=> u \in a.overflow
      BY <2>2
    <3> QED  BY <2>2, <2>3, <2>4, <3>1 DEF DueAt
  <2>6. \A u \in a.delayed : a.wake[u] \in Int
    BY <1>2
  <2>7. CASE at < c
    <3>1. Alarmed(b)
      BY <1>2, <2>2, <2>3, <2>7 DEF Alarmed
    <3>2. DueAt(b, t) = (o + 1) * M + at
      BY <1>3, <1>4, <2>2, <2>3, <2>7 DEF DueAt
    <3>3. DueAt(b, t) = Clock(a) + ticks
      <4>1. PICK p \in Nat : p = o * M
        BY <1>5
      <4>2. p + M + at = p + c + ticks
        BY <1>3, <2>1, <2>7
      <4> QED  BY <1>5, <3>2, <4>1, <4>2
    <3> QED  BY <1>7, <2>4, <2>5, <3>1, <3>3 DEF SleepsWith
  <2>8. CASE ~(at < c)
    <3>1. PICK x : x = b.xNextTaskUnblockTime
      OBVIOUS
    <3>2. x \in Int /\ x <= at /\ x <= a.xNextTaskUnblockTime
      <4>1. at \in Nat /\ a.xNextTaskUnblockTime \in Nat
        BY <1>2, <2>1
      <4>2. {at} \in SUBSET Nat
        BY <4>1
      <4>3. x \in {at} \cup {a.xNextTaskUnblockTime} /\ \A y \in {at} \cup {a.xNextTaskUnblockTime} : x <= y
        BY <2>2, <2>8, <3>1, <4>1, <4>2, LeastType
      <4> QED  BY <4>1, <4>3
    <3>3. at = c + ticks /\ c < at
      BY <1>7, <2>1, <2>8
    <3>4. Alarmed(b)
      <4>1. c < b.wake[t] /\ x <= b.wake[t]
        BY <2>3, <3>2, <3>3
      <4>2. ASSUME NEW u \in a.delayed PROVE c < b.wake[u] /\ x <= b.wake[u]
        <5>1. b.wake[u] = a.wake[u] /\ a.wake[u] \in Int /\ a.xNextTaskUnblockTime \in Int
          BY <1>2, <2>3, <2>6
        <5>2. c < a.wake[u] /\ a.xNextTaskUnblockTime <= a.wake[u]
          BY <1>4 DEF Alarmed
        <5> QED  BY <3>2, <5>1, <5>2
      <4>3. b.delayed = a.delayed \cup {t} /\ b.xTickCount = c
        BY <1>4, <2>2, <2>8
      <4> QED  BY <3>1, <4>1, <4>2, <4>3 DEF Alarmed
    <3>5. DueAt(b, t) = o * M + at
      BY <1>2, <1>3, <1>4, <2>2, <2>3, <2>8 DEF DueAt
    <3>6. DueAt(b, t) = Clock(a) + ticks
      <4>1. PICK p \in Nat : p = o * M
        BY <1>5
      <4>2. p + at = p + c + ticks
        BY <3>3
      <4> QED  BY <1>5, <3>5, <4>1, <4>2
    <3> QED  BY <1>7, <2>4, <2>5, <3>4, <3>6 DEF SleepsWith
  <2> QED  BY <2>7, <2>8
<1> QED  BY <1>6, <1>7

\* The running task t is blocked; it may have been put in event lists.
Blocks(a, b, t, lists) ==
  /\ b \in Kernel /\ Sound(b) /\ SameTime(a, b) /\ SameRun(a, b) /\ b.pending = a.pending
  /\ b.ready = a.ready \ {t}
  /\ \A u \in Task : \A l \in Lists : Waits(b, u, l) <=> Waits(a, u, l) \/ (u = t /\ l \in lists)

LEMMA DelayBlocks ==
  ASSUME NEW a \in Kernel, Sound(a), NEW ticks \in Nat, NEW t, t = a.pxCurrentTCB, t \in a.ready,
         NEW b, b = AddCurrentTaskToDelayedList(a, ticks)
  PROVE  Blocks(a, b, t, {}) /\ Sleeps(a, b, t, ticks)
<1>1. Delayed(a, b, t)
  BY DelayFields
<1>2. \A u \in Task : \A l \in Lists : Waits(b, u, l) <=> Waits(a, u, l)
  BY <1>1 DEF Delayed, Waits
<1>3. Awoken(b) \subseteq Awoken(a) /\ t \in Task
  BY <1>1, Fields DEF Delayed, Awoken
<1>4. Sound(b)
  <2>1. /\ b.ready \cup b.delayed \cup b.overflow \cup b.suspended = Task
        /\ b.ready \cap (b.delayed \cup b.overflow \cup b.suspended) = {}
        /\ b.delayed \cap (b.overflow \cup b.suspended) = {} /\ b.overflow \cap b.suspended = {}
        /\ b.pending \cap b.ready = {}
    BY <1>1, <1>3 DEF Sound, Delayed
  <2>2. \A l \in Lists : \A i, j \in 1..Len(b.waiting[l]) : b.waiting[l][i] = b.waiting[l][j] => i = j
    BY <1>1 DEF Sound, Delayed
  <2>3. \A u \in Task : \A l \in Lists : Waits(b, u, l) =>
          u \notin Awoken(b) /\ \A m \in Lists : Waits(b, u, m) => m = l
    BY <1>2, <1>3 DEF Sound
  <2> QED  BY <2>1, <2>2, <2>3 DEF Sound
<1>5. Sleeps(a, b, t, ticks)
  <2>1. a.ready \cap Asleep(a) = {}
    BY DEF Sound, Asleep
  <2> QED  BY <2>1, DelaySleeps
<1> QED  BY <1>1, <1>2, <1>4, <1>5 DEF Blocks, Delayed

\* vTaskPlaceOnEventList puts the running task, which waits nowhere, in one event list, which
\* is not empty then.
LEMMA PlaceBlocks ==
  ASSUME NEW a \in Kernel, Sound(a), NEW l \in Lists, NEW ticks \in Nat, NEW t, t = a.pxCurrentTCB,
         t \in a.ready, NEW b, b = PlaceOnEventList(a, l, ticks)
  PROVE  Blocks(a, b, t, {l}) /\ Sleeps(a, b, t, ticks)
<1> DEFINE s     == a.waiting[l]
           ahead == {i \in DOMAIN s : \A j \in 1..i : a.uxPriority[s[j]] >= a.uxPriority[t]}
           n     == Cardinality(ahead) + 1
<1>1. s \in Seq(Task) /\ t \in Task
  BY Fields
<1>2. Len(s) \in Nat /\ DOMAIN s = 1..Len(s)
  BY <1>1, LenProperties
<1>3. PICK r : r = InsertAt(s, n, t)
  OBVIOUS
<1>4. r = InsertCurrent(a, s)
  BY <1>3 DEF InsertCurrent
<1>5. n \in 1..Len(s) + 1
  <2>1. IsFiniteSet(1..Len(s)) /\ Cardinality(1..Len(s)) = Len(s)
    <3>1. PICK o \in Nat : o = Len(s)
      BY <1>2
    <3>2. PICK lo \in Int : lo = 1
      OBVIOUS
    <3>3. IsFiniteSet(lo..o) /\ Cardinality(lo..o) = IF lo > o THEN 0 ELSE o - lo + 1
      BY FS_Interval
    <3>4. Cardinality(1..o) = o
      BY <3>1, <3>2, <3>3
    <3> QED  BY <3>1, <3>2, <3>3, <3>4
  <2>2. Cardinality(ahead) <= Len(s) /\ IsFiniteSet(ahead)
    <3>1. ahead \in SUBSET (1..Len(s))
      BY <1>2
    <3> HIDE DEF ahead
    <3> QED  BY <2>1, <3>1, FS_Subset
  <2>3. Cardinality(ahead) \in Nat
    <3> HIDE DEF ahead
    <3> QED  BY <2>2, FS_CardinalityType
  <2> HIDE DEF ahead
  <2> QED  BY <1>2, <2>2, <2>3
<1> HIDE DEF n
<1>6. PICK q \in Seq(Task) : q = s
  BY <1>1
<1>7. PICK i \in 1..Len(q) + 1 : i = n
  BY <1>5, <1>6
<1>8. /\ r \in Seq(Task) /\ Len(r) = Len(q) + 1
      /\ \A j \in 1..Len(q) + 1 : r[j] = IF j < i THEN q[j] ELSE IF j = i THEN t ELSE q[j - 1]
  <2>1. r = InsertAt(q, i, t)
    BY <1>3, <1>6, <1>7
  <2>2. Inserted(q, i, t, r)
    BY <1>1, <2>1, InsertFields
  <2> QED  BY <2>2 DEF Inserted
<1>9. \A j \in 1..Len(q) : q[j] # t
  BY <1>1, <1>6 DEF Sound, Waits, Awoken
<1>10. PICK c : c = [a EXCEPT !.waiting = [a.waiting EXCEPT ![l] = r]]
  OBVIOUS
<1>11. c \in Kernel
  <2>1. [a.waiting EXCEPT ![l] = r] \in [Lists -> Seq(Task)]
    BY <1>8, Fields
  <2> QED  BY <1>10, <2>1, FieldKept
<1>12. b = AddCurrentTaskToDelayedList(c, ticks)
  <2>1. c = [a EXCEPT !.waiting[l] = InsertCurrent(a, @)]
    BY <1>4, <1>10 DEF Kernel
  <2> QED  BY <2>1 DEF PlaceOnEventList
<1>13. /\ SameTime(a, c) /\ SameRun(a, c) /\ c.ready = a.ready /\ c.pending = a.pending
       /\ c.delayed = a.delayed /\ c.overflow = a.overflow /\ c.suspended = a.suspended
       /\ c.waiting = [a.waiting EXCEPT ![l] = r] /\ SameAlarm(a, c)
  BY <1>10 DEF Kernel, SameTime, SameRun, SameAlarm
<1>14. Delayed(c, b, t)
  BY <1>11, <1>12, <1>13, DelayFields DEF SameRun
<1>15. b.waiting[l] = r /\ \A m \in Lists : m # l => b.waiting[m] = a.waiting[m]
  BY <1>13, <1>14, Fields DEF Delayed
<1>16. Len(q) \in Nat /\ i \in Nat
  BY <1>6, <1>2, <1>7
<1>17. ASSUME NEW u \in Task PROVE Waits(b, u, l) <=> Waits(a, u, l) \/ u = t
  <2>1. ASSUME Waits(b, u, l) PROVE Waits(a, u, l) \/ u = t
    <3>1. PICK j \in 1..Len(q) + 1 : r[j] = u
      BY <1>8, <1>15, <2>1 DEF Waits
    <3>2. j < i => j \in 1..Len(q)
      BY <1>7, <1>16, <3>1
    <3>3. ~ (j < i) /\ j # i => j - 1 \in 1..Len(q)
      BY <1>7, <1>16, <3>1
    <3>4. u = t \/ \E o \in 1..Len(q) : q[o] = u
      BY <1>8, <3>1, <3>2, <3>3
    <3> QED  BY <1>6, <3>4 DEF Waits
  <2>2. ASSUME Waits(a, u, l) PROVE Waits(b, u, l)
    <3>1. PICK o \in 1..Len(q) : q[o] = u
      BY <1>6, <2>2 DEF Waits
    <3>2. CASE o < i
      <4>1. o \in 1..Len(q) + 1 /\ r[o] = u
        BY <1>8, <1>16, <3>1, <3>2
      <4> QED  BY <1>8, <1>15, <4>1 DEF Waits
    <3>3. CASE ~ (o < i)
      <4>1. o + 1 \in 1..Len(q) + 1 /\ ~ (o + 1 < i) /\ o + 1 # i /\ (o + 1) - 1 = o
        BY <1>16, <3>1, <3>3
      <4>2. r[o + 1] = u
        BY <1>8, <3>1, <4>1
      <4> QED  BY <1>8, <1>15, <4>1, <4>2 DEF Waits
    <3> QED  BY <3>2, <3>3
  <2>3. ASSUME u = t PROVE Waits(b, u, l)
    <3>1. ~ (i < i)
      BY <1>16
    <3>2. r[i] = t
      BY <1>7, <1>8, <3>1
    <3> QED  BY <1>7, <1>8, <1>15, <2>3, <3>2 DEF Waits
  <2> QED  BY <2>1, <2>2, <2>3
<1>18. ASSUME NEW u \in Task, NEW m \in Lists
       PROVE  Waits(b, u, m) <=> Waits(a, u, m) \/ (u = t /\ m \in {l})
  <2>1. CASE m = l
    BY <1>17, <2>1
  <2>2. CASE m # l
    BY <1>15, <2>2 DEF Waits
  <2> QED  BY <2>1, <2>2
<1>19. ASSUME NEW x \in 1..Len(q) + 1, NEW y \in 1..Len(q) + 1, r[x] = r[y] PROVE x = y
  <2>1. \A o, p \in 1..Len(q) : q[o] = q[p] => o = p
    BY <1>6 DEF Sound
  <2>2. /\ x < i => x \in 1..Len(q)
        /\ ~ (x < i) /\ x # i => x - 1 \in 1..Len(q)
        /\ y < i => y \in 1..Len(q)
        /\ ~ (y < i) /\ y # i => y - 1 \in 1..Len(q)
    BY <1>7, <1>16
  <2>3. /\ r[x] = IF x < i THEN q[x] ELSE IF x = i THEN t ELSE q[x - 1]
        /\ r[y] = IF y < i THEN q[y] ELSE IF y = i THEN t ELSE q[y - 1]
    BY <1>8
  <2>4. CASE x < i /\ y < i
    BY <1>19, <2>1, <2>2, <2>3, <2>4
  <2>5. CASE x = i \/ y = i
    <3>1. ASSUME x = i PROVE y = i
      <4>1. r[y] = t
        BY <1>16, <1>19, <2>3, <3>1
      <4>2. y < i => q[y] = t /\ y \in 1..Len(q)
        BY <2>2, <2>3, <4>1
      <4>3. ~ (y < i) /\ y # i => q[y - 1] = t /\ y - 1 \in 1..Len(q)
        BY <2>2, <2>3, <4>1
      <4> QED  BY <1>9, <4>2, <4>3
    <3>2. ASSUME y = i PROVE x = i
      <4>1. r[x] = t
        <5>1. ~ (i < i)
          BY <1>16
        <5>2. r[y] = t
          BY <2>3, <3>2, <5>1
        <5> QED  BY <1>19, <5>2
      <4>2. x < i => q[x] = t /\ x \in 1..Len(q)
        BY <2>2, <2>3, <4>1
      <4>3. ~ (x < i) /\ x # i => q[x - 1] = t /\ x - 1 \in 1..Len(q)
        BY <2>2, <2>3, <4>1
      <4> QED  BY <1>9, <4>2, <4>3
    <3> QED  BY <2>5, <3>1, <3>2
  <2>6. CASE x < i /\ ~ (y < i) /\ y # i
    <3>1. x = y - 1
      BY <1>19, <2>1, <2>2, <2>3, <2>6
    <3> QED  BY <1>16, <2>6, <3>1
  <2>7. CASE y < i /\ ~ (x < i) /\ x # i
    <3>1. y = x - 1
      BY <1>19, <2>1, <2>2, <2>3, <2>7
    <3> QED  BY <1>16, <2>7, <3>1
  <2>8. CASE ~ (x < i) /\ x # i /\ ~ (y < i) /\ y # i
    <3>1. x - 1 = y - 1
      BY <1>19, <2>1, <2>2, <2>3, <2>8
    <3> QED  BY <1>16, <3>1
  <2> QED  BY <2>4, <2>5, <2>6, <2>7, <2>8
<1>20. Sound(b)
  <2>1. /\ b.ready \cup b.delayed \cup b.overflow \cup b.suspended = Task
        /\ b.ready \cap (b.delayed \cup b.overflow \cup b.suspended) = {}
        /\ b.delayed \cap (b.overflow \cup b.suspended) = {} /\ b.overflow \cap b.suspended = {}
        /\ b.pending \cap b.ready = {}
    BY <1>1, <1>13, <1>14 DEF Sound, Delayed
  <2>2. ASSUME NEW m \in Lists
        PROVE  \A x, y \in 1..Len(b.waiting[m]) : b.waiting[m][x] = b.waiting[m][y] => x = y
    <3>1. CASE m = l
      BY <1>8, <1>15, <1>19, <3>1
    <3>2. CASE m # l
      BY <1>15, <3>2 DEF Sound
    <3> QED  BY <3>1, <3>2
  <2>3. ASSUME NEW u \in Task, NEW m \in Lists, Waits(b, u, m)
        PROVE  u \notin Awoken(b) /\ \A o \in Lists : Waits(b, u, o) => o = m
    <3>1. Awoken(b) = Awoken(a) \ {t}
      BY <1>13, <1>14 DEF Delayed, Awoken, Sound
    <3>2. \A o \in Lists : ~ Waits(a, t, o)
      BY <1>1 DEF Sound, Awoken
    <3>3. CASE u = t
      BY <1>18, <2>3, <3>1, <3>2, <3>3
    <3>4. CASE u # t
      <4>1. Waits(a, u, m)
        BY <1>18, <2>3, <3>4
      <4>2. u \notin Awoken(a) /\ \A o \in Lists : Waits(a, u, o) => o = m
        BY <4>1 DEF Sound
      <4> QED  BY <1>18, <3>1, <3>4, <4>2
    <3> QED  BY <3>3, <3>4
  <2> QED  BY <2>1, <2>2, <2>3 DEF Sound
<1>21. Sleeps(a, b, t, ticks)
  <2>1. c.ready \cap Asleep(c) = {}
    BY <1>13 DEF Sound, Asleep
  <2>2. Sleeps(c, b, t, ticks)
    BY <1>11, <1>12, <1>13, <2>1, DelaySleeps DEF SameRun
  <2>3. SleepsLike(a, c)
    BY <1>13 DEF SameTime, SameAlarm, Alarmed, Asleep, DueAt, Clock, SleepsLike
  <2> QED  BY <2>2, <2>3 DEF Sleeps, SleepsWith, SleepsLike
<1> QED  BY <1>13, <1>14, <1>18, <1>20, <1>21 DEF Blocks, Delayed, SameTime, SameRun

-----------------------------------------------------------------------------
(* What a step does to the scheduler. *)

\* Tasks are woken, and the running task may be another one, if the scheduler is not suspended.
Wakes(a, b) ==
  /\ b \in Kernel /\ Sound(b) /\ a.ready \subseteq b.ready /\ Awoken(a) \subseteq Awoken(b)
  /\ \A t \in Task : \A l \in Lists : Waits(b, t, l) => Waits(a, t, l)
  /\ b.uxSchedulerSuspended = a.uxSchedulerSuspended
  /\ a.uxSchedulerSuspended = 0 => b.pending = a.pending /\ b.uxPendedTicks = a.uxPendedTicks
  /\ b.pxCurrentTCB = a.pxCurrentTCB \/ (a.uxSchedulerSuspended = 0 /\ b.pxCurrentTCB \in b.ready)

\* One task of a list has been woken, unless none waits in it.
WokeOne(a, b, l) ==
  /\ a.waiting[l] = <<>> => b.waiting[l] = <<>>
  /\ a.waiting[l] # <<>> => \E h \in Task : Woken(a, b, l, h)

\* The lists of tasks decide who is awake, who waits, and whether they agree.
LEMMA ListsDecide ==
  ASSUME NEW a, NEW b, SameLists(a, b)
  PROVE  /\ Sound(a) => Sound(b)
         /\ Awoken(b) = Awoken(a)
         /\ \A t \in Task : \A l \in Lists : Waits(b, t, l) <=> Waits(a, t, l)
<1>1. \A t \in Task : \A l \in Lists : Waits(b, t, l) <=> Waits(a, t, l)
  BY DEF SameLists, Waits
<1>2. Awoken(b) = Awoken(a)
  BY DEF SameLists, Awoken
<1>3. ASSUME Sound(a) PROVE Sound(b)
  <2>1. /\ b.ready \cup b.delayed \cup b.overflow \cup b.suspended = Task
        /\ b.ready \cap (b.delayed \cup b.overflow \cup b.suspended) = {}
        /\ b.delayed \cap (b.overflow \cup b.suspended) = {} /\ b.overflow \cap b.suspended = {}
        /\ b.pending \cap b.ready = {}
    BY <1>3 DEF Sound, SameLists
  <2>2. \A l \in Lists : \A i, j \in 1..Len(b.waiting[l]) : b.waiting[l][i] = b.waiting[l][j] => i = j
    BY <1>3 DEF Sound, SameLists
  <2>3. \A t \in Task : \A l \in Lists : Waits(b, t, l) =>
          t \notin Awoken(b) /\ \A m \in Lists : Waits(b, t, m) => m = l
    BY <1>1, <1>2, <1>3 DEF Sound
  <2> QED  BY <2>1, <2>2, <2>3 DEF Sound
<1> QED  BY <1>1, <1>2, <1>3

\* A context switch after tasks have been woken.
LEMMA WakesSettled ==
  ASSUME NEW a, NEW b, NEW c, Moves(a, b), Settled(b, c),
         b.uxSchedulerSuspended = a.uxSchedulerSuspended,
         a.uxSchedulerSuspended = 0 => b.pending = a.pending /\ b.uxPendedTicks = a.uxPendedTicks
  PROVE  Wakes(a, c)
<1>1. SameLists(b, c) /\ Sound(b)
  BY DEF Moves, Settled
<1>2. /\ Sound(c) /\ Awoken(c) = Awoken(b)
      /\ \A t \in Task : \A l \in Lists : Waits(c, t, l) <=> Waits(b, t, l)
  BY <1>1, ListsDecide
<1> QED  BY <1>2 DEF Wakes, Moves, Settled, SameLists, SameTime

\* A critical section that may wake a task, after what it does to priorities and mutexes.
LEMMA WakeEffect ==
  ASSUME k \in Kernel, Sound(k), NEW a \in Kernel, SameLists(k, a), SameTime(k, a), SameAlarm(k, a),
         a.pxCurrentTCB = k.pxCurrentTCB, a.uxSchedulerSuspended = k.uxSchedulerSuspended,
         NEW l \in Lists, NEW x, NEW w, w = Wake(a, l, x), NEW yield, Settle(w.k, yield)
  PROVE  /\ Wakes(k, k') /\ WokeOne(k, k', l) /\ Quiet(k, k')
         /\ k'.uxMutexesHeld = a.uxMutexesHeld
<1>1. PICK b : b = w.k
  OBVIOUS
<1>2. /\ Sound(a) /\ Awoken(a) = Awoken(k)
      /\ \A t \in Task : \A m \in Lists : Waits(a, t, m) <=> Waits(k, t, m)
  BY ListsDecide
<1>3. /\ Moves(a, b) /\ Quiet(a, b) /\ SameRun(a, b)
      /\ a.waiting[l] = <<>> => b = a
      /\ a.waiting[l] # <<>> => \E h \in Task : Woken(a, b, l, h)
      /\ a.uxSchedulerSuspended = 0 => b.pending = a.pending
  BY <1>1, <1>2, WakeMoves
<1>4. Settled(b, k')
  <2>1. b \in Kernel
    BY <1>3 DEF Moves
  <2>2. Settle(b, yield)
    BY <1>1
  <2> QED  BY <2>1, <2>2, SettleFields
<1>5. PICK c : c = k'
  OBVIOUS
<1>6. Wakes(a, c)
  BY <1>3, <1>4, <1>5, WakesSettled DEF SameRun, SameTime, Quiet
<1>7. Wakes(k, c)
  BY <1>2, <1>6 DEF Wakes, SameLists, SameTime
<1>8. /\ SameLists(b, c) /\ Awoken(c) = Awoken(b)
  <2>1. SameLists(b, c)
    BY <1>4, <1>5 DEF Settled
  <2> QED  BY <2>1, ListsDecide
<1>9. WokeOne(k, c, l)
  <2>1. a.waiting[l] = k.waiting[l] /\ c.waiting[l] = b.waiting[l]
    BY <1>8 DEF SameLists
  <2>2. ASSUME k.waiting[l] = <<>> PROVE c.waiting[l] = <<>>
    BY <1>3, <2>1, <2>2
  <2>3. ASSUME k.waiting[l] # <<>> PROVE \E h \in Task : Woken(k, c, l, h)
    <3>1. PICK h \in Task : Woken(a, b, l, h)
      BY <1>3, <2>1, <2>3
    <3>2. Woken(k, c, l, h)
      BY <1>2, <1>8, <3>1 DEF Woken
    <3> QED  BY <3>2
  <2> QED  BY <2>2, <2>3 DEF WokeOne
<1>10. Quiet(k, c) /\ c.uxMutexesHeld = a.uxMutexesHeld
  <2>1. Quiet(k, a) /\ Quiet(b, c)
    BY <1>4, <1>5 DEF Settled, Quiet, SameLists
  <2>2. Quiet(k, c)
    BY <1>3, <2>1, QuietOn
  <2> QED  BY <1>3, <1>4, <1>5, <2>2 DEF Settled, SameRun
<1> QED  BY <1>5, <1>7, <1>9, <1>10

\* vTaskPriorityInherit changes priorities alone.
LEMMA InheritFields ==
  ASSUME NEW a \in Kernel, NEW holder, NEW b, b = PriorityInherit(a, holder)
  PROVE  b \in Kernel /\ SameTime(a, b) /\ SameRun(a, b) /\ SameLists(a, b) /\ SameAlarm(a, b)
<1> DEFINE current == a.uxPriority[a.pxCurrentTCB]
           p       == [t \in Task |-> IF t \in holder THEN current ELSE a.uxPriority[t]]
<1>1. b = a \/ b = [a EXCEPT !.uxPriority = p]
  BY DEF PriorityInherit, Kernel
<1>2. p \in [Task -> Nat]
  BY Fields
<1> HIDE DEF p
<1>3. [a EXCEPT !.uxPriority = p] \in Kernel
  BY <1>2, FieldKept
<1> QED  BY <1>1, <1>3 DEF Kernel, SameTime, SameRun, SameLists, SameAlarm

\* xTaskPriorityDisinherit changes the running task's priority and the number of its mutexes.
Disinherited(a, b, t, holder) ==
  /\ b \in Kernel /\ SameTime(a, b) /\ SameLists(a, b) /\ SameAlarm(a, b)
  /\ b.pxCurrentTCB = a.pxCurrentTCB /\ b.uxSchedulerSuspended = a.uxSchedulerSuspended
  /\ b.uxMutexesHeld = IF holder = {} THEN a.uxMutexesHeld
                       ELSE [a.uxMutexesHeld EXCEPT ![t] = a.uxMutexesHeld[t] - 1]

LEMMA DisinheritFields ==
  ASSUME NEW a \in Kernel, NEW holder, NEW b, b = PriorityDisinherit(a, holder).k,
         NEW t, t = a.pxCurrentTCB
  PROVE  Disinherited(a, b, t, holder)
<1> DEFINE held == [a.uxMutexesHeld EXCEPT ![t] = a.uxMutexesHeld[t] - 1]
           given == [a EXCEPT !.uxMutexesHeld = held]
           p    == [a.uxPriority EXCEPT ![t] = uxBasePriority[t]]
<1>1. (b = a /\ holder = {}) \/ (holder # {} /\ (b = given \/ b = [given EXCEPT !.uxPriority = p]))
  <2>1. CASE holder = {}
    BY <2>1 DEF PriorityDisinherit
  <2>2. CASE holder # {}
    <3>1. /\ given = [a EXCEPT !.uxMutexesHeld[a.pxCurrentTCB] = @ - 1]
          /\ given.uxPriority = a.uxPriority
      BY DEF Kernel
    <3>2. [given EXCEPT !.uxPriority[a.pxCurrentTCB] = uxBasePriority[a.pxCurrentTCB]]
            = [given EXCEPT !.uxPriority = p]
      BY <3>1
    <3> HIDE DEF given, p
    <3> QED  BY <2>2, <3>1, <3>2 DEF PriorityDisinherit
  <2> QED  BY <2>1, <2>2
<1>2. t \in Task /\ held \in [Task -> Int] /\ p \in [Task -> Nat]
  BY Fields, TaskAssumption
<1> HIDE DEF held, p
<1>3. given \in Kernel
  BY <1>2, FieldKept
<1>4. [given EXCEPT !.uxPriority = p] \in Kernel
  <2> HIDE DEF given
  <2> QED  BY <1>2, <1>3, FieldKept
<1>5. CASE b = a /\ holder = {}
  BY <1>5 DEF SameTime, SameLists, SameAlarm, Disinherited
<1>6. CASE holder # {} /\ (b = given \/ b = [given EXCEPT !.uxPriority = p])
  <2>1. /\ SameTime(a, b) /\ SameLists(a, b) /\ SameAlarm(a, b) /\ b.pxCurrentTCB = a.pxCurrentTCB
        /\ b.uxSchedulerSuspended = a.uxSchedulerSuspended /\ b.uxMutexesHeld = held
    BY <1>6 DEF Kernel, SameTime, SameLists, SameAlarm
  <2> HIDE DEF given
  <2> QED  BY <1>3, <1>4, <1>6, <2>1 DEF held, Disinherited
<1> QED  BY <1>1, <1>5, <1>6 DEF Disinherited
==============================================================================
