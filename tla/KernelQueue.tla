---------------------------- MODULE KernelQueue ----------------------------
(***************************************************************************)
(* The FreeRTOS queue (queue.c) under its scheduler: tasks send, receive   *)
(* and peek with a time limit, give and take mutexes, and sleep, while     *)
(* interrupts send and receive and ticks arrive.  A step is a critical     *)
(* section, or what lies between two of them.                              *)
(***************************************************************************)
EXTENDS KernelTasks

CONSTANTS
  Queue,
  Mutex,       \* those of type queueQUEUE_IS_MUTEX
  uxLength,    \* length of each queue
  Item,
  ISRItem,     \* what the interrupts send
  Programs,    \* each one the calls its tasks make, and what its interrupts do
  MaxTicks,    \* bound: ticks
  MaxLock      \* bound: items moved by interrupts while a queue is locked

ASSUME QueueAssumption == Mutex \subseteq Queue /\ uxLength \in [Queue -> Nat \ {0}]
ASSUME ItemAssumption == ISRItem \in Item
ASSUME MutexAssumption == IsFiniteSet(Mutex) /\ \A q \in Mutex : uxLength[q] = 1
ASSUME CallAssumption == \A p \in Programs : \A c \in p.calls :
  c.task \in Task \ {Idle} /\ c.queue \in Queue /\ c.item \in Item
ASSUME TimeAssumption == \A p \in Programs : \A c \in p.calls :
  /\ c.op \in {"back", "front", "receive", "peek", "delay"}
  /\ c.ticks \in IF c.op = "delay" THEN 1..portMAX_DELAY - 1 ELSE 0..portMAX_DELAY
ASSUME InterruptAssumption == \A p \in Programs : p.interrupts \subseteq {"send", "receive"}
ASSUME BoundAssumption == MaxTicks \in Nat /\ MaxLock \in Nat

VARIABLES
  program,        \* the one that runs
  k,              \* the scheduler
  queue,          \* Queue_t of each queue
  pc,             \* what each task does next
  call,           \* the call each task is in, or NoCall
  xTicksToWait,
  xTimeOut,       \* set once the first test has failed, of a call with a limit
  entered,        \* history: the time when xTimeOut was first set
  time,           \* history: ticks that have come
  after           \* with the scheduler suspended: what follows once it is resumed

tasks == <<call, xTicksToWait, xTimeOut, entered>>
vars  == <<program, k, queue, pc, tasks, after, time>>

queueUNLOCKED == -1
Directions    == {"send", "receive"}
Lists         == Queue \X Directions
NoCall        == [op |-> "none"]

EmptyQueue(q) ==
  [ring |-> [i \in 0..uxLength[q] - 1 |-> CHOOSE x \in Item : TRUE], pcWriteTo |-> 0,
   pcReadFrom |-> uxLength[q] - 1, uxMessagesWaiting |-> IF q \in Mutex THEN 1 ELSE 0,
   cTxLock |-> queueUNLOCKED, cRxLock |-> queueUNLOCKED, pxMutexHolder |-> {}]

Init ==
  /\ program \in Programs
  /\ k = InitialTasks(Lists)
  /\ queue = [q \in Queue |-> EmptyQueue(q)]
  /\ pc = [t \in Task |-> "out"] /\ call = [t \in Task |-> NoCall]
  /\ xTicksToWait = [t \in Task |-> 0] /\ xTimeOut = [t \in Task |-> <<>>]
  /\ entered = [t \in Task |-> 0] /\ after = "none" /\ time = 0

-----------------------------------------------------------------------------
(* The ring of items. *)

Next1(q, i) == IF i + 1 >= uxLength[q] THEN 0 ELSE i + 1
Prev1(q, i) == IF i = 0 THEN uxLength[q] - 1 ELSE i - 1

\* Fault: an item put at the front moves the read position first.
CopyToQueueEarly(q, r, item, op) ==
  IF op = "back"
  THEN [r EXCEPT !.ring = [r.ring EXCEPT ![r.pcWriteTo] = item],
                 !.pcWriteTo = Next1(q, r.pcWriteTo), !.uxMessagesWaiting = r.uxMessagesWaiting + 1]
  ELSE [r EXCEPT !.ring = [r.ring EXCEPT ![Prev1(q, r.pcReadFrom)] = item],
                 !.pcReadFrom = Prev1(q, r.pcReadFrom), !.uxMessagesWaiting = r.uxMessagesWaiting + 1]

\* prvCopyDataToQueue of an item: behind the last or before the first.
CopyToQueue(q, r, item, op) ==
  IF op = "back"
  THEN [r EXCEPT !.ring = [r.ring EXCEPT ![r.pcWriteTo] = item],
                 !.pcWriteTo = Next1(q, r.pcWriteTo), !.uxMessagesWaiting = r.uxMessagesWaiting + 1]
  ELSE [r EXCEPT !.ring = [r.ring EXCEPT ![r.pcReadFrom] = item],
                 !.pcReadFrom = Prev1(q, r.pcReadFrom), !.uxMessagesWaiting = r.uxMessagesWaiting + 1]

\* prvCopyDataFromQueue, the read position moved for good; peeking moves it back.
TakeFromQueue(q, r) ==
  [r EXCEPT !.pcReadFrom = IF q \in Mutex THEN r.pcReadFrom ELSE Next1(q, r.pcReadFrom),
            !.uxMessagesWaiting = r.uxMessagesWaiting - 1]

\* Fault: one item too many.
FullLate(q) == queue[q].uxMessagesWaiting > uxLength[q]

Full(q) == queue[q].uxMessagesWaiting = uxLength[q]
Empty(q) == queue[q].uxMessagesWaiting = 0

-----------------------------------------------------------------------------
(* Who runs. *)

Runs(t, label) == t # Idle /\ k.pxCurrentTCB = t /\ pc[t] = label

Goto(t, label) == pc' = [pc EXCEPT ![t] = label]

\* The step leaves the scheduler in state kk, and switches tasks if that was asked for.
Settle(kk, yield) == k' \in IF yield THEN SwitchContext(kk) ELSE {kk}

\* The first task that waits in a list is woken.
Wake(kk, list, otherwise) ==
  IF kk.waiting[list] = <<>> THEN [k |-> kk, woken |-> otherwise] ELSE RemoveFromEventList(kk, list)

Returns(t) ==
  /\ Goto(t, "out")
  /\ call' = [call EXCEPT ![t] = NoCall] /\ xTicksToWait' = [xTicksToWait EXCEPT ![t] = 0]
  /\ xTimeOut' = [xTimeOut EXCEPT ![t] = <<>>] /\ entered' = [entered EXCEPT ![t] = 0]

Sends(t) == call[t].op \in {"back", "front"}
Way(t)   == IF Sends(t) THEN "send" ELSE "receive"

\* A task gives the mutex it holds, and takes none that it holds.
Sensible(c) ==
  c.queue \in Mutex /\ c.op # "delay" =>
    IF c.op = "back" THEN queue[c.queue].pxMutexHolder = {c.task}
    ELSE c.op = "receive" /\ queue[c.queue].pxMutexHolder # {c.task}

Call(c) ==
  /\ Runs(c.task, "out") /\ Sensible(c)
  /\ Goto(c.task, IF c.op = "delay" THEN "block" ELSE "test")
  /\ call' = [call EXCEPT ![c.task] = c]
  /\ xTicksToWait' = [xTicksToWait EXCEPT ![c.task] = c.ticks]
  /\ UNCHANGED <<k, queue, xTimeOut, entered, after>>

-----------------------------------------------------------------------------
(* xQueueGenericSend and xQueueGenericReceive: the first critical section. *)

CanGo(t) == LET q == call[t].queue
            IN IF Sends(t) THEN ~Full(q) ELSE ~Empty(q)

SendItem(t) ==
  LET q == call[t].queue
      w == Wake(k, <<q, "receive">>, FALSE)
  IN /\ Runs(t, "test") /\ Sends(t) /\ q \notin Mutex /\ CanGo(t)
     /\ queue' = [queue EXCEPT ![q] = CopyToQueue(q, @, call[t].item, call[t].op)]
     /\ Settle(w.k, w.woken)
     /\ Returns(t) /\ UNCHANGED after

\* The mutex is given; the switch that giving up an inherited priority asks for is made only
\* if no task is woken.
Give(t) ==
  LET q == call[t].queue
      r == queue[q]
      d == PriorityDisinherit(k, r.pxMutexHolder)
      w == Wake(d.k, <<q, "receive">>, d.yield)
  IN /\ Runs(t, "test") /\ Sends(t) /\ q \in Mutex /\ CanGo(t)
     /\ queue' = [queue EXCEPT ![q] = [r EXCEPT !.pxMutexHolder = {},
                                                !.uxMessagesWaiting = r.uxMessagesWaiting + 1]]
     /\ Settle(w.k, w.woken)
     /\ Returns(t) /\ UNCHANGED after

ReceiveItem(t) ==
  LET q    == call[t].queue
      r    == queue[q]
      held == IF q \in Mutex THEN [k EXCEPT !.uxMutexesHeld[t] = @ + 1] ELSE k
      w    == Wake(held, <<q, "send">>, FALSE)
  IN /\ Runs(t, "test") /\ call[t].op = "receive" /\ CanGo(t)
     /\ queue' = [queue EXCEPT ![q] = [TakeFromQueue(q, r) EXCEPT
                    !.pxMutexHolder = IF q \in Mutex THEN {t} ELSE r.pxMutexHolder]]
     /\ Settle(w.k, w.woken)
     /\ Returns(t) /\ UNCHANGED after

\* The item stays, so the next task that waits for one is woken.
Peek(t) ==
  LET w == Wake(k, <<call[t].queue, "receive">>, FALSE)
  IN /\ Runs(t, "test") /\ call[t].op = "peek" /\ CanGo(t)
     /\ Settle(w.k, w.woken)
     /\ Returns(t) /\ UNCHANGED <<queue, after>>

\* Nothing can be done now: the call fails, or its time starts to run.
TestFails(t) ==
  /\ Runs(t, "test") /\ ~CanGo(t)
  /\ IF xTicksToWait[t] = 0 THEN Returns(t)
     ELSE /\ Goto(t, "block")
          /\ IF xTimeOut[t] # <<>> \/ xTicksToWait[t] = portMAX_DELAY THEN UNCHANGED tasks
             ELSE /\ xTimeOut' = [xTimeOut EXCEPT ![t] = <<TimeOutState(k)>>]
                  /\ entered' = [entered EXCEPT ![t] = time]
                  /\ UNCHANGED <<call, xTicksToWait>>
  /\ UNCHANGED <<k, queue, after>>

-----------------------------------------------------------------------------
(* The way to the event list, with the scheduler suspended. *)

Suspend(t) ==
  /\ Runs(t, "block")
  /\ k' = SuspendAll(k)
  /\ Goto(t, IF call[t].op = "delay" THEN "sleep" ELSE "lock")
  /\ UNCHANGED <<queue, tasks, after>>

Locked(n) == IF n = queueUNLOCKED THEN 0 ELSE n

LockQueue(t) ==
  LET q == call[t].queue
      r == queue[q]
  IN /\ Runs(t, "lock")
     /\ queue' = [queue EXCEPT ![q] = [r EXCEPT !.cTxLock = Locked(r.cTxLock),
                                                !.cRxLock = Locked(r.cRxLock)]]
     /\ Goto(t, "check")
     /\ UNCHANGED <<k, tasks, after>>

\* xTaskCheckForTimeOut; the time left is measured from here on.
CheckForTimeOut(t) ==
  /\ Runs(t, "check")
  /\ \/ /\ xTicksToWait[t] = portMAX_DELAY
        /\ Goto(t, "look") /\ UNCHANGED <<tasks, after>>
     \/ /\ xTicksToWait[t] # portMAX_DELAY /\ TimedOut(k, xTimeOut[t][1], xTicksToWait[t])
        /\ Goto(t, "unlock_tx") /\ after' = "fail" /\ UNCHANGED tasks
     \/ /\ xTicksToWait[t] # portMAX_DELAY /\ ~TimedOut(k, xTimeOut[t][1], xTicksToWait[t])
        /\ xTicksToWait' = [xTicksToWait EXCEPT ![t] = @ - Since(k, xTimeOut[t][1])]
        /\ xTimeOut' = [xTimeOut EXCEPT ![t] = <<TimeOutState(k)>>]
        /\ Goto(t, "look") /\ UNCHANGED <<after, call, entered>>
  /\ UNCHANGED <<k, queue>>

\* prvIsQueueFull, prvIsQueueEmpty
Look(t) ==
  /\ Runs(t, "look")
  /\ IF CanGo(t) THEN Goto(t, "unlock_tx") /\ after' = "retry"
                 ELSE Goto(t, "place") /\ UNCHANGED after
  /\ UNCHANGED <<k, queue, tasks>>

\* vTaskPriorityInherit for a mutex, and vTaskPlaceOnEventList.
Place(t) ==
  LET q    == call[t].queue
      heir == IF q \in Mutex THEN PriorityInherit(k, queue[q].pxMutexHolder) ELSE k
  IN /\ Runs(t, "place")
     /\ k' = PlaceOnEventList(heir, <<q, Way(t)>>, xTicksToWait[t])
     /\ Goto(t, "unlock_tx") /\ after' = "wait"
     /\ UNCHANGED <<queue, tasks>>

\* vTaskDelay
Sleep(t) ==
  /\ Runs(t, "sleep")
  /\ k' = AddCurrentTaskToDelayedList(k, xTicksToWait[t])
  /\ entered' = [entered EXCEPT ![t] = time]
  /\ Goto(t, "resume") /\ after' = "wait"
  /\ UNCHANGED <<queue, call, xTicksToWait, xTimeOut>>

\* One half of prvUnlockQueue: as many tasks are woken as items were moved meanwhile.
WakeSome(list, n) ==
  LET wake[i \in 0..Locked(n)] == IF i = 0 THEN k ELSE Wake(wake[i - 1], list, FALSE).k
  IN wake[Locked(n)]

\* Fault: one task is woken, however many items were posted.
UnlockTxOne(t) ==
  LET q == call[t].queue
  IN /\ Runs(t, "unlock_tx")
     /\ k' = WakeSome(<<q, "receive">>, Least({queue[q].cTxLock}, 1))
     /\ queue' = [queue EXCEPT ![q].cTxLock = queueUNLOCKED]
     /\ Goto(t, "unlock_rx")
     /\ UNCHANGED <<tasks, after>>

UnlockTx(t) ==
  LET q == call[t].queue
  IN /\ Runs(t, "unlock_tx")
     /\ k' = WakeSome(<<q, "receive">>, queue[q].cTxLock)
     /\ queue' = [queue EXCEPT ![q].cTxLock = queueUNLOCKED]
     /\ Goto(t, "unlock_rx")
     /\ UNCHANGED <<tasks, after>>

UnlockRx(t) ==
  LET q == call[t].queue
  IN /\ Runs(t, "unlock_rx")
     /\ k' = WakeSome(<<q, "send">>, queue[q].cRxLock)
     /\ queue' = [queue EXCEPT ![q].cRxLock = queueUNLOCKED]
     /\ Goto(t, "resume")
     /\ UNCHANGED <<tasks, after>>

\* Where a task goes on when it has been woken.
Awake(t) == IF call[t].op = "delay" THEN "return" ELSE "test"

\* xTaskResumeAll; a receiver whose time is up looks once more, a sender gives up.
Resume(t) ==
  LET r == ResumeAll(k)
  IN /\ Runs(t, "resume")
     /\ Settle(r.k, r.yield)
     /\ after' = "none" /\ UNCHANGED queue
     /\ IF after = "fail" /\ Sends(t) THEN Returns(t)
        ELSE /\ Goto(t, IF after = "fail" THEN "last"
                        ELSE IF after = "wait" /\ ~r.yield THEN "yield" ELSE Awake(t))
             /\ UNCHANGED tasks

\* portYIELD_WITHIN_API
Yield(t) ==
  /\ Runs(t, "yield")
  /\ Settle(k, TRUE)
  /\ Goto(t, Awake(t))
  /\ UNCHANGED <<queue, tasks, after>>

Return(t) ==
  /\ Runs(t, "return")
  /\ Returns(t) /\ UNCHANGED <<k, queue, after>>

LastLook(t) ==
  /\ Runs(t, "last")
  /\ IF Empty(call[t].queue) THEN Returns(t) ELSE Goto(t, "test") /\ UNCHANGED tasks
  /\ UNCHANGED <<k, queue, after>>

-----------------------------------------------------------------------------
(* Interrupts. *)

\* The handler may ask for a context switch when a more urgent task is woken, or not.
EndInterrupt(w) == \E yield \in {FALSE, w.woken} : Settle(w.k, yield)

\* xQueueGenericSendFromISR: the event list of a locked queue is left to prvUnlockQueue.
SendFromISR(q) ==
  LET r == queue[q]
  IN /\ "send" \in program.interrupts /\ ~Full(q) /\ r.cTxLock < MaxLock
     /\ queue' = [queue EXCEPT ![q] = [CopyToQueue(q, r, ISRItem, "back") EXCEPT
                    !.cTxLock = IF r.cTxLock = queueUNLOCKED THEN queueUNLOCKED ELSE r.cTxLock + 1]]
     /\ IF r.cTxLock = queueUNLOCKED THEN EndInterrupt(Wake(k, <<q, "receive">>, FALSE))
                                     ELSE UNCHANGED k
     /\ UNCHANGED <<pc, tasks, after>>

ReceiveFromISR(q) ==
  LET r == queue[q]
  IN /\ "receive" \in program.interrupts /\ ~Empty(q) /\ r.cRxLock < MaxLock
     /\ queue' = [queue EXCEPT ![q] = [TakeFromQueue(q, r) EXCEPT
                    !.cRxLock = IF r.cRxLock = queueUNLOCKED THEN queueUNLOCKED ELSE r.cRxLock + 1]]
     /\ IF r.cRxLock = queueUNLOCKED THEN EndInterrupt(Wake(k, <<q, "send">>, FALSE))
                                     ELSE UNCHANGED k
     /\ UNCHANGED <<pc, tasks, after>>

Tick ==
  LET tick == IncrementTick(k)
  IN /\ time < MaxTicks /\ time' = time + 1
     /\ Settle(tick.k, tick.yield)
     /\ UNCHANGED <<queue, pc, tasks, after>>

Interrupt == Tick \/ \E q \in Queue \ Mutex :
                       (SendFromISR(q) \/ ReceiveFromISR(q)) /\ UNCHANGED time

TaskStep(t) ==
  \/ SendItem(t) \/ Give(t) \/ ReceiveItem(t) \/ Peek(t) \/ TestFails(t)
  \/ Suspend(t) \/ LockQueue(t) \/ CheckForTimeOut(t) \/ Look(t) \/ Place(t) \/ Sleep(t)
  \/ UnlockTx(t) \/ UnlockRx(t) \/ Resume(t) \/ Yield(t) \/ Return(t) \/ LastLook(t)

Next == /\ \/ Interrupt
           \/ (\E c \in program.calls : Call(c)) /\ UNCHANGED time
           \/ (\E t \in Task : TaskStep(t)) /\ UNCHANGED time
        /\ UNCHANGED program

Spec == Init /\ [][Next]_vars
-----------------------------------------------------------------------------
(* Properties. *)

\* Types of the scheduler's and the queues' state.
TypeOK ==
  /\ k.xTickCount \in 0..TickMod - 1 /\ k.xNumOfOverflows \in Nat /\ k.uxPendedTicks \in Nat
  /\ k.uxSchedulerSuspended \in {0, 1} /\ k.xYieldPending \in BOOLEAN
  /\ k.pxCurrentTCB \in Task /\ k.xNextTaskUnblockTime \in 0..portMAX_DELAY
  /\ k.pending \subseteq Task /\ k.wake \in [Task -> 0..TickMod - 1]
  /\ k.uxPriority \in [Task -> Nat] /\ k.uxMutexesHeld \in [Task -> Nat]
  /\ k.waiting \in [Lists -> Seq(Task)]
  /\ \A q \in Queue : /\ queue[q].uxMessagesWaiting \in 0..uxLength[q]
                      /\ {queue[q].cTxLock, queue[q].cRxLock} \subseteq queueUNLOCKED..MaxLock
                      /\ queue[q].pxMutexHolder \subseteq Task
  /\ xTicksToWait \in [Task -> 0..portMAX_DELAY] /\ entered \in [Task -> Nat]

\* Each task is in one of the scheduler's lists; it waits in at most one event list, and then
\* it is blocked; and a task whose event has come while the scheduler was suspended waits for
\* no other.
ListsAgree ==
  LET States == <<k.ready, k.delayed, k.overflow, k.suspended>>
      InEvent(t) == {l \in Lists : \E i \in DOMAIN k.waiting[l] : k.waiting[l][i] = t}
  IN /\ UNION {States[i] : i \in 1..4} = Task
     /\ \A i, j \in 1..4 : i # j => States[i] \cap States[j] = {}
     /\ \A l \in Lists : \A i, j \in DOMAIN k.waiting[l] :
          i # j => k.waiting[l][i] # k.waiting[l][j]
     /\ \A t \in Task : /\ Cardinality(InEvent(t)) <= 1
                         /\ InEvent(t) # {} => t \notin k.ready \cup k.pending
     /\ k.pending \cap k.ready = {} /\ (k.uxSchedulerSuspended = 0 => k.pending = {})

\* No wake-up is lost: while something can be had from a queue, and a task waits for it, some
\* task on the same way is awake and will look at the queue again.
Waiting(q, way) == k.waiting[<<q, way>>] # <<>>
Retrying(q, way) ==
  \E t \in k.ready \cup k.pending :
    /\ call[t] # NoCall /\ call[t].op # "delay" /\ call[t].queue = q /\ Way(t) = way
    /\ ~(k.pxCurrentTCB = t /\ after = "fail" /\ Sends(t))

NoLostWakeup ==
  \A q \in Queue :
    /\ queue[q].cTxLock = queueUNLOCKED /\ ~Empty(q) /\ Waiting(q, "receive") => Retrying(q, "receive")
    /\ queue[q].cRxLock = queueUNLOCKED /\ ~Full(q) /\ Waiting(q, "send") => Retrying(q, "send")

\* The running task is one of the most urgent that are ready, unless a switch is pending.
HighestRuns ==
  k.uxSchedulerSuspended = 0 /\ ~k.xYieldPending /\ k.pxCurrentTCB \in k.ready =>
    \A t \in k.ready : k.uxPriority[t] <= k.uxPriority[k.pxCurrentTCB]

\* No call gives up before the time it was given has passed, over a wrap of the tick count and
\* with ticks that the scheduler counts later.
Elapsed(t) == time - entered[t]

NotBefore ==
  \A t \in Task : k.pxCurrentTCB = t /\ after = "fail" => Elapsed(t) >= call[t].ticks

\* No task is blocked any longer when the time it was given has passed.
OnTime ==
  k.uxSchedulerSuspended = 0 =>
    \A t \in k.delayed \cup k.overflow : Elapsed(t) < call[t].ticks

\* A holder has at least the priority of every task that waits for its mutex, and its own one
\* again when it holds none.
Inherited ==
  /\ \A q \in Mutex : \A t \in queue[q].pxMutexHolder : \A i \in DOMAIN k.waiting[<<q, "receive">>] :
       k.uxPriority[k.waiting[<<q, "receive">>][i]] <= k.uxPriority[t]
  /\ \A t \in Task : k.uxMutexesHeld[t] = 0 => k.uxPriority[t] = uxBasePriority[t]

\* Whatever the ring does, a queue is a bounded sequence of items.
Slot(q, i)     == IF i >= uxLength[q] THEN i - uxLength[q] ELSE i
Contents(q, r) == [i \in 1..r.uxMessagesWaiting |-> r.ring[Slot(q, r.pcReadFrom + i)]]
AllContents    == [q \in Queue \ Mutex |-> Contents(q, queue[q])]

Bounded == INSTANCE BoundedQueue WITH items <- AllContents, Queue <- Queue \ Mutex

ImplementsBounded == Bounded!Spec
=============================================================================
