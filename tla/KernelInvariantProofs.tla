------------------------ MODULE KernelInvariantProofs ------------------------
(***************************************************************************)
(* Invariants of KernelQueue: the lists of the scheduler agree, no wake-up *)
(* is lost, no call ends before its time, and no task sleeps beyond it.    *)
(* The inductive invariant says where in its call each task is while the   *)
(* scheduler runs or is suspended; what the steps do to the scheduler      *)
(* comes from KernelQueueProofs.                                           *)
(***************************************************************************)
EXTENDS KernelQueueProofs

(* Where tasks are. *)

Unlocking  == {"unlock_tx", "unlock_rx", "resume"}
Suspending == {"lock", "check", "look", "place", "sleep"} \cup Unlocking
Elsewhere  == {"out", "test", "block", "yield", "return", "last"}

\* The scheduler runs: the running task is ready unless it is about to yield.
Open ==
  /\ k.uxSchedulerSuspended = 0 /\ k.pending = {} /\ k.uxPendedTicks = 0 /\ after = "none"
  /\ \A t \in Task : pc[t] \in Elsewhere
  /\ pc[k.pxCurrentTCB] # "yield" => k.pxCurrentTCB \in k.ready

\* Task t has suspended it, and is the only one on the way to an event list or back.
Closed(t) ==
  /\ k.uxSchedulerSuspended = 1 /\ k.pxCurrentTCB = t /\ pc[t] \in Suspending
  /\ \A u \in Task \ {t} : pc[u] \in Elsewhere
  /\ after \in IF pc[t] \in Unlocking THEN {"fail", "retry", "wait"} ELSE {"none"}
  /\ after # "wait" => t \in k.ready

Places == Open \/ \E t \in Task : Closed(t)

\* Where a task can be in a call that sleeps, and in one on a queue.
CallPlaces ==
  \A t \in Task : pc[t] # "out" =>
    IF call[t].op = "delay"
    THEN /\ pc[t] \in {"block", "sleep", "resume", "yield", "return"}
         /\ pc[t] = "resume" => after = "wait"
    ELSE pc[t] \notin {"sleep", "return"}

\* Task t will look at the queue again when it runs.
Tries(t, q, way) ==
  /\ call[t].op # "delay" /\ call[t].queue = q /\ Way(t) = way
  /\ \/ pc[t] \in {"test", "yield"}
     \/ pc[t] \in Unlocking /\ after # "fail"

\* A task in an event list will look at that queue again when it is woken.
WaitOK ==
  \A t \in Task : \A q \in Queue : \A way \in Directions :
    Waits(k, t, <<q, way>>) => Tries(t, q, way)

Limit == [xOverflowCount : Nat, xTimeOnEntering : 0..TickMod - 1]

\* The time a task may still wait, and since when it is measured.
TicksOK ==
  /\ xTicksToWait \in [Task -> 0..portMAX_DELAY] /\ entered \in [Task -> Nat] /\ time \in Nat
  /\ xTimeOut \in [Task -> {<<>>} \cup {<<limit>> : limit \in Limit}]
  /\ \A t \in Task :
       pc[t] \in {"block", "lock", "check"} /\ call[t].op # "delay" /\ xTicksToWait[t] # portMAX_DELAY
         => xTimeOut[t] # <<>>

\* What interrupts have moved while a queue is locked.
LockBounds ==
  \A q \in Queue : /\ queue[q].cTxLock \in queueUNLOCKED..MaxLock
                  /\ queue[q].cRxLock \in queueUNLOCKED..MaxLock

StructureInv ==
  /\ RefinementInv /\ LockBounds /\ k \in Kernel /\ Sound(k)
  /\ Places /\ CallPlaces /\ WaitOK /\ TicksOK

-----------------------------------------------------------------------------
(* At first. *)

\* Among finitely many tasks one has the highest priority: the one with the fewest above it.
LEMMA HighestTask ==
  \E t \in Task : \A u \in Task : uxBasePriority[u] <= uxBasePriority[t]
<1> DEFINE Above(t) == {u \in Task : uxBasePriority[u] > uxBasePriority[t]}
           counts   == {Cardinality(Above(t)) : t \in Task}
<1>1. /\ Idle \in Task /\ IsFiniteSet(Task)
      /\ \A t \in Task : uxBasePriority[t] \in Nat
  BY TaskAssumption
<1>2. ASSUME NEW t \in Task PROVE IsFiniteSet(Above(t)) /\ Cardinality(Above(t)) \in Nat
  BY <1>1, FS_Subset, FS_CardinalityType
<1>3. counts \subseteq Nat /\ counts # {}
  BY <1>1, <1>2
<1>4. PICK n \in counts : \A m \in counts : n <= m
  <2> HIDE DEF counts
  <2> QED  BY <1>3, LeastNatural
<1>5. PICK t \in Task : n = Cardinality(Above(t))
  BY <1>4
<1>6. ASSUME NEW u \in Task, uxBasePriority[u] > uxBasePriority[t] PROVE FALSE
  <2>1. Above(u) \subseteq Above(t) /\ u \in Above(t) /\ u \notin Above(u)
    BY <1>1, <1>6
  <2>2. Cardinality(Above(u)) < Cardinality(Above(t))
    <3>1. Above(u) # Above(t)  BY <2>1
    <3> HIDE DEF Above
    <3> QED  BY <1>2, <1>5, <2>1, <3>1, FS_Subset, FS_CardinalityType
  <2>3. Cardinality(Above(t)) <= Cardinality(Above(u))
    BY <1>4, <1>5
  <2> HIDE DEF Above, counts
  <2> QED  BY <1>2, <2>2, <2>3
<1> QED  BY <1>1, <1>6

\* All tasks are ready at first.
LEMMA InitialKernel ==
  ASSUME NEW a, a = InitialTasks(Lists)
  PROVE  /\ a \in Kernel /\ Sound(a) /\ a.ready = Task /\ a.pending = {} /\ a.uxPendedTicks = 0
         /\ a.uxSchedulerSuspended = 0 /\ \A l \in Lists : a.waiting[l] = <<>>
         /\ a.xNumOfOverflows = 0 /\ a.xTickCount = FirstTick
         /\ a.uxMutexesHeld = [t \in Task |-> 0] /\ a.delayed = {} /\ a.overflow = {}
<1> DEFINE highest == CHOOSE t \in Task : \A u \in Task : uxBasePriority[u] <= uxBasePriority[t]
<1>1. highest \in Task
  BY HighestTask
<1> HIDE DEF highest
<1>2. /\ portMAX_DELAY \in 0..portMAX_DELAY /\ 0 \in 0..TickMod - 1 /\ FirstTick \in 0..TickMod - 1
  BY TickAssumption DEF portMAX_DELAY
<1>3. /\ [t \in Task |-> 0] \in [Task -> 0..TickMod - 1] /\ [t \in Task |-> 0] \in [Task -> Int]
      /\ [l \in Lists |-> <<>>] \in [Lists -> Seq(Task)] /\ uxBasePriority \in [Task -> Nat]
  BY <1>2, TaskAssumption
<1>4. a \in Kernel
  BY <1>1, <1>2, <1>3 DEF InitialTasks, Kernel, highest
<1>5. /\ a.ready = Task /\ a.pending = {} /\ a.uxPendedTicks = 0 /\ a.delayed = {}
      /\ a.overflow = {} /\ a.suspended = {}
      /\ a.uxSchedulerSuspended = 0 /\ a.waiting = [l \in Lists |-> <<>>]
      /\ a.xNumOfOverflows = 0 /\ a.xTickCount = FirstTick
      /\ a.uxMutexesHeld = [t \in Task |-> 0]
  BY DEF InitialTasks
<1>6. \A l \in Lists : a.waiting[l] = <<>> /\ \A t \in Task : ~Waits(a, t, l)
  BY <1>5 DEF Waits
<1>7. Sound(a)
  <2>1. \A l \in Lists : 1..Len(a.waiting[l]) = {}
    BY <1>6
  <2> QED  BY <1>5, <1>6, <2>1 DEF Sound
<1> QED  BY <1>4, <1>5, <1>6, <1>7

\* The invariant holds at first.
LEMMA InitStructure ==
  ASSUME Init
  PROVE  StructureInv
<1>1. RefinementInv
  BY InitImplements
<1>2. /\ k \in Kernel /\ Sound(k) /\ k.ready = Task /\ k.pending = {} /\ k.uxPendedTicks = 0
      /\ k.uxSchedulerSuspended = 0 /\ \A l \in Lists : k.waiting[l] = <<>>
  BY InitialKernel DEF Init
<1>3. Places
  <2>1. k.pxCurrentTCB \in Task  BY <1>2, Fields
  <2> QED  BY <1>2, <2>1 DEF Init, Places, Open, Elsewhere
<1>4. CallPlaces
  BY DEF Init, CallPlaces
<1>5. WaitOK
  BY <1>2 DEF WaitOK, Waits, Lists
<1>6. TicksOK
  BY TickAssumption DEF Init, TicksOK, portMAX_DELAY
<1>7. LockBounds
  BY BoundAssumption DEF Init, EmptyQueue, LockBounds, queueUNLOCKED
<1> QED  BY <1>1, <1>2, <1>3, <1>4, <1>5, <1>6, <1>7 DEF StructureInv

-----------------------------------------------------------------------------
(* Calls and their times. *)

\* A task that is in a call: what the call asks for.
LEMMA CallTimes ==
  ASSUME CallsOK, NEW t \in Task, pc[t] # "out"
  PROVE  /\ call[t].op \in {"back", "front", "receive", "peek", "delay"}
         /\ call[t].ticks \in 0..portMAX_DELAY
<1>1. program \in Programs /\ call[t] \in program.calls
  BY DEF CallsOK
<1>2. portMAX_DELAY \in Nat
  BY TickAssumption DEF portMAX_DELAY
<1> QED  BY <1>1, <1>2, TimeAssumption

\* A step of task t leaves the calls of the others alone.
Others(t) ==
  \A u \in Task \ {t} :
    /\ pc'[u] = pc[u] /\ call'[u] = call[u] /\ xTicksToWait'[u] = xTicksToWait[u]
    /\ xTimeOut'[u] = xTimeOut[u] /\ entered'[u] = entered[u]

\* Where a task is when its call has ended.
ReturnedOK(t) ==
  pc'[t] = "out" /\ call'[t] = NoCall /\ xTicksToWait'[t] = 0 /\ xTimeOut'[t] = <<>> /\ entered'[t] = 0

LEMMA ReturnsOthers ==
  ASSUME CallsOK, TicksOK, NEW t \in Task, Returns(t)
  PROVE  Others(t) /\ ReturnedOK(t)
BY DEF CallsOK, TicksOK, Returns, Goto, Others, ReturnedOK

\* Every step of a task.
LEMMA StepOthers ==
  ASSUME CallsOK, TicksOK, NEW t \in Task, TaskStep(t)
  PROVE  Others(t)
<1>1. ASSUME Returns(t) PROVE Others(t)
  BY <1>1, ReturnsOthers
<1>2. ASSUME NEW l, Goto(t, l), UNCHANGED tasks PROVE Others(t)
  BY <1>2 DEF CallsOK, Goto, Others, tasks
<1>3. CASE SendItem(t) \/ Give(t) \/ ReceiveItem(t) \/ Peek(t) \/ Return(t)
  BY <1>1, <1>3 DEF SendItem, Give, ReceiveItem, Peek, Return
<1>4. CASE TestFails(t)
  <2>1. Returns(t) \/ \/ Goto(t, "block") /\ UNCHANGED tasks
                      \/ /\ Goto(t, "block") /\ xTimeOut' = [xTimeOut EXCEPT ![t] = <<TimeOutState(k)>>]
                         /\ entered' = [entered EXCEPT ![t] = time] /\ UNCHANGED <<call, xTicksToWait>>
    BY <1>4 DEF TestFails
  <2> QED  BY <1>1, <1>2, <2>1 DEF CallsOK, TicksOK, Goto, Others
<1>5. CASE Suspend(t) \/ LockQueue(t) \/ UnlockTx(t) \/ UnlockRx(t) \/ Place(t) \/ Look(t) \/ Yield(t)
  BY <1>2, <1>5 DEF Suspend, LockQueue, UnlockTx, UnlockRx, Place, Look, Yield
<1>6. CASE Sleep(t)
  BY <1>6 DEF Sleep, CallsOK, TicksOK, Goto, Others
<1>7. CASE CheckForTimeOut(t)
  <2>1. (Goto(t, "look") \/ Goto(t, "unlock_tx")) /\ call' = call /\ entered' = entered
    BY <1>7 DEF CheckForTimeOut, tasks
  <2>2. \/ xTicksToWait' = xTicksToWait /\ xTimeOut' = xTimeOut
        \/ /\ xTicksToWait' = [xTicksToWait EXCEPT ![t] = xTicksToWait[t] - Since(k, xTimeOut[t][1])]
           /\ xTimeOut' = [xTimeOut EXCEPT ![t] = <<TimeOutState(k)>>]
    BY <1>7 DEF CheckForTimeOut, tasks
  <2> QED  BY <2>1, <2>2 DEF CallsOK, TicksOK, Goto, Others
<1>8. CASE Resume(t)
  <2>1. Returns(t) \/ (UNCHANGED tasks /\ \E l : Goto(t, l))
    BY <1>8 DEF Resume
  <2> QED  BY <1>1, <1>2, <2>1
<1>9. CASE LastLook(t)
  BY <1>1, <1>2, <1>9 DEF LastLook
<1> QED  BY <1>3, <1>4, <1>5, <1>6, <1>7, <1>8, <1>9 DEF TaskStep

\* The time since a limit was set, counted over the wrap.
LEMMA SinceType ==
  ASSUME NEW a \in Kernel, NEW limit \in Limit
  PROVE  Since(a, limit) \in 0..TickMod - 1
<1>1. /\ a.xTickCount \in Int /\ limit.xTimeOnEntering \in Int /\ TickMod \in Nat /\ TickMod > 0
  BY Fields, TickAssumption DEF Limit
<1> QED  BY <1>1 DEF Since

\* The state of the tick count is a limit.
LEMMA TimeOutStateType ==
  ASSUME NEW a \in Kernel
  PROVE  TimeOutState(a) \in Limit
BY Fields DEF TimeOutState, Limit

\* A time that is limited and not up: what is left of it is some.
LEMMA TimeLeft ==
  ASSUME NEW a \in Kernel, NEW limit \in Limit, NEW ticks \in 0..portMAX_DELAY, ~TimedOut(a, limit, ticks)
  PROVE  ticks - Since(a, limit) \in 1..ticks
<1>1. Since(a, limit) \in 0..TickMod - 1 /\ ~(Since(a, limit) >= ticks)
  BY SinceType DEF TimedOut
<1> HIDE DEF Since
<1> QED  BY <1>1, TickAssumption DEF portMAX_DELAY

\* Types of the tasks' times.
TimeTypes ==
  /\ xTicksToWait \in [Task -> 0..portMAX_DELAY] /\ entered \in [Task -> Nat]
  /\ xTimeOut \in [Task -> {<<>>} \cup {<<limit>> : limit \in Limit}]

\* A call with a limit has one set on the way to the event list.
LimitSet(t) ==
  pc[t] \in {"block", "lock", "check"} /\ call[t].op # "delay" /\ xTicksToWait[t] # portMAX_DELAY
    => xTimeOut[t] # <<>>

LEMMA TicksParts == TicksOK <=> TimeTypes /\ time \in Nat /\ \A t \in Task : LimitSet(t)
BY DEF TicksOK, TimeTypes, LimitSet

\* Every step of a task keeps the types.
LEMMA TimeTypesStep ==
  ASSUME CallsOK, CallPlaces, TicksOK, k \in Kernel, NEW t \in Task, TaskStep(t)
  PROVE  TimeTypes'
<1> USE DEF TimeTypes
<1>0. TimeTypes /\ time \in Nat
  BY DEF TicksOK
<1>1. ASSUME Returns(t) PROVE TimeTypes'
  <2>1. 0 \in 0..portMAX_DELAY
    BY TickAssumption DEF portMAX_DELAY
  <2> QED  BY <1>0, <1>1, <2>1 DEF Returns
<1>2. ASSUME UNCHANGED tasks PROVE TimeTypes'
  BY <1>0, <1>2 DEF tasks
<1>3. CASE SendItem(t) \/ Give(t) \/ ReceiveItem(t) \/ Peek(t) \/ Return(t)
  BY <1>1, <1>3 DEF SendItem, Give, ReceiveItem, Peek, Return
<1>4. CASE TestFails(t)
  <2>1. \/ Returns(t) \/ UNCHANGED tasks
        \/ /\ xTimeOut' = [xTimeOut EXCEPT ![t] = <<TimeOutState(k)>>] /\ xTicksToWait' = xTicksToWait
           /\ entered' = [entered EXCEPT ![t] = time]
    BY <1>4 DEF TestFails
  <2> QED  BY <1>0, <1>1, <1>2, <2>1, TimeOutStateType
<1>5. CASE Suspend(t) \/ LockQueue(t) \/ UnlockTx(t) \/ UnlockRx(t) \/ Place(t) \/ Look(t) \/ Yield(t)
  BY <1>2, <1>5 DEF Suspend, LockQueue, UnlockTx, UnlockRx, Place, Look, Yield
<1>6. CASE Sleep(t)
  BY <1>0, <1>6 DEF Sleep
<1>7. CASE CheckForTimeOut(t)
  <2>1. CASE UNCHANGED tasks
    BY <1>2, <2>1
  <2>2. CASE ~UNCHANGED tasks
    <3>1. /\ xTicksToWait[t] # portMAX_DELAY /\ ~TimedOut(k, xTimeOut[t][1], xTicksToWait[t])
          /\ xTicksToWait' = [xTicksToWait EXCEPT ![t] = xTicksToWait[t] - Since(k, xTimeOut[t][1])]
          /\ xTimeOut' = [xTimeOut EXCEPT ![t] = <<TimeOutState(k)>>] /\ entered' = entered
      BY <1>7, <2>2 DEF CheckForTimeOut
    <3>2. pc[t] = "check" /\ call[t].op # "delay"
      <4>1. pc[t] = "check"
        BY <1>7 DEF CheckForTimeOut, Runs
      <4> QED  BY <4>1 DEF CallPlaces
    <3>3. PICK limit \in Limit : xTimeOut[t] = <<limit>>
      BY <1>0, <3>1, <3>2 DEF TicksOK
    <3>4. xTicksToWait[t] - Since(k, limit) \in 1..xTicksToWait[t]
      BY <1>0, <3>1, <3>3, TimeLeft
    <3>5. xTicksToWait[t] - Since(k, limit) \in 0..portMAX_DELAY
      <4> HIDE DEF Since
      <4>1. xTicksToWait[t] \in 0..portMAX_DELAY /\ portMAX_DELAY \in Nat
        BY <1>0, TickAssumption DEF portMAX_DELAY
      <4> QED  BY <3>4, <4>1
    <3>6. TimeOutState(k) \in Limit
      BY TimeOutStateType
    <3> HIDE DEF Since, TimeOutState
    <3> QED  BY <1>0, <3>1, <3>3, <3>5, <3>6
  <2> QED  BY <2>1, <2>2
<1>8. CASE Resume(t)
  BY <1>1, <1>2, <1>8 DEF Resume
<1>9. CASE LastLook(t)
  BY <1>1, <1>2, <1>9 DEF LastLook
<1> QED  BY <1>3, <1>4, <1>5, <1>6, <1>7, <1>8, <1>9 DEF TaskStep

\* A limit is set by the first test that fails, before the task is on the way to the event list.
LEMMA LimitStep ==
  ASSUME CallsOK, CallPlaces, TicksOK, k \in Kernel, NEW t \in Task, TaskStep(t)
  PROVE  \A u \in Task : LimitSet(u)'
<1>1. TimeTypes'
  BY TimeTypesStep
<1>2. ASSUME NEW u \in Task \ {t} PROVE LimitSet(u)'
  <2>1. Others(t)
    BY StepOthers
  <2> QED  BY <1>2, <2>1, TicksParts DEF Others, LimitSet
<1>3. LimitSet(t)'
  <2>0. LimitSet(t) /\ t \in Task /\ CallsOK
    BY TicksParts
  <2>1. ASSUME pc'[t] \notin {"block", "lock", "check"} PROVE LimitSet(t)'
    BY <2>1 DEF LimitSet
  <2>2. ASSUME NEW l, Goto(t, l), l \notin {"block", "lock", "check"} PROVE LimitSet(t)'
    BY <2>0, <2>1, <2>2 DEF CallsOK, Goto
  <2>3. ASSUME Returns(t) PROVE LimitSet(t)'
    BY <2>2, <2>3 DEF Returns
  <2>4. ASSUME NEW l, Goto(t, l), UNCHANGED tasks, pc[t] \in {"block", "lock", "check"} PROVE LimitSet(t)'
    BY <2>0, <2>4 DEF CallsOK, LimitSet, tasks
  <2>5. CASE SendItem(t) \/ Give(t) \/ ReceiveItem(t) \/ Peek(t) \/ Return(t)
    BY <2>3, <2>5 DEF SendItem, Give, ReceiveItem, Peek, Return
  <2>6. CASE TestFails(t)
    <3>1. CASE xTimeOut[t] # <<>> \/ xTicksToWait[t] = portMAX_DELAY
      <4>1. Returns(t) \/ UNCHANGED tasks
        BY <2>6, <3>1 DEF TestFails
      <4> QED  BY <2>3, <3>1, <4>1 DEF LimitSet, tasks
    <3>2. CASE ~(xTimeOut[t] # <<>> \/ xTicksToWait[t] = portMAX_DELAY)
      <4>1. Returns(t) \/ xTimeOut' = [xTimeOut EXCEPT ![t] = <<TimeOutState(k)>>]
        BY <2>6, <3>2 DEF TestFails
      <4> HIDE DEF TimeOutState
      <4>2. CASE xTimeOut' = [xTimeOut EXCEPT ![t] = <<TimeOutState(k)>>]
        <5>1. xTimeOut'[t] = <<TimeOutState(k)>>
          BY <4>2 DEF TicksOK
        <5> QED  BY <5>1 DEF LimitSet
      <4> QED  BY <2>3, <4>1, <4>2
    <3> QED  BY <3>1, <3>2
  <2>7. CASE Suspend(t) \/ LockQueue(t)
    BY <2>4, <2>7 DEF Suspend, LockQueue, Runs
  <2>8. CASE CheckForTimeOut(t) \/ UnlockTx(t) \/ UnlockRx(t) \/ Place(t) \/ Look(t) \/ Sleep(t)
    <3>1. \E l \in {"look", "unlock_tx", "unlock_rx", "resume", "place"} : Goto(t, l)
      BY <2>8 DEF CheckForTimeOut, UnlockTx, UnlockRx, Place, Look, Sleep
    <3> QED  BY <2>2, <3>1
  <2>9. CASE Yield(t)
    <3>1. \E l \in {"return", "test"} : Goto(t, l)
      BY <2>9 DEF Yield, Awake
    <3> QED  BY <2>2, <3>1
  <2>10. CASE Resume(t)
    <3>1. Returns(t) \/ \E l \in {"return", "test", "last", "yield"} : Goto(t, l)
      BY <2>10 DEF Resume, Awake
    <3> QED  BY <2>2, <2>3, <3>1
  <2>11. CASE LastLook(t)
    <3>1. Returns(t) \/ Goto(t, "test")
      BY <2>11 DEF LastLook
    <3> QED  BY <2>2, <2>3, <3>1
  <2> QED  BY <2>5, <2>6, <2>7, <2>8, <2>9, <2>10, <2>11 DEF TaskStep
<1> QED  BY <1>2, <1>3

\* A call that begins.
LEMMA CallBegins ==
  ASSUME CallsOK, NEW c \in program.calls, NEW t, t = c.task, Call(c)
  PROVE  /\ t \in Task \ {Idle} /\ c.queue \in Queue /\ c.ticks \in 0..portMAX_DELAY
         /\ c.op \in {"back", "front", "receive", "peek", "delay"}
         /\ t = k.pxCurrentTCB /\ pc[t] = "out"
         /\ pc' = [pc EXCEPT ![t] = IF c.op = "delay" THEN "block" ELSE "test"]
         /\ call' = [call EXCEPT ![t] = c] /\ xTicksToWait' = [xTicksToWait EXCEPT ![t] = c.ticks]
         /\ UNCHANGED <<k, queue, xTimeOut, entered, after>>
<1>1. program \in Programs
  BY DEF CallsOK
<1>2. portMAX_DELAY \in Nat
  BY TickAssumption DEF portMAX_DELAY
<1>3. /\ c.task \in Task \ {Idle} /\ c.queue \in Queue
      /\ c.op \in {"back", "front", "receive", "peek", "delay"}
      /\ c.ticks \in IF c.op = "delay" THEN 1..portMAX_DELAY - 1 ELSE 0..portMAX_DELAY
  BY <1>1, CallAssumption, TimeAssumption
<1>4. c.ticks \in 0..portMAX_DELAY
  BY <1>2, <1>3
<1> QED  BY <1>3, <1>4 DEF Call, Runs, Goto

\* The tasks' times have their types.
LEMMA TicksStep ==
  ASSUME StructureInv, Next
  PROVE  TicksOK'
<1> USE DEF StructureInv, RefinementInv
<1>1. TimeTypes /\ time \in Nat /\ \A t \in Task : LimitSet(t)
  BY TicksParts
<1>2. CASE Interrupt
  <2>1. UNCHANGED <<pc, tasks>> /\ time' \in {time, time + 1}
    BY <1>2 DEF Interrupt, Tick, SendFromISR, ReceiveFromISR
  <2> QED  BY <1>1, <2>1 DEF tasks, TicksOK, TimeTypes, LimitSet
<1>3. ASSUME NEW c \in program.calls, Call(c), time' = time PROVE TicksOK'
  <2>1. PICK t : t = c.task
    OBVIOUS
  <2>2. /\ t \in Task /\ c.ticks \in 0..portMAX_DELAY
        /\ pc' = [pc EXCEPT ![t] = IF c.op = "delay" THEN "block" ELSE "test"]
        /\ call' = [call EXCEPT ![t] = c] /\ xTicksToWait' = [xTicksToWait EXCEPT ![t] = c.ticks]
        /\ UNCHANGED <<xTimeOut, entered>>
    BY <1>3, <2>1, CallBegins
  <2>3. TimeTypes'
    BY <1>1, <2>2 DEF TimeTypes
  <2>4. \A u \in Task : LimitSet(u)'
    BY <1>1, <2>2 DEF LimitSet, CallsOK, TicksOK
  <2> QED  BY <1>1, <1>3, <2>3, <2>4 DEF TicksOK, TimeTypes, LimitSet
<1>4. ASSUME NEW t \in Task, TaskStep(t), time' = time PROVE TicksOK'
  <2>1. TimeTypes' /\ \A u \in Task : LimitSet(u)'
    BY <1>4, TimeTypesStep, LimitStep
  <2> QED  BY <1>1, <1>4, <2>1 DEF TicksOK, TimeTypes, LimitSet
<1> QED  BY <1>2, <1>3, <1>4 DEF Next

-----------------------------------------------------------------------------
(* Where the steps take tasks. *)

\* Only the running task can have suspended the scheduler.
LEMMA OthersElsewhere ==
  ASSUME Places, k \in Kernel
  PROVE  /\ k.pxCurrentTCB \in Task
         /\ \A u \in Task \ {k.pxCurrentTCB} : pc[u] \in Elsewhere
BY Fields DEF Places, Open, Closed

\* The running task makes the step.
LEMMA StepRuns ==
  ASSUME NEW t \in Task, TaskStep(t)
  PROVE  t # Idle /\ k.pxCurrentTCB = t /\ pc[t] # "out"
BY DEF TaskStep, SendItem, Give, ReceiveItem, Peek, TestFails, Suspend, LockQueue,
       CheckForTimeOut, Look, Place, Sleep, UnlockTx, UnlockRx, Resume, Yield, Return,
       LastLook, Runs

CallPlace(t) ==
  pc[t] # "out" =>
    IF call[t].op = "delay"
    THEN /\ pc[t] \in {"block", "sleep", "resume", "yield", "return"}
         /\ pc[t] = "resume" => after = "wait"
    ELSE pc[t] \notin {"sleep", "return"}

LEMMA CallPlacesStep ==
  ASSUME CallsOK, Places, CallPlaces, TicksOK, k \in Kernel, NEW t \in Task, TaskStep(t)
  PROVE  CallPlaces'
<1>1. Others(t) /\ t = k.pxCurrentTCB /\ pc[t] # "out" /\ CallPlace(t)
  BY StepOthers, StepRuns DEF CallPlaces, CallPlace
<1>2. ASSUME NEW u \in Task \ {t} PROVE CallPlace(u)'
  <2>1. pc[u] # "resume" /\ CallPlace(u)
    BY <1>1, OthersElsewhere DEF Elsewhere, CallPlaces, CallPlace
  <2> QED  BY <1>1, <2>1 DEF Others, CallPlace
<1>3. CallPlace(t)'
  <2>1. ASSUME Returns(t) PROVE CallPlace(t)'
    BY <2>1, ReturnsOthers DEF ReturnedOK, CallPlace
  <2>2. ASSUME NEW l, Goto(t, l), UNCHANGED call, call[t].op = "delay",
               l \in {"block", "sleep", "resume", "yield", "return"}, l = "resume" => after' = "wait"
        PROVE  CallPlace(t)'
    BY <2>2 DEF Goto, CallsOK, CallPlace
  <2>3. ASSUME NEW l, Goto(t, l), UNCHANGED call, call[t].op # "delay", l \notin {"sleep", "return"}
        PROVE  CallPlace(t)'
    BY <2>3 DEF Goto, CallsOK, CallPlace
  <2>4. CASE SendItem(t) \/ Give(t) \/ ReceiveItem(t) \/ Peek(t) \/ Return(t)
    BY <2>1, <2>4 DEF SendItem, Give, ReceiveItem, Peek, Return
  <2>5. CASE TestFails(t)
    <3>1. call[t].op # "delay"
      BY <1>1, <2>5 DEF TestFails, Runs, CallPlace
    <3>2. Returns(t) \/ (Goto(t, "block") /\ UNCHANGED call)
      BY <2>5 DEF TestFails, tasks
    <3> QED  BY <2>1, <2>3, <3>1, <3>2
  <2>6. CASE Suspend(t)
    BY <2>2, <2>3, <2>6 DEF Suspend, tasks
  <2>7. CASE LockQueue(t) \/ CheckForTimeOut(t) \/ UnlockTx(t) \/ UnlockRx(t) \/ Place(t) \/ Look(t)
    <3>1. call[t].op # "delay"
      BY <1>1, <2>7 DEF LockQueue, CheckForTimeOut, UnlockTx, UnlockRx, Place, Look, Runs, CallPlace
    <3>2. UNCHANGED call /\ \E l \in {"check", "look", "unlock_tx", "unlock_rx", "resume", "place"} : Goto(t, l)
      BY <2>7 DEF LockQueue, CheckForTimeOut, UnlockTx, UnlockRx, Place, Look, tasks
    <3> QED  BY <2>3, <3>1, <3>2
  <2>8. CASE Sleep(t)
    <3>1. call[t].op = "delay"
      BY <1>1, <2>8 DEF Sleep, Runs, CallPlace
    <3> QED  BY <2>2, <2>8, <3>1 DEF Sleep
  <2>9. CASE Yield(t)
    <3>1. UNCHANGED call /\ Goto(t, IF call[t].op = "delay" THEN "return" ELSE "test")
      BY <2>9 DEF Yield, Awake, tasks
    <3> QED  BY <2>2, <2>3, <3>1
  <2>10. CASE Resume(t)
    <3>1. \/ Returns(t)
          \/ /\ UNCHANGED call
             /\ \E l : /\ Goto(t, l)
                       /\ IF call[t].op = "delay" THEN l \in {"yield", "return"}
                                                  ELSE l \in {"last", "yield", "test"}
      <4>1. call[t].op = "delay" => after = "wait"
        BY <1>1, <2>10 DEF Resume, Runs, CallPlace
      <4> QED  BY <2>10, <4>1 DEF Resume, Awake, tasks
    <3> QED  BY <2>1, <2>2, <2>3, <3>1
  <2>11. CASE LastLook(t)
    <3>1. call[t].op # "delay"
      BY <1>1, <2>11 DEF LastLook, Runs, CallPlace
    <3> QED  BY <2>1, <2>3, <2>11, <3>1 DEF LastLook, tasks
  <2> QED  BY <1>1, <2>4, <2>5, <2>6, <2>7, <2>8, <2>9, <2>10, <2>11 DEF TaskStep
<1> QED  BY <1>2, <1>3 DEF CallPlaces, CallPlace

\* What the calls are is kept with where they are.
LEMMA CallPlacesInv ==
  ASSUME StructureInv, Next
  PROVE  CallPlaces'
<1> USE DEF StructureInv, RefinementInv
<1>1. CASE Interrupt
  <2>1. UNCHANGED <<pc, call, after>>
    BY <1>1 DEF Interrupt, Tick, SendFromISR, ReceiveFromISR, tasks
  <2> QED  BY <2>1 DEF CallPlaces
<1>2. ASSUME NEW c \in program.calls, Call(c) PROVE CallPlaces'
  <2>1. PICK t : t = c.task
    OBVIOUS
  <2>2. /\ t \in Task /\ pc' = [pc EXCEPT ![t] = IF c.op = "delay" THEN "block" ELSE "test"]
        /\ call' = [call EXCEPT ![t] = c] /\ after' = after
    BY <1>2, <2>1, CallBegins
  <2> QED  BY <2>2 DEF CallPlaces, CallsOK
<1>3. ASSUME NEW t \in Task, TaskStep(t) PROVE CallPlaces'
  BY <1>3, CallPlacesStep
<1> QED  BY <1>1, <1>2, <1>3 DEF Next

-----------------------------------------------------------------------------
(* What the steps do to the scheduler. *)

\* The scheduler is left as it is.
LEMMA QuietWakes ==
  ASSUME k \in Kernel, Sound(k), k' = k
  PROVE  Wakes(k, k') /\ Quiet(k, k')
BY DEF Wakes, Quiet, SameTime, SameAlarm

\* The running task counts one mutex more.
OneMoreHeld(a, b, t) ==
  /\ b \in Kernel /\ SameLists(a, b) /\ SameTime(a, b) /\ SameAlarm(a, b)
  /\ b.pxCurrentTCB = a.pxCurrentTCB
  /\ b.uxSchedulerSuspended = a.uxSchedulerSuspended
  /\ b.uxMutexesHeld = [a.uxMutexesHeld EXCEPT ![t] = a.uxMutexesHeld[t] + 1]

LEMMA HeldFields ==
  ASSUME NEW a \in Kernel, NEW t \in Task, NEW b, b = [a EXCEPT !.uxMutexesHeld[t] = @ + 1]
  PROVE  OneMoreHeld(a, b, t)
<1> DEFINE held == [a.uxMutexesHeld EXCEPT ![t] = a.uxMutexesHeld[t] + 1]
<1>1. held \in [Task -> Int]
  BY Fields
<1>2. b = [a EXCEPT !.uxMutexesHeld = held]
  OBVIOUS
<1> HIDE DEF held
<1>3. b \in Kernel
  BY <1>1, <1>2, FieldKept
<1>4. /\ SameLists(a, b) /\ SameTime(a, b) /\ SameAlarm(a, b) /\ b.pxCurrentTCB = a.pxCurrentTCB
      /\ b.uxSchedulerSuspended = a.uxSchedulerSuspended /\ b.uxMutexesHeld = held
  BY <1>2 DEF Kernel, SameLists, SameTime, SameAlarm
<1> QED  BY <1>3, <1>4 DEF held, OneMoreHeld

\* The list from which a task that gets its way wakes another.
Other(t) == <<call[t].queue, IF call[t].op = "receive" THEN "send" ELSE "receive">>

\* xQueueGenericSend and xQueueGenericReceive when they can go on.
LEMMA GoEffect ==
  ASSUME CallsOK, k \in Kernel, Sound(k), NEW t \in Task,
         SendItem(t) \/ Give(t) \/ ReceiveItem(t) \/ Peek(t)
  PROVE  Wakes(k, k') /\ WokeOne(k, k', Other(t)) /\ Quiet(k, k')
<1>1. PICK l : l = Other(t)
  OBVIOUS
<1>2. l \in Lists /\ pc[t] = "test" /\ t = k.pxCurrentTCB
  <2>1. pc[t] = "test" /\ t = k.pxCurrentTCB
    BY DEF SendItem, Give, ReceiveItem, Peek, Runs
  <2>2. call[t].queue \in Queue
    BY <2>1, CallType
  <2> QED  BY <1>1, <2>1, <2>2 DEF Other, Lists, Directions
<1>3. ASSUME NEW a \in Kernel, SameLists(k, a), SameTime(k, a), SameAlarm(k, a),
             a.pxCurrentTCB = k.pxCurrentTCB, a.uxSchedulerSuspended = k.uxSchedulerSuspended, NEW x, NEW w, w = Wake(a, l, x),
             Settle(w.k, w.woken)
      PROVE  Wakes(k, k') /\ WokeOne(k, k', l) /\ Quiet(k, k')
  BY <1>2, <1>3, WakeEffect
<1>4. SameLists(k, k) /\ SameTime(k, k) /\ SameAlarm(k, k)
  BY DEF SameLists, SameTime, SameAlarm
<1>5. CASE SendItem(t)
  <2>1. PICK w : w = Wake(k, l, FALSE)
    OBVIOUS
  <2>2. Settle(w.k, w.woken)
    BY <1>1, <1>5, <2>1 DEF SendItem, Sends, Other
  <2> QED  BY <1>1, <1>3, <1>4, <2>1, <2>2
<1>6. CASE Peek(t)
  <2>1. PICK w : w = Wake(k, l, FALSE)
    OBVIOUS
  <2>2. Settle(w.k, w.woken)
    BY <1>1, <1>6, <2>1 DEF Peek, Other
  <2> QED  BY <1>1, <1>3, <1>4, <2>1, <2>2
<1>7. CASE Give(t)
  <2>1. PICK holder : holder = queue[call[t].queue].pxMutexHolder
    OBVIOUS
  <2>2. PICK d : d = PriorityDisinherit(k, holder)
    OBVIOUS
  <2>3. PICK a : a = d.k
    OBVIOUS
  <2>4. PICK w : w = Wake(a, l, d.yield)
    OBVIOUS
  <2>5. Settle(w.k, w.woken)
    BY <1>1, <1>7, <2>1, <2>2, <2>3, <2>4 DEF Give, Sends, Other
  <2>6. /\ a \in Kernel /\ SameLists(k, a) /\ SameTime(k, a) /\ SameAlarm(k, a)
        /\ a.pxCurrentTCB = k.pxCurrentTCB /\ a.uxSchedulerSuspended = k.uxSchedulerSuspended
    <3>1. Disinherited(k, a, t, holder)
      BY <1>2, <2>2, <2>3, DisinheritFields
    <3> QED  BY <3>1 DEF Disinherited
  <2> QED  BY <1>1, <1>3, <2>4, <2>5, <2>6
<1>8. CASE ReceiveItem(t)
  <2>1. PICK a : a = IF call[t].queue \in Mutex THEN [k EXCEPT !.uxMutexesHeld[t] = @ + 1] ELSE k
    OBVIOUS
  <2>2. PICK w : w = Wake(a, l, FALSE)
    OBVIOUS
  <2>3. Settle(w.k, w.woken)
    BY <1>1, <1>8, <2>1, <2>2 DEF ReceiveItem, Other
  <2>4. /\ a \in Kernel /\ SameLists(k, a) /\ SameTime(k, a) /\ SameAlarm(k, a)
        /\ a.pxCurrentTCB = k.pxCurrentTCB /\ a.uxSchedulerSuspended = k.uxSchedulerSuspended
    <3>1. CASE call[t].queue \in Mutex
      <4>1. OneMoreHeld(k, a, t)
        BY <1>2, <1>4, <2>1, <3>1, HeldFields
      <4> QED  BY <4>1 DEF OneMoreHeld
    <3>2. CASE call[t].queue \notin Mutex
      BY <1>2, <2>1, <3>2 DEF SameLists, SameTime, SameAlarm
    <3> QED  BY <3>1, <3>2
  <2> QED  BY <1>1, <1>3, <2>2, <2>3, <2>4
<1> QED  BY <1>5, <1>6, <1>7, <1>8

\* An interrupt that sends or receives wakes a task of an unlocked queue.
LEMMA ISREffect ==
  ASSUME k \in Kernel, Sound(k), NEW q \in Queue, NEW way \in Directions, NEW locked \in BOOLEAN,
         IF locked THEN k' = k ELSE EndInterrupt(Wake(k, <<q, way>>, FALSE))
  PROVE  /\ Wakes(k, k') /\ Quiet(k, k')
         /\ ~locked => WokeOne(k, k', <<q, way>>)
<1>1. CASE locked
  BY <1>1, QuietWakes
<1>2. CASE ~locked
  <2>1. PICK w : w = Wake(k, <<q, way>>, FALSE)
    OBVIOUS
  <2>2. PICK yield : Settle(w.k, yield)
    BY <1>2, <2>1 DEF EndInterrupt
  <2>3. SameLists(k, k) /\ SameTime(k, k) /\ SameAlarm(k, k) /\ <<q, way>> \in Lists
    BY DEF SameLists, SameTime, SameAlarm, Lists
  <2> QED  BY <2>1, <2>2, <2>3, WakeEffect
<1> QED  BY <1>1, <1>2

\* portYIELD_WITHIN_API with the scheduler running: a ready task goes on.
LEMMA YieldEffect ==
  ASSUME k \in Kernel, Sound(k), k.uxSchedulerSuspended = 0, NEW t \in Task, Yield(t)
  PROVE  Wakes(k, k') /\ Quiet(k, k') /\ k'.pxCurrentTCB \in k'.ready
<1>1. Settle(k, TRUE)
  BY DEF Yield
<1>2. Settled(k, k') /\ k'.pxCurrentTCB \in k.ready
  BY <1>1, SettleFields
<1>3. PICK c : c = k'
  OBVIOUS
<1>4. Moves(k, k)
  BY MovesSelf
<1>5. Wakes(k, c)
  BY <1>2, <1>3, <1>4, WakesSettled
<1>6. Quiet(k, c)
  BY <1>2, <1>3 DEF Settled, SameLists, Quiet
<1> QED  BY <1>2, <1>3, <1>5, <1>6 DEF Settled, SameLists

\* prvUnlockQueue's halves.
LEMMA UnlockEffect ==
  ASSUME k \in Kernel, Sound(k), k.uxSchedulerSuspended = 1, NEW l \in Lists, NEW n,
         NEW m \in Nat, m = Locked(n), k' = WakeSome(l, n)
  PROVE  Wakes(k, k') /\ Quiet(k, k') /\ WakesTo(k, k', l, m)
<1>1. PICK b : b = k'
  OBVIOUS
<1>2. WakesTo(k, b, l, m)
  BY <1>1, WakeSomeMoves
<1>3. Wakes(k, b)
  BY <1>2 DEF WakesTo, Moves, SameRun, Wakes, Quiet, SameTime
<1> QED  BY <1>1, <1>2, <1>3 DEF WakesTo

\* vTaskSuspendAll changes nothing else.
LEMMA SuspendEffect ==
  ASSUME k \in Kernel, Sound(k), k.uxSchedulerSuspended = 0, NEW t \in Task, Suspend(t)
  PROVE  /\ k' \in Kernel /\ Sound(k') /\ SameLists(k, k') /\ Quiet(k, k')
         /\ k'.uxSchedulerSuspended = 1 /\ k'.pxCurrentTCB = k.pxCurrentTCB
         /\ k'.uxMutexesHeld = k.uxMutexesHeld
<1>1. k' = [k EXCEPT !.uxSchedulerSuspended = 1]
  BY DEF Suspend, SuspendAll
<1>2. k' \in Kernel
  BY <1>1, FieldKept
<1>3. /\ SameLists(k, k') /\ Quiet(k, k') /\ k'.uxSchedulerSuspended = 1
      /\ k'.pxCurrentTCB = k.pxCurrentTCB /\ k'.uxMutexesHeld = k.uxMutexesHeld
  BY <1>1 DEF Kernel, SameLists, SameTime, SameAlarm, Quiet
<1>4. PICK b : b = k'
  OBVIOUS
<1>5. Sound(b)
  BY <1>3, <1>4, ListsDecide
<1> QED  BY <1>2, <1>3, <1>4, <1>5

\* vTaskPlaceOnEventList blocks the running task in one event list.
LEMMA PlaceEffect ==
  ASSUME CallsOK, TicksOK, k \in Kernel, Sound(k), NEW t \in Task, t \in k.ready, Place(t),
         NEW l, l = <<call[t].queue, Way(t)>>
  PROVE  Blocks(k, k', t, {l}) /\ Sleeps(k, k', t, xTicksToWait[t])
<1>1. PICK a : a = IF call[t].queue \in Mutex
                   THEN PriorityInherit(k, queue[call[t].queue].pxMutexHolder) ELSE k
  OBVIOUS
<1>2. PICK ticks : ticks = xTicksToWait[t]
  OBVIOUS
<1>3. k' = PlaceOnEventList(a, l, ticks) /\ pc[t] = "place" /\ t = k.pxCurrentTCB
  BY <1>1, <1>2 DEF Place, Runs
<1>4. l \in Lists /\ ticks \in Nat
  <2>1. call[t].queue \in Queue
    BY <1>3, CallType
  <2>2. Way(t) \in Directions
    BY DEF Way, Directions
  <2>3. portMAX_DELAY \in Nat
    BY TickAssumption DEF portMAX_DELAY
  <2> QED  BY <1>2, <2>1, <2>2, <2>3 DEF Lists, TicksOK
<1>5. a \in Kernel /\ SameTime(k, a) /\ SameRun(k, a) /\ SameLists(k, a) /\ SameAlarm(k, a)
  <2>1. CASE call[t].queue \in Mutex
    <3>1. PICK holder : holder = queue[call[t].queue].pxMutexHolder
      OBVIOUS
    <3>2. a = PriorityInherit(k, holder)
      BY <1>1, <2>1, <3>1
    <3> QED  BY <3>2, InheritFields
  <2>2. CASE call[t].queue \notin Mutex
    BY <1>1, <2>2 DEF SameTime, SameRun, SameLists, SameAlarm
  <2> QED  BY <2>1, <2>2
<1>6. PICK b : b = k'
  OBVIOUS
<1>7. Sound(a) /\ t = a.pxCurrentTCB /\ t \in a.ready
  <2>1. Sound(a)
    BY <1>5, ListsDecide
  <2> QED  BY <1>3, <1>5, <2>1 DEF SameRun, SameLists
<1>8. Blocks(a, b, t, {l}) /\ Sleeps(a, b, t, ticks)
  BY <1>3, <1>4, <1>5, <1>6, <1>7, PlaceBlocks
<1>9. \A u \in Task : \A m \in Lists : Waits(a, u, m) <=> Waits(k, u, m)
  BY <1>5, ListsDecide
<1>10. Blocks(k, b, t, {l})
  BY <1>5, <1>8, <1>9 DEF Blocks, SameTime, SameRun, SameLists
<1>11. Sleeps(k, b, t, ticks)
  <2>1. SleepsLike(k, a)
    BY <1>5 DEF SameTime, SameLists, SameAlarm, Alarmed, Asleep, DueAt, Clock, SleepsLike
  <2> QED  BY <1>8, <2>1 DEF Sleeps, SleepsWith, SleepsLike
<1> QED  BY <1>2, <1>6, <1>10, <1>11

\* vTaskDelay blocks it in none.
LEMMA SleepEffect ==
  ASSUME TicksOK, k \in Kernel, Sound(k), NEW t \in Task, t \in k.ready, Sleep(t)
  PROVE  Blocks(k, k', t, {}) /\ Sleeps(k, k', t, xTicksToWait[t])
<1>1. PICK ticks : ticks = xTicksToWait[t]
  OBVIOUS
<1>2. PICK b : b = k'
  OBVIOUS
<1>3. b = AddCurrentTaskToDelayedList(k, ticks) /\ t = k.pxCurrentTCB
  BY <1>1, <1>2 DEF Sleep, Runs
<1>4. ticks \in Nat
  BY <1>1, TickAssumption DEF TicksOK, portMAX_DELAY
<1>5. Blocks(k, b, t, {}) /\ Sleeps(k, b, t, ticks)
  BY <1>3, <1>4, DelayBlocks
<1> QED  BY <1>1, <1>2, <1>5

\* A context switch disturbs no task that sleeps.
LEMMA SettledRests ==
  ASSUME NEW a, NEW b, Sound(a), Settled(a, b)
  PROVE  Rests(a, b)
<1>1. Quiet(a, b)
  BY DEF Settled, SameLists, Quiet
<1> QED  BY <1>1, QuietRests

\* What xTaskResumeAll leaves.
ResumedAll(a, b) ==
  /\ b \in Kernel /\ Sound(b) /\ a.ready \subseteq b.ready /\ Awoken(a) \subseteq Awoken(b)
  /\ \A t \in Task : \A l \in Lists : Waits(b, t, l) => Waits(a, t, l)
  /\ b.uxMutexesHeld = a.uxMutexesHeld
  /\ Clock(b) = Clock(a) + a.uxPendedTicks /\ b.uxPendedTicks = 0
  /\ b.uxSchedulerSuspended = 0 /\ b.pending = {} /\ Rests(a, b)

LEMMA ResumeEffect ==
  ASSUME k \in Kernel, Sound(k), k.uxSchedulerSuspended = 1, NEW t \in Task, Resume(t),
         NEW yield, yield = ResumeAll(k).yield
  PROVE  /\ ResumedAll(k, k')
         /\ yield => k'.pxCurrentTCB \in k'.ready
         /\ ~yield => k'.pxCurrentTCB = k.pxCurrentTCB
<1>1. PICK r : r = ResumeAll(k)
  OBVIOUS
<1>2. PICK b : b = r.k
  OBVIOUS
<1>3. PICK c : c = k'
  OBVIOUS
<1>4. Settle(b, yield)
  BY <1>1, <1>2 DEF Resume
<1>5. /\ Moves(k, b) /\ Clock(b) = Clock(k) + k.uxPendedTicks /\ b.uxPendedTicks = 0
      /\ b.uxSchedulerSuspended = 0 /\ b.pending = {} /\ Rests(k, b)
  BY <1>1, <1>2, ResumeMoves
<1>6. Settled(b, c) /\ (yield => c.pxCurrentTCB \in b.ready)
  <2>1. b \in Kernel
    BY <1>5 DEF Moves
  <2> QED  BY <1>3, <1>4, <1>5, <2>1, SettleFields
<1>7. ~yield => c.pxCurrentTCB = k.pxCurrentTCB
  BY <1>3, <1>4, <1>5 DEF Settle, Moves
<1>8. Sound(c) /\ Awoken(c) = Awoken(b) /\ \A u \in Task : \A m \in Lists : Waits(c, u, m) <=> Waits(b, u, m)
  BY <1>5, <1>6, ListsDecide DEF Settled, Moves
<1>9. Clock(c) = Clock(b)
  BY <1>6 DEF Settled, SameTime, Clock
<1>10. Rests(k, c)
  <2>1. Rests(b, c)
    BY <1>5, <1>6, SettledRests DEF Moves
  <2> QED  BY <1>5, <2>1, RestsOn
<1>11. ResumedAll(k, c)
  BY <1>5, <1>6, <1>8, <1>9, <1>10 DEF Settled, SameTime, SameLists, Moves, ResumedAll
<1> QED  BY <1>3, <1>6, <1>7, <1>11 DEF Settled, SameLists

\* xTaskIncrementTick: the count goes on by one, at once or when the scheduler is resumed.
LEMMA TickEffect ==
  ASSUME k \in Kernel, Sound(k), k.uxSchedulerSuspended = 0 => k.pending = {}, Tick
  PROVE  /\ Wakes(k, k') /\ k'.uxMutexesHeld = k.uxMutexesHeld /\ Rests(k, k')
         /\ IF k.uxSchedulerSuspended = 0
            THEN Clock(k') = Clock(k) + 1
            ELSE Clock(k') = Clock(k) /\ k'.uxPendedTicks = k.uxPendedTicks + 1
<1>1. PICK r : r = IncrementTick(k)
  OBVIOUS
<1>2. PICK b : b = r.k
  OBVIOUS
<1>3. PICK c : c = k'
  OBVIOUS
<1>4. Settle(b, r.yield)
  BY <1>1, <1>2 DEF Tick
<1>5. CASE k.uxSchedulerSuspended = 0
  <2>1. Ticked(k, b)
    BY <1>1, <1>2, <1>5, TickMoves
  <2>2. Settled(b, c)
    BY <1>3, <1>4, <2>1, SettleFields DEF Ticked, Moves
  <2>3. Wakes(k, c)
    BY <1>5, <2>1, <2>2, WakesSettled DEF Ticked
  <2>4. Clock(c) = Clock(k) + 1 /\ c.uxMutexesHeld = k.uxMutexesHeld
    BY <2>1, <2>2 DEF Ticked, Settled, SameTime, Clock, Moves
  <2>5. Rests(k, c)
    BY <2>1, <2>2, SettledRests, RestsOn DEF Ticked, Moves
  <2> QED  BY <1>3, <1>5, <2>3, <2>4, <2>5
<1>6. CASE k.uxSchedulerSuspended # 0
  <2>1. b = [k EXCEPT !.uxPendedTicks = k.uxPendedTicks + 1]
    BY <1>1, <1>2, <1>6, CountFields
  <2>2. k.uxPendedTicks + 1 \in Nat
    BY Fields
  <2>3. b \in Kernel
    BY <2>1, <2>2, FieldKept
  <2>4. /\ SameLists(k, b) /\ SameRun(k, b) /\ Clock(b) = Clock(k)
        /\ b.uxPendedTicks = k.uxPendedTicks + 1 /\ SameAlarm(k, b)
        /\ b.xTickCount = k.xTickCount /\ b.xNumOfOverflows = k.xNumOfOverflows
    BY <2>1 DEF Kernel, SameLists, SameRun, SameAlarm, Clock
  <2>5. Settled(b, c)
    BY <1>3, <1>4, <2>3, SettleFields
  <2>6. Moves(k, b)
    <3>1. Sound(b) /\ Awoken(b) = Awoken(k) /\ \A u \in Task : \A m \in Lists : Waits(b, u, m) <=> Waits(k, u, m)
      BY <2>4, ListsDecide
    <3> QED  BY <2>3, <2>4, <3>1 DEF SameLists, SameRun, Moves
  <2>7. Wakes(k, c)
    BY <1>6, <2>4, <2>5, <2>6, WakesSettled DEF SameRun
  <2>8. /\ Clock(c) = Clock(k) /\ c.uxPendedTicks = k.uxPendedTicks + 1
        /\ c.uxMutexesHeld = k.uxMutexesHeld
    BY <2>4, <2>5 DEF Settled, SameTime, SameRun, Clock
  <2>9. Rests(k, c)
    <3>1. Undisturbed(k, b)
      BY <2>4 DEF SameAlarm, SameLists, Undisturbed, Asleep, DueAt
    <3>2. Alarmed(k) => Alarmed(b)
      BY <2>4 DEF SameAlarm, SameLists, Alarmed
    <3>3. Rests(b, c)
      BY <2>5, <2>6, SettledRests DEF Moves
    <3>4. Rests(k, b)
      BY <3>1, <3>2 DEF Rests
    <3> QED  BY <3>3, <3>4, RestsOn
  <2> QED  BY <1>3, <1>6, <2>7, <2>8, <2>9
<1> QED  BY <1>5, <1>6

-----------------------------------------------------------------------------
(* What the steps do to the queues. *)

\* Queue q has n items and these locks and holder now; the others are as they were.
Counts(q, n, tx, rx, holder) ==
  /\ queue'[q].uxMessagesWaiting = n /\ queue'[q].cTxLock = tx /\ queue'[q].cRxLock = rx
  /\ queue'[q].pxMutexHolder = holder
  /\ \A p \in Queue \ {q} : queue'[p] = queue[p]

LEMMA CopyCounts ==
  ASSUME NEW q \in Queue, NEW r \in QueueRecord(q), NEW item, NEW op, NEW s,
         s = CopyToQueue(q, r, item, op)
  PROVE  /\ s.uxMessagesWaiting = r.uxMessagesWaiting + 1 /\ s.cTxLock = r.cTxLock
         /\ s.cRxLock = r.cRxLock /\ s.pxMutexHolder = r.pxMutexHolder
         /\ \A x : /\ [s EXCEPT !.cTxLock = x].cTxLock = x
                   /\ [s EXCEPT !.cTxLock = x].cRxLock = s.cRxLock
                   /\ [s EXCEPT !.cTxLock = x].uxMessagesWaiting = s.uxMessagesWaiting
                   /\ [s EXCEPT !.cTxLock = x].pxMutexHolder = s.pxMutexHolder
BY DEF CopyToQueue, QueueRecord

LEMMA TakeCounts ==
  ASSUME NEW q \in Queue, NEW r \in QueueRecord(q), NEW s, s = TakeFromQueue(q, r)
  PROVE  /\ s.uxMessagesWaiting = r.uxMessagesWaiting - 1 /\ s.cTxLock = r.cTxLock
         /\ s.cRxLock = r.cRxLock /\ s.pxMutexHolder = r.pxMutexHolder
         /\ \A x : /\ [s EXCEPT !.cRxLock = x].cTxLock = s.cTxLock
                   /\ [s EXCEPT !.cRxLock = x].cRxLock = x
                   /\ [s EXCEPT !.cRxLock = x].uxMessagesWaiting = s.uxMessagesWaiting
                   /\ [s EXCEPT !.cRxLock = x].pxMutexHolder = s.pxMutexHolder
         /\ \A x : /\ [s EXCEPT !.pxMutexHolder = x].cTxLock = s.cTxLock
                   /\ [s EXCEPT !.pxMutexHolder = x].cRxLock = s.cRxLock
                   /\ [s EXCEPT !.pxMutexHolder = x].uxMessagesWaiting = s.uxMessagesWaiting
                   /\ [s EXCEPT !.pxMutexHolder = x].pxMutexHolder = x
BY DEF TakeFromQueue, QueueRecord

\* xQueueGenericSend and xQueueGenericReceive.
LEMMA SendCounts ==
  ASSUME RefinementInv, NEW t \in Task, SendItem(t), NEW q, q = call[t].queue, NEW r, r = queue[q]
  PROVE  Counts(q, r.uxMessagesWaiting + 1, r.cTxLock, r.cRxLock, r.pxMutexHolder)
<1>1. pc[t] = "test"
  BY DEF SendItem, Runs
<1>2. q \in Queue /\ r \in QueueRecord(q) /\ queue \in [Queue -> UNION {QueueRecord(p) : p \in Queue}]
  BY <1>1, CallType DEF RefinementInv, QueuesOK
<1>3. PICK s : s = CopyToQueue(q, r, call[t].item, call[t].op)
  OBVIOUS
<1>4. queue' = [queue EXCEPT ![q] = s]
  BY <1>3 DEF SendItem
<1>5. /\ s.uxMessagesWaiting = r.uxMessagesWaiting + 1 /\ s.cTxLock = r.cTxLock
      /\ s.cRxLock = r.cRxLock /\ s.pxMutexHolder = r.pxMutexHolder
  BY <1>2, <1>3, CopyCounts
<1> QED  BY <1>2, <1>4, <1>5 DEF Counts

LEMMA GiveCounts ==
  ASSUME RefinementInv, NEW t \in Task, Give(t), NEW q, q = call[t].queue, NEW r, r = queue[q],
         NEW holder, holder = {}
  PROVE  Counts(q, r.uxMessagesWaiting + 1, r.cTxLock, r.cRxLock, holder)
<1>1. pc[t] = "test"
  BY DEF Give, Runs
<1>2. q \in Queue /\ r \in QueueRecord(q) /\ queue \in [Queue -> UNION {QueueRecord(p) : p \in Queue}]
  BY <1>1, CallType DEF RefinementInv, QueuesOK
<1>3. PICK s : s = [r EXCEPT !.pxMutexHolder = holder, !.uxMessagesWaiting = r.uxMessagesWaiting + 1]
  OBVIOUS
<1>4. queue' = [queue EXCEPT ![q] = s]
  BY <1>3 DEF Give
<1>5. /\ s.uxMessagesWaiting = r.uxMessagesWaiting + 1 /\ s.cTxLock = r.cTxLock
      /\ s.cRxLock = r.cRxLock /\ s.pxMutexHolder = holder
  BY <1>2, <1>3 DEF QueueRecord
<1> QED  BY <1>2, <1>4, <1>5 DEF Counts

LEMMA ReceiveCounts ==
  ASSUME RefinementInv, NEW t \in Task, ReceiveItem(t), NEW q, q = call[t].queue, NEW r, r = queue[q],
         NEW holder, holder = IF q \in Mutex THEN {t} ELSE r.pxMutexHolder
  PROVE  Counts(q, r.uxMessagesWaiting - 1, r.cTxLock, r.cRxLock, holder)
<1>1. pc[t] = "test"
  BY DEF ReceiveItem, Runs
<1>2. q \in Queue /\ r \in QueueRecord(q) /\ queue \in [Queue -> UNION {QueueRecord(p) : p \in Queue}]
  BY <1>1, CallType DEF RefinementInv, QueuesOK
<1>3. PICK s : s = TakeFromQueue(q, r)
  OBVIOUS
<1>4. queue' = [queue EXCEPT ![q] = [s EXCEPT !.pxMutexHolder = holder]]
  BY <1>3 DEF ReceiveItem
<1>5. PICK u : u = [s EXCEPT !.pxMutexHolder = holder]
  OBVIOUS
<1>6. /\ u.uxMessagesWaiting = r.uxMessagesWaiting - 1 /\ u.cTxLock = r.cTxLock
      /\ u.cRxLock = r.cRxLock /\ u.pxMutexHolder = holder
  BY <1>2, <1>3, <1>5, TakeCounts
<1>7. queue' = [queue EXCEPT ![q] = u]
  BY <1>4, <1>5
<1> QED  BY <1>2, <1>6, <1>7 DEF Counts

\* prvLockQueue and the halves of prvUnlockQueue.
LEMMA LockCounts ==
  ASSUME RefinementInv, NEW t \in Task, LockQueue(t) \/ UnlockTx(t) \/ UnlockRx(t),
         NEW q, q = call[t].queue, NEW r, r = queue[q]
  PROVE  /\ q \in Queue /\ r \in QueueRecord(q)
         /\ LockQueue(t) =>
              Counts(q, r.uxMessagesWaiting, Locked(r.cTxLock), Locked(r.cRxLock), r.pxMutexHolder)
         /\ UnlockTx(t) => Counts(q, r.uxMessagesWaiting, -1, r.cRxLock, r.pxMutexHolder)
         /\ UnlockRx(t) => Counts(q, r.uxMessagesWaiting, r.cTxLock, -1, r.pxMutexHolder)
<1>1. pc[t] # "out"
  BY DEF LockQueue, UnlockTx, UnlockRx, Runs
<1>2. q \in Queue /\ r \in QueueRecord(q) /\ queue \in [Queue -> UNION {QueueRecord(p) : p \in Queue}]
  BY <1>1, CallType DEF RefinementInv, QueuesOK
<1>3. ASSUME LockQueue(t)
      PROVE  Counts(q, r.uxMessagesWaiting, Locked(r.cTxLock), Locked(r.cRxLock), r.pxMutexHolder)
  <2>1. queue' = [queue EXCEPT ![q] = [r EXCEPT !.cTxLock = Locked(r.cTxLock),
                                                !.cRxLock = Locked(r.cRxLock)]]
    BY <1>3 DEF LockQueue
  <2> QED  BY <1>2, <2>1 DEF Counts, QueueRecord
<1>4. ASSUME UnlockTx(t) PROVE Counts(q, r.uxMessagesWaiting, -1, r.cRxLock, r.pxMutexHolder)
  <2>1. queue' = [queue EXCEPT ![q] = [r EXCEPT !.cTxLock = -1]]
    BY <1>2, <1>4 DEF UnlockTx, queueUNLOCKED
  <2> QED  BY <1>2, <2>1 DEF Counts, QueueRecord
<1>5. ASSUME UnlockRx(t) PROVE Counts(q, r.uxMessagesWaiting, r.cTxLock, -1, r.pxMutexHolder)
  <2>1. queue' = [queue EXCEPT ![q] = [r EXCEPT !.cRxLock = -1]]
    BY <1>2, <1>5 DEF UnlockRx, queueUNLOCKED
  <2> QED  BY <1>2, <2>1 DEF Counts, QueueRecord
<1> QED  BY <1>2, <1>3, <1>4, <1>5

\* What an interrupt counts while the queue is locked.
OneMore(lock) == IF lock = queueUNLOCKED THEN queueUNLOCKED ELSE lock + 1

\* xQueueGenericSendFromISR and xQueueReceiveFromISR.
LEMMA ISRCounts ==
  ASSUME RefinementInv, NEW q \in Queue, SendFromISR(q) \/ ReceiveFromISR(q), NEW r, r = queue[q]
  PROVE  /\ r \in QueueRecord(q)
         /\ SendFromISR(q) =>
              Counts(q, r.uxMessagesWaiting + 1, OneMore(r.cTxLock), r.cRxLock, r.pxMutexHolder)
         /\ ReceiveFromISR(q) =>
              Counts(q, r.uxMessagesWaiting - 1, r.cTxLock, OneMore(r.cRxLock), r.pxMutexHolder)
<1>1. r \in QueueRecord(q) /\ queue \in [Queue -> UNION {QueueRecord(p) : p \in Queue}]
  BY DEF RefinementInv, QueuesOK
<1>2. ASSUME SendFromISR(q)
      PROVE  Counts(q, r.uxMessagesWaiting + 1, OneMore(r.cTxLock), r.cRxLock, r.pxMutexHolder)
  <2>1. PICK s : s = CopyToQueue(q, r, ISRItem, "back")
    OBVIOUS
  <2>2. PICK u : u = [s EXCEPT !.cTxLock = OneMore(r.cTxLock)]
    OBVIOUS
  <2>3. queue' = [queue EXCEPT ![q] = u]
    BY <1>2, <2>1, <2>2 DEF SendFromISR, OneMore
  <2>4. /\ u.uxMessagesWaiting = r.uxMessagesWaiting + 1 /\ u.cTxLock = OneMore(r.cTxLock)
        /\ u.cRxLock = r.cRxLock /\ u.pxMutexHolder = r.pxMutexHolder
    BY <1>1, <2>1, <2>2, CopyCounts
  <2> QED  BY <1>1, <2>3, <2>4 DEF Counts
<1>3. ASSUME ReceiveFromISR(q)
      PROVE  Counts(q, r.uxMessagesWaiting - 1, r.cTxLock, OneMore(r.cRxLock), r.pxMutexHolder)
  <2>1. PICK s : s = TakeFromQueue(q, r)
    OBVIOUS
  <2>2. PICK u : u = [s EXCEPT !.cRxLock = OneMore(r.cRxLock)]
    OBVIOUS
  <2>3. queue' = [queue EXCEPT ![q] = u]
    BY <1>3, <2>1, <2>2 DEF ReceiveFromISR, OneMore
  <2>4. /\ u.uxMessagesWaiting = r.uxMessagesWaiting - 1 /\ u.cTxLock = r.cTxLock
        /\ u.cRxLock = OneMore(r.cRxLock) /\ u.pxMutexHolder = r.pxMutexHolder
    BY <1>1, <2>1, <2>2, TakeCounts
  <2> QED  BY <1>1, <2>3, <2>4 DEF Counts
<1> QED  BY <1>1, <1>2, <1>3

\* The other steps leave the queues alone.
LEMMA QueueSame ==
  ASSUME NEW t \in Task, TaskStep(t),
         ~(SendItem(t) \/ Give(t) \/ ReceiveItem(t) \/ LockQueue(t) \/ UnlockTx(t) \/ UnlockRx(t))
  PROVE  queue' = queue
BY DEF TaskStep, Peek, TestFails, Suspend, CheckForTimeOut, Look, Place, Sleep, Resume, Yield,
       Return, LastLook

\* The counts of a locked queue stay within the bound.
LEMMA LockBoundsInv ==
  ASSUME StructureInv, Next
  PROVE  LockBounds'
<1> USE DEF StructureInv
<1>0. RefinementInv /\ LockBounds /\ MaxLock \in Nat
  BY BoundAssumption
<1>1. ASSUME queue' = queue PROVE LockBounds'
  BY <1>0, <1>1 DEF LockBounds
<1>2. ASSUME NEW q \in Queue, NEW n, NEW holder, NEW tx \in queueUNLOCKED..MaxLock,
             NEW rx \in queueUNLOCKED..MaxLock, Counts(q, n, tx, rx, holder)
      PROVE  LockBounds'
  BY <1>0, <1>2 DEF LockBounds, Counts
<1>3. CASE Interrupt
  <2>1. CASE Tick
    BY <1>1, <2>1 DEF Tick
  <2>2. ASSUME NEW q \in Queue \ Mutex, SendFromISR(q) \/ ReceiveFromISR(q) PROVE LockBounds'
    <3>1. PICK r : r = queue[q]
      OBVIOUS
    <3>2. r.cTxLock \in queueUNLOCKED..MaxLock /\ r.cRxLock \in queueUNLOCKED..MaxLock
      BY <1>0, <3>1 DEF LockBounds
    <3>3. /\ SendFromISR(q) => OneMore(r.cTxLock) \in queueUNLOCKED..MaxLock
          /\ ReceiveFromISR(q) => OneMore(r.cRxLock) \in queueUNLOCKED..MaxLock
      <4>1. /\ SendFromISR(q) => r.cTxLock < MaxLock
            /\ ReceiveFromISR(q) => r.cRxLock < MaxLock
        BY <3>1 DEF SendFromISR, ReceiveFromISR
      <4> QED  BY <1>0, <3>2, <4>1 DEF OneMore, queueUNLOCKED
    <3> QED  BY <1>0, <1>2, <2>2, <3>1, <3>2, <3>3, ISRCounts
  <2> QED  BY <1>3, <2>1, <2>2 DEF Interrupt
<1>4. ASSUME NEW c \in program.calls, Call(c) PROVE LockBounds'
  BY <1>1, <1>4 DEF Call
<1>5. ASSUME NEW t \in Task, TaskStep(t) PROVE LockBounds'
  <2>1. PICK q : q = call[t].queue
    OBVIOUS
  <2>2. PICK r : r = queue[q]
    OBVIOUS
  <2>3. q \in Queue
    <3>1. pc[t] # "out"
      BY <1>5, StepRuns
    <3> QED  BY <1>0, <2>1, <3>1, CallType DEF RefinementInv
  <2>4. /\ r.cTxLock \in queueUNLOCKED..MaxLock /\ r.cRxLock \in queueUNLOCKED..MaxLock
        /\ -1 \in queueUNLOCKED..MaxLock
        /\ Locked(r.cTxLock) \in queueUNLOCKED..MaxLock /\ Locked(r.cRxLock) \in queueUNLOCKED..MaxLock
    BY <1>0, <2>2, <2>3 DEF LockBounds, Locked, queueUNLOCKED
  <2>5. CASE SendItem(t)
    BY <1>0, <1>2, <2>1, <2>2, <2>3, <2>4, <2>5, SendCounts
  <2>6. CASE Give(t)
    <3>1. PICK holder : holder = {}
      OBVIOUS
    <3>2. Counts(q, r.uxMessagesWaiting + 1, r.cTxLock, r.cRxLock, holder)
      BY <1>0, <2>1, <2>2, <2>6, <3>1, GiveCounts
    <3> QED  BY <1>2, <2>3, <2>4, <3>2
  <2>7. CASE ReceiveItem(t)
    <3>1. PICK holder : holder = IF q \in Mutex THEN {t} ELSE r.pxMutexHolder
      OBVIOUS
    <3>2. Counts(q, r.uxMessagesWaiting - 1, r.cTxLock, r.cRxLock, holder)
      BY <1>0, <2>1, <2>2, <2>7, <3>1, ReceiveCounts
    <3> QED  BY <1>2, <2>3, <2>4, <3>2
  <2>8. CASE LockQueue(t) \/ UnlockTx(t) \/ UnlockRx(t)
    BY <1>0, <1>2, <2>1, <2>2, <2>3, <2>4, <2>8, LockCounts
  <2> QED  BY <1>1, <1>5, <2>5, <2>6, <2>7, <2>8, QueueSame
<1> QED  BY <1>3, <1>4, <1>5 DEF Next

-----------------------------------------------------------------------------
(* Every step keeps the places. *)

\* The scheduler goes on running.
LEMMA StaysOpen ==
  ASSUME Open, Wakes(k, k'), after' = after, \A u \in Task : pc'[u] \in Elsewhere,
         k'.pxCurrentTCB \in k'.ready \/ pc'[k'.pxCurrentTCB] = "yield"
  PROVE  Open'
BY DEF Open, Wakes

\* It stays suspended.
LEMMA StaysClosed ==
  ASSUME NEW t \in Task, Closed(t), Wakes(k, k'), Others(t), pc'[t] \in Suspending,
         after' \in IF pc'[t] \in Unlocking THEN {"fail", "retry", "wait"} ELSE {"none"},
         after' # "wait" => t \in k.ready
  PROVE  Closed(t)'
BY DEF Closed, Wakes, Others

\* With the scheduler running, a step of a task that is not about to yield.
LEMMA OpenStep ==
  ASSUME Open, k \in Kernel, NEW t \in Task, t = k.pxCurrentTCB, pc[t] # "yield",
         Wakes(k, k'), Others(t), pc'[t] \in Elsewhere, after' = after
  PROVE  Open'
<1>1. t \in k.ready
  BY DEF Open
<1>2. \A u \in Task : pc'[u] \in Elsewhere
  BY DEF Others, Open
<1>3. k'.pxCurrentTCB \in k'.ready
  BY <1>1 DEF Wakes
<1> QED  BY <1>2, <1>3, StaysOpen

\* Where the running task is says whether the scheduler runs.
LEMMA PlaceDecides ==
  ASSUME Places, NEW t \in Task, t = k.pxCurrentTCB
  PROVE  /\ pc[t] \in Elsewhere => Open
         /\ pc[t] \in Suspending => Closed(t)
<1>1. Elsewhere \cap Suspending = {}
  BY DEF Elsewhere, Suspending, Unlocking
<1> QED  BY <1>1 DEF Places, Open, Closed

\* Calls begin, go through or fail with the scheduler running.
LEMMA OpenSteps ==
  ASSUME StructureInv, NEW t \in Task, TaskStep(t),
         \/ SendItem(t) \/ Give(t) \/ ReceiveItem(t) \/ Peek(t) \/ TestFails(t)
         \/ Yield(t) \/ Return(t) \/ LastLook(t)
  PROVE  Open' /\ Wakes(k, k')
<1> USE DEF StructureInv, RefinementInv
<1>1. t = k.pxCurrentTCB /\ Others(t) /\ pc \in [Task -> Labels]
  BY StepRuns, StepOthers DEF CallsOK
<1>2. pc[t] \in {"test", "yield", "return", "last"}
  BY DEF SendItem, Give, ReceiveItem, Peek, TestFails, Yield, Return, LastLook, Runs
<1>3. Open
  BY <1>1, <1>2, PlaceDecides DEF Elsewhere
<1>4. after' = after
  BY DEF SendItem, Give, ReceiveItem, Peek, TestFails, Yield, Return, LastLook
<1>5. pc'[t] \in Elsewhere
  <2>1. Returns(t) \/ Goto(t, "block") \/ Goto(t, "test") \/ Goto(t, "return")
    BY DEF SendItem, Give, ReceiveItem, Peek, TestFails, Yield, Return, LastLook, Awake
  <2> QED  BY <1>1, <2>1 DEF Returns, Goto, Elsewhere
<1>6. CASE SendItem(t) \/ Give(t) \/ ReceiveItem(t) \/ Peek(t)
  <2>1. pc[t] # "yield"
    BY <1>6 DEF SendItem, Give, ReceiveItem, Peek, Runs
  <2>2. Wakes(k, k')
    BY <1>6, GoEffect
  <2> QED  BY <1>1, <1>3, <1>4, <1>5, <2>1, <2>2, OpenStep
<1>7. CASE TestFails(t) \/ Return(t) \/ LastLook(t)
  <2>1. pc[t] # "yield" /\ k' = k
    BY <1>7 DEF TestFails, Return, LastLook, Runs
  <2>2. Wakes(k, k')
    BY <2>1, QuietWakes
  <2> QED  BY <1>1, <1>3, <1>4, <1>5, <2>1, <2>2, OpenStep
<1>8. CASE Yield(t)
  <2>1. Wakes(k, k') /\ k'.pxCurrentTCB \in k'.ready
    BY <1>3, <1>8, YieldEffect DEF Open
  <2>2. \A u \in Task : pc'[u] \in Elsewhere
    BY <1>1, <1>3, <1>5 DEF Others, Open
  <2> QED  BY <1>3, <1>4, <2>1, <2>2, StaysOpen
<1> QED  BY <1>6, <1>7, <1>8

\* The way to the event list, with the scheduler suspended.
LEMMA ClosedSteps ==
  ASSUME StructureInv, NEW t \in Task, TaskStep(t),
         LockQueue(t) \/ CheckForTimeOut(t) \/ Look(t) \/ UnlockTx(t) \/ UnlockRx(t)
  PROVE  Closed(t)' /\ Wakes(k, k')
<1> USE DEF StructureInv, RefinementInv
<1>1. t = k.pxCurrentTCB /\ Others(t) /\ pc \in [Task -> Labels]
  BY StepRuns, StepOthers DEF CallsOK
<1>2. pc[t] \in {"lock", "check", "look", "unlock_tx", "unlock_rx"}
  BY DEF LockQueue, CheckForTimeOut, Look, UnlockTx, UnlockRx, Runs
<1>3. Closed(t)
  BY <1>1, <1>2, PlaceDecides DEF Suspending, Unlocking
<1>4. Wakes(k, k')
  <2>1. CASE LockQueue(t) \/ CheckForTimeOut(t) \/ Look(t)
    <3>1. k' = k
      BY <2>1 DEF LockQueue, CheckForTimeOut, Look
    <3> QED  BY <3>1, QuietWakes
  <2>2. ASSUME NEW l \in Lists, NEW n \in Int, n >= -1, k' = WakeSome(l, n) PROVE Wakes(k, k')
    <3>1. PICK m : m = Locked(n)
      OBVIOUS
    <3>2. m \in Nat
      BY <2>2, <3>1 DEF Locked, queueUNLOCKED
    <3> QED  BY <1>3, <2>2, <3>1, <3>2, UnlockEffect DEF Closed
  <2>3. CASE UnlockTx(t) \/ UnlockRx(t)
    <3>1. PICK q : q = call[t].queue
      OBVIOUS
    <3>2. q \in Queue
      BY <1>2, <3>1, CallType
    <3>3. /\ queue[q].cTxLock \in Int /\ queue[q].cTxLock >= -1
          /\ queue[q].cRxLock \in Int /\ queue[q].cRxLock >= -1
      BY <3>2, BoundAssumption DEF LockBounds, queueUNLOCKED
    <3>4. <<q, "send">> \in Lists /\ <<q, "receive">> \in Lists
      BY <3>2 DEF Lists, Directions
    <3>5. k' = WakeSome(<<q, "receive">>, queue[q].cTxLock) \/ k' = WakeSome(<<q, "send">>, queue[q].cRxLock)
      BY <2>3, <3>1 DEF UnlockTx, UnlockRx
    <3> QED  BY <2>2, <3>3, <3>4, <3>5
  <2> QED  BY <2>1, <2>3
<1>5. CASE LockQueue(t) \/ CheckForTimeOut(t) \/ Look(t)
  <2>1. pc[t] \in {"lock", "check", "look"}
    BY <1>5 DEF LockQueue, CheckForTimeOut, Look, Runs
  <2>2. \/ pc'[t] \in {"check", "look", "place"} /\ after' = after
        \/ pc'[t] = "unlock_tx" /\ after' \in {"fail", "retry"}
    BY <1>1, <1>5 DEF LockQueue, CheckForTimeOut, Look, Goto
  <2>3. after = "none" /\ t \in k.ready
    BY <1>3, <2>1 DEF Closed, Unlocking
  <2> QED  BY <1>1, <1>3, <1>4, <2>2, <2>3, StaysClosed DEF Suspending, Unlocking
<1>6. CASE UnlockTx(t) \/ UnlockRx(t)
  <2>1. pc'[t] \in Unlocking /\ after' = after /\ pc[t] \in Unlocking
    BY <1>1, <1>6 DEF UnlockTx, UnlockRx, Goto, Runs, Unlocking
  <2> QED  BY <1>1, <1>3, <1>4, <2>1, StaysClosed DEF Closed, Suspending
<1> QED  BY <1>5, <1>6

\* The scheduler is suspended on the way to the event list.
LEMMA SuspendStep ==
  ASSUME StructureInv, NEW t \in Task, TaskStep(t), Suspend(t)
  PROVE  Closed(t)'
<1> USE DEF StructureInv, RefinementInv
<1>1. t = k.pxCurrentTCB /\ Others(t) /\ pc \in [Task -> Labels] /\ pc[t] = "block"
  BY StepRuns, StepOthers DEF CallsOK, Suspend, Runs
<1>2. Open
  BY <1>1, PlaceDecides DEF Elsewhere
<1>3. k'.ready = k.ready /\ k'.uxSchedulerSuspended = 1 /\ k'.pxCurrentTCB = t
  BY <1>1, <1>2, SuspendEffect DEF Open, SameLists
<1>4. pc'[t] \in {"sleep", "lock"} /\ after' = "none"
  BY <1>1, <1>2 DEF Suspend, Goto, Open
<1>5. t \in k.ready /\ \A u \in Task \ {t} : pc'[u] \in Elsewhere
  BY <1>1, <1>2 DEF Open, Others
<1> QED  BY <1>3, <1>4, <1>5 DEF Closed, Suspending, Unlocking

\* The running task blocks itself there.
LEMMA BlockStep ==
  ASSUME StructureInv, NEW t \in Task, TaskStep(t), Place(t) \/ Sleep(t),
         NEW lists, lists = IF Place(t) THEN {<<call[t].queue, Way(t)>>} ELSE {}
  PROVE  Closed(t)' /\ Blocks(k, k', t, lists) /\ Sleeps(k, k', t, xTicksToWait[t])
<1> USE DEF StructureInv, RefinementInv
<1>1. t = k.pxCurrentTCB /\ Others(t) /\ pc \in [Task -> Labels] /\ pc[t] \in {"place", "sleep"}
  BY StepRuns, StepOthers DEF CallsOK, Place, Sleep, Runs
<1>2. Closed(t)
  BY <1>1, PlaceDecides DEF Suspending
<1>3. t \in k.ready
  BY <1>1, <1>2 DEF Closed, Unlocking
<1>4. Blocks(k, k', t, lists) /\ Sleeps(k, k', t, xTicksToWait[t])
  <2>1. CASE Place(t)
    <3>1. PICK l : l = <<call[t].queue, Way(t)>>
      OBVIOUS
    <3>2. Blocks(k, k', t, {l}) /\ Sleeps(k, k', t, xTicksToWait[t])
      BY <1>3, <2>1, <3>1, PlaceEffect
    <3>3. lists = {l}
      BY <2>1, <3>1
    <3> QED  BY <3>2, <3>3
  <2>2. CASE ~Place(t)
    BY <1>3, <2>2, SleepEffect
  <2> QED  BY <2>1, <2>2
<1>5. pc'[t] \in Unlocking /\ after' = "wait"
  BY <1>1 DEF Place, Sleep, Goto, Unlocking
<1>6. k'.uxSchedulerSuspended = 1 /\ k'.pxCurrentTCB = t
  BY <1>2, <1>4 DEF Blocks, SameRun, Closed
<1> QED  BY <1>1, <1>2, <1>4, <1>5, <1>6 DEF Closed, Others, Suspending

\* xTaskResumeAll, and the task goes on, or waits for its turn.
LEMMA ResumeStep ==
  ASSUME StructureInv, NEW t \in Task, TaskStep(t), Resume(t)
  PROVE  Open' /\ ResumedAll(k, k')
<1> USE DEF StructureInv, RefinementInv
<1>1. t = k.pxCurrentTCB /\ Others(t) /\ pc \in [Task -> Labels] /\ pc[t] = "resume"
  BY StepRuns, StepOthers DEF CallsOK, Resume, Runs
<1>2. Closed(t)
  BY <1>1, PlaceDecides DEF Suspending, Unlocking
<1>3. PICK yield : yield = ResumeAll(k).yield
  OBVIOUS
<1>4. /\ ResumedAll(k, k')
      /\ yield => k'.pxCurrentTCB \in k'.ready
      /\ ~yield => k'.pxCurrentTCB = k.pxCurrentTCB
  BY <1>2, <1>3, ResumeEffect DEF Closed
<1>5. pc'[t] \in Elsewhere /\ after' = "none"
  BY <1>1 DEF Resume, Returns, Goto, Awake, Elsewhere
<1>6. ~yield /\ after = "wait" => pc'[t] = "yield"
  BY <1>1, <1>3 DEF Resume, Goto
<1>7. ~yield /\ after # "wait" => t \in k.ready
  BY <1>2 DEF Closed
<1>8. k'.pxCurrentTCB \in k'.ready \/ pc'[k'.pxCurrentTCB] = "yield"
  BY <1>1, <1>4, <1>6, <1>7 DEF ResumedAll
<1> QED  BY <1>1, <1>2, <1>4, <1>5, <1>8 DEF Open, Closed, Others, ResumedAll

\* A call begins.
LEMMA BeginStep ==
  ASSUME StructureInv, NEW c \in program.calls, Call(c)
  PROVE  Open' /\ k' = k
<1> USE DEF StructureInv, RefinementInv
<1>1. PICK t : t = c.task
  OBVIOUS
<1>2. /\ t \in Task /\ t = k.pxCurrentTCB /\ pc[t] = "out"
      /\ pc' = [pc EXCEPT ![t] = IF c.op = "delay" THEN "block" ELSE "test"]
      /\ UNCHANGED <<k, after>>
  BY <1>1, CallBegins
<1>3. Open
  BY <1>2, PlaceDecides DEF Elsewhere
<1>4. \A u \in Task : pc'[u] \in Elsewhere
  BY <1>2, <1>3 DEF CallsOK, Open, Elsewhere
<1>5. t \in k.ready
  BY <1>2, <1>3 DEF Open
<1> QED  BY <1>2, <1>3, <1>4, <1>5 DEF Open

\* Interrupts leave the tasks where they are.
LEMMA InterruptStep ==
  ASSUME StructureInv, Interrupt
  PROVE  Places' /\ Wakes(k, k') /\ UNCHANGED <<pc, tasks, after>>
<1> USE DEF StructureInv, RefinementInv
<1>1. UNCHANGED <<pc, tasks, after>>
  BY DEF Interrupt, Tick, SendFromISR, ReceiveFromISR
<1>2. Wakes(k, k')
  <2>1. CASE Tick
    BY <2>1, TickEffect DEF Places, Open, Closed
  <2>2. ASSUME NEW q \in Queue \ Mutex, SendFromISR(q) PROVE Wakes(k, k')
    <3>1. PICK locked \in BOOLEAN : locked <=> queue[q].cTxLock # queueUNLOCKED
      OBVIOUS
    <3>2. PICK way : way = "receive"
      OBVIOUS
    <3>3. IF locked THEN k' = k ELSE EndInterrupt(Wake(k, <<q, way>>, FALSE))
      BY <2>2, <3>1, <3>2 DEF SendFromISR
    <3> QED  BY <3>1, <3>2, <3>3, ISREffect DEF Directions
  <2>3. ASSUME NEW q \in Queue \ Mutex, ReceiveFromISR(q) PROVE Wakes(k, k')
    <3>1. PICK locked \in BOOLEAN : locked <=> queue[q].cRxLock # queueUNLOCKED
      OBVIOUS
    <3>2. PICK way : way = "send"
      OBVIOUS
    <3>3. IF locked THEN k' = k ELSE EndInterrupt(Wake(k, <<q, way>>, FALSE))
      BY <2>3, <3>1, <3>2 DEF ReceiveFromISR
    <3> QED  BY <3>1, <3>2, <3>3, ISREffect DEF Directions
  <2> QED  BY <2>1, <2>2, <2>3 DEF Interrupt
<1>3. Places'
  <2>1. CASE Open
    <3>1. k'.pxCurrentTCB \in k'.ready \/ pc'[k'.pxCurrentTCB] = "yield"
      BY <1>1, <1>2, <2>1 DEF Open, Wakes
    <3>2. Open'
      BY <1>1, <1>2, <2>1, <3>1, StaysOpen DEF Open
    <3> QED  BY <3>2 DEF Places
  <2>2. ASSUME NEW t \in Task, Closed(t) PROVE Places'
    <3>1. Closed(t)'
      BY <1>1, <1>2, <2>2 DEF Closed, Wakes
    <3> QED  BY <3>1 DEF Places
  <2> QED  BY <2>1, <2>2 DEF Places
<1> QED  BY <1>1, <1>2, <1>3

-----------------------------------------------------------------------------
(* Who waits will look again. *)

\* A step of task t changes nothing about what the others will try.
LEMMA OthersTry ==
  ASSUME StructureInv, NEW t \in Task, TaskStep(t), NEW u \in Task \ {t}, NEW q, NEW way
  PROVE  Tries(u, q, way)' <=> Tries(u, q, way)
<1>1. Others(t) /\ pc[u] \in Elsewhere
  BY StepOthers, StepRuns, OthersElsewhere DEF StructureInv, RefinementInv
<1> QED  BY <1>1 DEF Others, Tries, Way, Sends, Elsewhere, Unlocking

\* A ready task waits for nothing.
LEMMA ReadyWaits ==
  ASSUME Sound(k), NEW t \in Task, t \in k.ready, NEW l \in Lists
  PROVE  ~Waits(k, t, l)
BY DEF Sound, Awoken

\* What a step of the running task leaves in the event lists.
LEMMA WaitsStep ==
  ASSUME StructureInv, NEW t \in Task, TaskStep(t)
  PROVE  /\ k' \in Kernel /\ Sound(k') /\ Places'
         /\ \A u \in Task : \A l \in Lists : Waits(k', u, l) =>
              Waits(k, u, l) \/ (u = t /\ Place(t) /\ l = <<call[t].queue, Way(t)>>)
<1> USE DEF StructureInv
<1>1. CASE SendItem(t) \/ Give(t) \/ ReceiveItem(t) \/ Peek(t) \/ TestFails(t) \/ Yield(t) \/ Return(t) \/ LastLook(t)
  BY <1>1, OpenSteps DEF Places, Wakes
<1>2. CASE LockQueue(t) \/ CheckForTimeOut(t) \/ Look(t) \/ UnlockTx(t) \/ UnlockRx(t)
  <2>1. Closed(t)' /\ Wakes(k, k')
    BY <1>2, ClosedSteps
  <2> QED  BY <2>1 DEF Places, Wakes
<1>3. CASE Suspend(t)
  <2>1. Closed(t)'
    BY <1>3, SuspendStep
  <2>2. k.uxSchedulerSuspended = 0
    <3>1. t = k.pxCurrentTCB /\ pc[t] = "block"
      BY <1>3 DEF Suspend, Runs
    <3> QED  BY <3>1, PlaceDecides DEF Elsewhere, Open
  <2>3. k' \in Kernel /\ Sound(k') /\ SameLists(k, k')
    BY <1>3, <2>2, SuspendEffect
  <2> QED  BY <2>1, <2>3 DEF Places, SameLists, Waits
<1>4. CASE Place(t) \/ Sleep(t)
  <2>1. PICK lists : lists = IF Place(t) THEN {<<call[t].queue, Way(t)>>} ELSE {}
    OBVIOUS
  <2>2. Closed(t)' /\ Blocks(k, k', t, lists)
    BY <1>4, <2>1, BlockStep
  <2> QED  BY <2>1, <2>2 DEF Places, Blocks
<1>5. CASE Resume(t)
  BY <1>5, ResumeStep DEF Places, ResumedAll
<1> QED  BY <1>1, <1>2, <1>3, <1>4, <1>5 DEF TaskStep

\* A task that is in an event list is on the way to a further look.
LEMMA WaitOKStep ==
  ASSUME StructureInv, NEW t \in Task, TaskStep(t)
  PROVE  WaitOK'
<1> USE DEF StructureInv, RefinementInv
<1>1. t = k.pxCurrentTCB /\ pc \in [Task -> Labels] /\ call \in [Task -> program.calls \cup {NoCall}]
  BY StepRuns DEF CallsOK
<1> SUFFICES ASSUME NEW u \in Task, NEW q \in Queue, NEW way \in Directions, Waits(k', u, <<q, way>>)
             PROVE  Tries(u, q, way)'
  BY DEF WaitOK
<1>2. <<q, way>> \in Lists
  BY DEF Lists
<1>3. Waits(k, u, <<q, way>>) \/ (u = t /\ Place(t) /\ q = call[t].queue /\ way = Way(t))
  BY <1>2, WaitsStep
<1>4. CASE u # t
  <2>1. Tries(u, q, way)
    BY <1>3, <1>4 DEF WaitOK
  <2> QED  BY <1>4, <2>1, OthersTry
<1>5. CASE u = t /\ Place(t)
  <2>1. pc'[t] = "unlock_tx" /\ after' = "wait" /\ call' = call /\ pc[t] = "place"
    BY <1>1, <1>5 DEF Place, Goto, Runs, tasks
  <2>2. call[t].op # "delay"
    BY <2>1 DEF CallPlaces
  <2>3. Waits(k, t, <<q, way>>) => FALSE
    <3>1. Closed(t)
      BY <1>1, <2>1, PlaceDecides DEF Suspending
    <3>2. t \in k.ready
      BY <2>1, <3>1 DEF Closed, Unlocking
    <3> QED  BY <1>2, <3>2, ReadyWaits
  <2> QED  BY <1>3, <1>5, <2>1, <2>2, <2>3 DEF Tries, Way, Sends, Unlocking
<1>6. CASE u = t /\ ~Place(t)
  <2>1. Waits(k, t, <<q, way>>) /\ Tries(t, q, way) /\ t \notin k.ready
    BY <1>2, <1>3, <1>6, ReadyWaits DEF WaitOK
  <2>2. pc[t] = "yield" \/ (pc[t] \in Unlocking /\ after = "wait")
    BY <1>1, <2>1 DEF Places, Open, Closed
  <2>3. Yield(t) \/ UnlockTx(t) \/ UnlockRx(t) \/ Resume(t)
    BY <1>6, <2>2 DEF TaskStep, SendItem, Give, ReceiveItem, Peek, TestFails, Suspend, LockQueue,
       CheckForTimeOut, Look, Place, Sleep, Return, LastLook, Runs, Unlocking
  <2>4. call[t].op # "delay" /\ call[t].queue = q /\ Way(t) = way
    BY <2>1 DEF Tries
  <2>5. call' = call /\ (pc'[t] \in {"test", "yield"} \/ (pc'[t] \in Unlocking /\ after' = "wait"))
    <3>1. CASE Yield(t)
      BY <1>1, <2>4, <3>1 DEF Yield, Goto, Awake, tasks
    <3>2. CASE UnlockTx(t) \/ UnlockRx(t)
      BY <1>1, <2>2, <3>2 DEF UnlockTx, UnlockRx, Goto, Runs, Unlocking, tasks
    <3>3. CASE Resume(t)
      <4>1. after = "wait"
        BY <2>2, <3>3 DEF Resume, Runs
      <4> QED  BY <1>1, <2>4, <3>3, <4>1 DEF Resume, Goto, Awake, tasks
    <3> QED  BY <2>3, <3>1, <3>2, <3>3
  <2> QED  BY <1>6, <2>4, <2>5 DEF Tries, Way, Sends
<1> QED  BY <1>4, <1>5, <1>6

\* The invariant is kept by every step.
LEMMA StructureStep ==
  ASSUME StructureInv, [Next]_vars
  PROVE  StructureInv'
<1>1. CASE UNCHANGED vars
  <2>1. UNCHANGED <<program, k, queue, pc, call, xTicksToWait, xTimeOut, entered, after, time>>
    BY <1>1 DEF vars, tasks
  <2>2. RefinementInv'
    BY CallsInv, StepImplements DEF StructureInv, RefinementInv, StepOK
  <2>3. LockBounds' /\ k' \in Kernel /\ Sound(k')
    BY <2>1 DEF StructureInv, LockBounds
  <2>4. Places' /\ CallPlaces'
    BY <2>1 DEF StructureInv, Places, Open, Closed, CallPlaces
  <2>5. WaitOK' /\ TicksOK'
    BY <2>1 DEF StructureInv, WaitOK, Tries, Way, Sends, TicksOK
  <2> QED  BY <2>2, <2>3, <2>4, <2>5 DEF StructureInv
<1>2. CASE Next
  <2>1. RefinementInv' /\ LockBounds' /\ CallPlaces' /\ TicksOK'
    BY <1>2, CallsInv, StepImplements, LockBoundsInv, CallPlacesInv, TicksStep
       DEF StructureInv, RefinementInv, StepOK
  <2>2. k' \in Kernel /\ Sound(k') /\ Places' /\ WaitOK'
    <3>1. CASE Interrupt
      <4>1. Places' /\ Wakes(k, k') /\ UNCHANGED <<pc, tasks, after>>
        BY <3>1, InterruptStep
      <4>2. \A t \in Task : \A q \in Queue : \A way \in Directions : Tries(t, q, way)' = Tries(t, q, way)
        BY <4>1 DEF Tries, Way, Sends, tasks
      <4>3. WaitOK'
        BY <4>1, <4>2 DEF StructureInv, WaitOK, Wakes, Lists
      <4> QED  BY <4>1, <4>3 DEF Wakes
    <3>2. ASSUME NEW c \in program.calls, Call(c) PROVE k' \in Kernel /\ Sound(k') /\ Places' /\ WaitOK'
      <4>1. Open' /\ k' = k
        BY <3>2, BeginStep
      <4>2. PICK t : t = c.task
        OBVIOUS
      <4>3. /\ t \in Task /\ t = k.pxCurrentTCB /\ pc[t] = "out"
            /\ pc' = [pc EXCEPT ![t] = IF c.op = "delay" THEN "block" ELSE "test"]
            /\ call' = [call EXCEPT ![t] = c] /\ after' = after
        BY <3>2, <4>2, CallBegins DEF StructureInv, RefinementInv
      <4>4. \A u \in Task : \A q \in Queue : \A way \in Directions : Tries(u, q, way) => Tries(u, q, way)'
        <5>1. pc \in [Task -> Labels] /\ call \in [Task -> program.calls \cup {NoCall}]
          BY DEF StructureInv, RefinementInv, CallsOK
        <5>2. ASSUME NEW u \in Task \ {t} PROVE pc'[u] = pc[u] /\ call'[u] = call[u]
          BY <4>3, <5>1
        <5>3. \A q \in Queue : \A way \in Directions : ~Tries(t, q, way)
          BY <4>3 DEF Tries, Unlocking
        <5> QED  BY <4>3, <5>2, <5>3 DEF Tries, Way, Sends
      <4>5. WaitOK'
        BY <4>1, <4>4 DEF StructureInv, WaitOK
      <4> QED  BY <4>1, <4>5 DEF StructureInv, Places
    <3>3. ASSUME NEW t \in Task, TaskStep(t) PROVE k' \in Kernel /\ Sound(k') /\ Places' /\ WaitOK'
      BY <3>3, WaitsStep, WaitOKStep
    <3> QED  BY <1>2, <3>1, <3>2, <3>3 DEF Next
  <2> QED  BY <2>1, <2>2 DEF StructureInv
<1> QED  BY <1>1, <1>2

\* The lists of the scheduler agree.
LEMMA StructureLists ==
  ASSUME StructureInv
  PROVE  ListsAgree
<1> DEFINE States == <<k.ready, k.delayed, k.overflow, k.suspended>>
           InEvent(t) == {l \in Lists : \E i \in DOMAIN k.waiting[l] : k.waiting[l][i] = t}
<1>1. k \in Kernel /\ Sound(k) /\ Places
  BY DEF StructureInv
<1>2. \A l \in Lists : DOMAIN k.waiting[l] = 1..Len(k.waiting[l])
  BY <1>1, Fields
<1>3. UNION {States[i] : i \in 1..4} = Task
  <2>1. {States[i] : i \in 1..4} = {k.ready, k.delayed, k.overflow, k.suspended}
    <3>1. 1..4 = {1, 2, 3, 4}
      OBVIOUS
    <3>2. States[1] = k.ready /\ States[2] = k.delayed /\ States[3] = k.overflow /\ States[4] = k.suspended
      OBVIOUS
    <3> HIDE DEF States
    <3> QED  BY <3>1, <3>2
  <2>2. UNION {k.ready, k.delayed, k.overflow, k.suspended} = Task
    BY <1>1 DEF Sound
  <2> QED  BY <2>1, <2>2
<1>4. \A i, j \in 1..4 : i # j => States[i] \cap States[j] = {}
  <2>1. States[1] = k.ready /\ States[2] = k.delayed /\ States[3] = k.overflow /\ States[4] = k.suspended
    OBVIOUS
  <2>2. /\ k.ready \cap k.delayed = {} /\ k.ready \cap k.overflow = {} /\ k.ready \cap k.suspended = {}
        /\ k.delayed \cap k.overflow = {} /\ k.delayed \cap k.suspended = {}
        /\ k.overflow \cap k.suspended = {}
    BY <1>1 DEF Sound
  <2> HIDE DEF States
  <2> QED  BY <2>1, <2>2
<1>5. \A l \in Lists : \A i, j \in DOMAIN k.waiting[l] : i # j => k.waiting[l][i] # k.waiting[l][j]
  BY <1>1, <1>2 DEF Sound
<1>6. ASSUME NEW t \in Task
      PROVE  Cardinality(InEvent(t)) <= 1 /\ (InEvent(t) # {} => t \notin k.ready \cup k.pending)
  <2>1. \A l \in Lists : l \in InEvent(t) <=> Waits(k, t, l)
    BY <1>2 DEF Waits
  <2>2. \A l, m \in InEvent(t) : l = m
    BY <1>1, <2>1 DEF Sound
  <2>3. InEvent(t) # {} => t \notin k.ready \cup k.pending
    BY <1>1, <2>1 DEF Sound, Awoken
  <2>4. Cardinality(InEvent(t)) <= 1
    <3> HIDE DEF InEvent
    <3>1. CASE InEvent(t) = {}
      BY <3>1, FS_EmptySet
    <3>2. ASSUME NEW l \in InEvent(t) PROVE Cardinality(InEvent(t)) <= 1
      <4>1. InEvent(t) = {l}
        BY <2>2
      <4>2. Cardinality({l}) = 1
        BY FS_Singleton
      <4> QED  BY <4>1, <4>2
    <3> QED  BY <3>1, <3>2
  <2> QED  BY <2>3, <2>4
<1>7. k.pending \cap k.ready = {} /\ (k.uxSchedulerSuspended = 0 => k.pending = {})
  BY <1>1 DEF Sound, Places, Open, Closed
<1> HIDE DEF States, InEvent
<1> QED  BY <1>3, <1>4, <1>5, <1>6, <1>7 DEF ListsAgree, States, InEvent

\* Whatever tasks, interrupts and ticks do, each task is in one of the scheduler's lists and waits
\* in at most one event list, from which prvUnlockQueue, xTaskIncrementTick and xTaskResumeAll
\* take it as soon as it is no longer blocked.
THEOREM ListsAlwaysAgree == Spec => []ListsAgree
<1>1. Init => StructureInv
  BY InitStructure
<1>2. StructureInv /\ [Next]_vars => StructureInv'
  BY StructureStep
<1>3. StructureInv => ListsAgree
  BY StructureLists
<1> QED  BY <1>1, <1>2, <1>3, PTL DEF Spec

-----------------------------------------------------------------------------
(* Wake-ups. *)

\* What can be had from a queue, what interrupts have moved while it is locked, and who is awake
\* and will look at it.
Available(q, way) ==
  IF way = "receive" THEN queue[q].uxMessagesWaiting ELSE uxLength[q] - queue[q].uxMessagesWaiting
Moved(q, way) == Locked(IF way = "receive" THEN queue[q].cTxLock ELSE queue[q].cRxLock)
Retriers(q, way) == {t \in Awoken(k) : Tries(t, q, way)}

\* A task that checks, looks and places itself has locked its queue; when it has looked, there is
\* no more to be had than interrupts have moved since, and will be woken for.
LooksOK ==
  LET t == k.pxCurrentTCB
      q == call[t].queue
  IN /\ pc[t] \in {"check", "look", "place"} => queue[q].cTxLock >= 0 /\ queue[q].cRxLock >= 0
     /\ pc[t] = "place" => Available(q, Way(t)) <= Moved(q, Way(t))

\* While tasks wait, each item (or room for one) is covered by a task that is awake, or that
\* prvUnlockQueue will wake.
Covered ==
  \A q \in Queue : \A way \in Directions :
    Waiting(q, way) => Available(q, way) <= Moved(q, way) + Cardinality(Retriers(q, way))

WakeupInv == StructureInv /\ LooksOK /\ Covered

\* Cardinalities of sets of tasks.
LEMMA CardGrows ==
  ASSUME NEW R \in SUBSET Task, NEW S \in SUBSET Task
  PROVE  /\ Cardinality(R) \in Nat /\ Cardinality(S) \in Nat
         /\ R \subseteq S => Cardinality(R) <= Cardinality(S)
         /\ \A t : R \ {t} \subseteq S => Cardinality(R) <= Cardinality(S) + 1
         /\ \A h \in S : h \notin R /\ R \subseteq S => Cardinality(R) + 1 <= Cardinality(S)
         /\ \A t : \A h \in S : h \notin R /\ R \ {t} \subseteq S => Cardinality(R) <= Cardinality(S)
         /\ \A W \in SUBSET S : W \cap R = {} /\ R \subseteq S =>
              Cardinality(W) \in Nat /\ Cardinality(R) + Cardinality(W) <= Cardinality(S)
<1>1. IsFiniteSet(Task)
  BY TaskAssumption
<1>2. ASSUME NEW A \in SUBSET Task
      PROVE  IsFiniteSet(A) /\ Cardinality(A) \in Nat /\ \A B \in SUBSET A : Cardinality(B) <= Cardinality(A)
  <2>1. IsFiniteSet(A)
    BY <1>1, FS_Subset
  <2> QED  BY <2>1, FS_Subset, FS_CardinalityType
<1>3. ASSUME NEW W \in SUBSET S, W \cap R = {}, R \subseteq S
      PROVE  Cardinality(W) \in Nat /\ Cardinality(R) + Cardinality(W) <= Cardinality(S)
  <2>1. W \in SUBSET Task /\ R \cup W \in SUBSET S
    BY <1>3
  <2>2. Cardinality(R \cup W) = Cardinality(R) + Cardinality(W) - Cardinality(R \cap W)
    BY <1>2, <2>1, FS_Union
  <2>3. Cardinality(R \cap W) = 0
    <3>1. R \cap W = {}
      BY <1>3
    <3> QED  BY <3>1, FS_EmptySet
  <2>4. Cardinality(R \cup W) <= Cardinality(S) /\ Cardinality(R) \in Nat /\ Cardinality(W) \in Nat
        /\ Cardinality(S) \in Nat
    BY <1>2, <2>1
  <2> QED  BY <2>2, <2>3, <2>4
<1>4. ASSUME NEW h \in S, h \notin R, R \subseteq S PROVE Cardinality(R) + 1 <= Cardinality(S)
  <2>1. {h} \in SUBSET S /\ {h} \cap R = {}
    BY <1>4
  <2>2. Cardinality({h}) = 1
    BY FS_Singleton
  <2> QED  BY <1>3, <1>4, <2>1, <2>2
<1>5. ASSUME NEW t PROVE Cardinality(R) <= Cardinality(R \ {t}) + 1 /\ Cardinality(R \ {t}) \in Nat
  <2>1. CASE t \in R
    <3>1. IsFiniteSet(R)
      BY <1>2
    <3>2. Cardinality(R \ {t}) = Cardinality(R) - 1
      BY <2>1, <3>1, FS_RemoveElement
    <3>3. Cardinality(R) \in Nat /\ Cardinality(R \ {t}) \in Nat
      BY <1>2
    <3> QED  BY <3>2, <3>3
  <2>2. CASE t \notin R
    <3>1. R \ {t} = R
      BY <2>2
    <3>2. Cardinality(R) \in Nat
      BY <1>2
    <3> QED  BY <3>1, <3>2
  <2> QED  BY <2>1, <2>2
<1>6. ASSUME NEW t, R \ {t} \subseteq S PROVE Cardinality(R) <= Cardinality(S) + 1
  <2>1. PICK Q : Q = R \ {t}
    OBVIOUS
  <2>2. Cardinality(Q) <= Cardinality(S) /\ Cardinality(S) \in Nat /\ Cardinality(R) \in Nat
    BY <1>2, <1>6, <2>1
  <2>3. Cardinality(R) <= Cardinality(Q) + 1 /\ Cardinality(Q) \in Nat
    BY <1>5, <2>1
  <2> QED  BY <2>2, <2>3
<1>7. ASSUME NEW t, NEW h \in S, h \notin R, R \ {t} \subseteq S PROVE Cardinality(R) <= Cardinality(S)
  <2>1. PICK Q : Q = R \ {t}
    OBVIOUS
  <2>2. (Q \cup {h}) \in SUBSET S /\ h \notin Q /\ IsFiniteSet(Q)
    <3>1. Q \in SUBSET Task
      BY <2>1
    <3> QED  BY <1>2, <1>7, <2>1, <3>1
  <2>3. Cardinality(Q \cup {h}) = Cardinality(Q) + 1
    BY <2>2, FS_AddElement
  <2>4. Cardinality(Q \cup {h}) <= Cardinality(S) /\ Cardinality(S) \in Nat /\ Cardinality(R) \in Nat
    BY <1>2, <2>2
  <2> QED  BY <1>5, <2>1, <2>3, <2>4
<1>8. Cardinality(R) \in Nat /\ Cardinality(S) \in Nat /\ (R \subseteq S => Cardinality(R) <= Cardinality(S))
  BY <1>2
<1> QED  BY <1>3, <1>4, <1>6, <1>7, <1>8

\* The tasks in S cover d items more than those in R.
SetsCover(R, S, d) ==
  \/ d <= 0 /\ R \subseteq S
  \/ d <= -1 /\ \E t : R \ {t} \subseteq S
  \/ d <= 0 /\ \E t : \E h \in S : h \notin R /\ R \ {t} \subseteq S
  \/ \E W \in SUBSET S : W \cap R = {} /\ R \subseteq S /\ d <= Cardinality(W)

LEMMA CardCover ==
  ASSUME NEW R \in SUBSET Task, NEW S \in SUBSET Task, NEW d \in Int, SetsCover(R, S, d)
  PROVE  /\ Cardinality(R) \in Nat /\ Cardinality(S) \in Nat
         /\ Cardinality(R) + d <= Cardinality(S)
<1>1. /\ Cardinality(R) \in Nat /\ Cardinality(S) \in Nat
      /\ R \subseteq S => Cardinality(R) <= Cardinality(S)
      /\ \A t : R \ {t} \subseteq S => Cardinality(R) <= Cardinality(S) + 1
      /\ \A t : \A h \in S : h \notin R /\ R \ {t} \subseteq S => Cardinality(R) <= Cardinality(S)
      /\ \A W \in SUBSET S : W \cap R = {} /\ R \subseteq S =>
           Cardinality(W) \in Nat /\ Cardinality(R) + Cardinality(W) <= Cardinality(S)
  BY CardGrows
<1>2. CASE d <= 0 /\ R \subseteq S
  BY <1>1, <1>2
<1>3. ASSUME d <= -1, NEW t, R \ {t} \subseteq S PROVE Cardinality(R) + d <= Cardinality(S)
  BY <1>1, <1>3
<1>4. ASSUME d <= 0, NEW t, NEW h \in S, h \notin R, R \ {t} \subseteq S
      PROVE  Cardinality(R) + d <= Cardinality(S)
  <2>1. Cardinality(R) <= Cardinality(S)
    BY <1>1, <1>4
  <2> QED  BY <1>1, <1>4, <2>1
<1>5. ASSUME NEW W \in SUBSET S, W \cap R = {}, R \subseteq S, d <= Cardinality(W)
      PROVE  Cardinality(R) + d <= Cardinality(S)
  <2>1. Cardinality(W) \in Nat /\ Cardinality(R) + Cardinality(W) <= Cardinality(S)
    BY <1>1, <1>5
  <2> QED  BY <1>1, <1>5, <2>1
<1> QED  BY <1>1, <1>2, <1>3, <1>4, <1>5 DEF SetsCover

\* One queue and one way of Covered.
CoveredAt(q, way) ==
  Waiting(q, way) => Available(q, way) <= Moved(q, way) + Cardinality(Retriers(q, way))

\* Types of what a queue counts.
LEMMA CountTypes ==
  ASSUME QueuesOK, LockBounds, NEW q \in Queue, NEW way \in Directions
  PROVE  /\ Available(q, way) \in Nat /\ Moved(q, way) \in Nat
         /\ queue[q].uxMessagesWaiting \in 0..uxLength[q] /\ uxLength[q] \in Nat
         /\ queue[q].cTxLock \in Int /\ queue[q].cRxLock \in Int
         /\ queue[q].cTxLock >= -1 /\ queue[q].cRxLock >= -1
<1>1. queue[q].uxMessagesWaiting \in 0..uxLength[q] /\ uxLength[q] \in Nat
  BY QueueAssumption DEF QueuesOK, QueueRecord
<1>2. /\ queue[q].cTxLock \in Int /\ queue[q].cRxLock \in Int
      /\ queue[q].cTxLock >= -1 /\ queue[q].cRxLock >= -1
  BY BoundAssumption DEF LockBounds, queueUNLOCKED
<1> QED  BY <1>1, <1>2 DEF Available, Moved, Locked, queueUNLOCKED

\* What is available, less what has been moved, has grown by at most d, and so has the cover.
LEMMA CoverKept ==
  ASSUME k \in Kernel, k' \in Kernel, NEW q \in Queue, NEW way \in Directions, CoveredAt(q, way), NEW d \in Int,
         NEW A \in Int, NEW M \in Int, NEW B \in Int, NEW N \in Int,
         A = Available(q, way), M = Moved(q, way), B = Available(q, way)', N = Moved(q, way)',
         B - N <= A - M + d,
         Waiting(q, way)' => Waiting(q, way) /\ SetsCover(Retriers(q, way), Retriers(q, way)', d)
  PROVE  CoveredAt(q, way)'
<1> SUFFICES ASSUME Waiting(q, way)'
             PROVE  B <= N + Cardinality(Retriers(q, way)')
  BY DEF CoveredAt
<1>1. PICK R : R = Retriers(q, way)
  OBVIOUS
<1>2. PICK S : S = Retriers(q, way)'
  OBVIOUS
<1>3. R \in SUBSET Task /\ S \in SUBSET Task
  BY <1>1, <1>2, Fields DEF Retriers, Awoken
<1>4. SetsCover(R, S, d) /\ A <= M + Cardinality(R)
  BY <1>1, <1>2 DEF CoveredAt
<1>5. Cardinality(R) \in Nat /\ Cardinality(S) \in Nat /\ Cardinality(R) + d <= Cardinality(S)
  BY <1>3, <1>4, CardCover
<1>6. B <= N + Cardinality(S)
  BY <1>4, <1>5
<1> QED  BY <1>2, <1>6

\* A queue that keeps its counts.
LEMMA CoverSame ==
  ASSUME QueuesOK, LockBounds, k \in Kernel, k' \in Kernel, NEW q \in Queue, NEW way \in Directions,
         CoveredAt(q, way), queue'[q] = queue[q],
         Waiting(q, way)' => Waiting(q, way) /\ SetsCover(Retriers(q, way), Retriers(q, way)', 0)
  PROVE  CoveredAt(q, way)'
<1>1. PICK A : A = Available(q, way)
  OBVIOUS
<1>2. PICK M : M = Moved(q, way)
  OBVIOUS
<1>3. A \in Int /\ M \in Int
  BY <1>1, <1>2, CountTypes
<1>4. A = Available(q, way)' /\ M = Moved(q, way)'
  BY <1>1, <1>2 DEF Available, Moved
<1>5. PICK d \in Int : d = 0
  OBVIOUS
<1>6. A - M <= A - M + d
  BY <1>3, <1>5
<1>7. Waiting(q, way)' => Waiting(q, way) /\ SetsCover(Retriers(q, way), Retriers(q, way)', d)
  BY <1>5
<1> QED  BY <1>1, <1>2, <1>3, <1>4, <1>6, <1>7, CoverKept

\* A list is not empty if some task is in it.
LEMMA WaitingTasks ==
  ASSUME NEW a \in Kernel, NEW l \in Lists
  PROVE  a.waiting[l] # <<>> <=> \E u \in Task : Waits(a, u, l)
<1>1. a.waiting[l] \in Seq(Task)
  BY Fields
<1>2. ASSUME a.waiting[l] # <<>> PROVE \E u \in Task : Waits(a, u, l)
  <2>1. Len(a.waiting[l]) \in Nat \ {0} /\ Head(a.waiting[l]) = a.waiting[l][1] /\ Head(a.waiting[l]) \in Task
    BY <1>2, HeadOfList
  <2>2. 1 \in 1..Len(a.waiting[l])
    BY <2>1
  <2> QED  BY <2>1, <2>2 DEF Waits
<1>3. ASSUME NEW u \in Task, Waits(a, u, l) PROVE a.waiting[l] # <<>>
  BY <1>3 DEF Waits
<1> QED  BY <1>2, <1>3

\* No task joins the list.
LEMMA StillWaiting ==
  ASSUME k \in Kernel, k' \in Kernel, NEW q \in Queue, NEW way \in Directions,
         \A u \in Task : Waits(k', u, <<q, way>>) => Waits(k, u, <<q, way>>),
         Waiting(q, way)'
  PROVE  Waiting(q, way)
<1>1. PICK b : b = k'
  OBVIOUS
<1>2. PICK l : l = <<q, way>>
  OBVIOUS
<1>3. l \in Lists
  BY <1>2 DEF Lists
<1>4. b.waiting[l] # <<>>
  BY <1>1, <1>2 DEF Waiting
<1>5. \E u \in Task : Waits(b, u, l)
  BY <1>1, <1>3, <1>4, WaitingTasks
<1>6. \E u \in Task : Waits(k, u, l)
  BY <1>1, <1>2, <1>5
<1>7. k.waiting[l] # <<>>
  BY <1>3, <1>6, WaitingTasks
<1> QED  BY <1>2, <1>7 DEF Waiting

\* The task that is woken covers one item more.
LEMMA WokenCovers ==
  ASSUME NEW q \in Queue, NEW way \in Directions, WokeOne(k, k', <<q, way>>),
         \A h \in Task : Waits(k, h, <<q, way>>) => Tries(h, q, way)',
         Waiting(q, way)'
  PROVE  \E h \in Retriers(q, way)' : h \notin Retriers(q, way)
<1>1. PICK h \in Task : Woken(k, k', <<q, way>>, h)
  BY DEF WokeOne, Waiting
<1>2. h \in Retriers(q, way)' /\ h \notin Retriers(q, way)
  BY <1>1 DEF Woken, Retriers, Awoken
<1> QED  BY <1>2

\* A queue whose counts a step sets: what is gained, less what is moved, has to be covered.
LEMMA CoverCounts ==
  ASSUME QueuesOK, LockBounds, k \in Kernel, k' \in Kernel, NEW q \in Queue, NEW way \in Directions,
         CoveredAt(q, way), NEW d \in Int, NEW n \in Int, NEW tx \in Int, NEW rx \in Int, NEW holder,
         Counts(q, n, tx, rx, holder), NEW r, r = queue[q],
         IF way = "receive" THEN n - Locked(tx) <= r.uxMessagesWaiting - Locked(r.cTxLock) + d
                            ELSE r.uxMessagesWaiting - Locked(rx) <= n - Locked(r.cRxLock) + d,
         Waiting(q, way)' => Waiting(q, way) /\ SetsCover(Retriers(q, way), Retriers(q, way)', d)
  PROVE  CoveredAt(q, way)'
<1>1. /\ r.uxMessagesWaiting \in 0..uxLength[q] /\ uxLength[q] \in Nat
      /\ r.cTxLock \in Int /\ r.cRxLock \in Int
  BY CountTypes
<1>2. /\ Locked(tx) \in Int /\ Locked(rx) \in Int /\ Locked(r.cTxLock) \in Int /\ Locked(r.cRxLock) \in Int
  BY <1>1 DEF Locked, queueUNLOCKED
<1>3. PICK A \in Int, M \in Int : A = Available(q, way) /\ M = Moved(q, way)
  BY CountTypes
<1>4. /\ A = IF way = "receive" THEN r.uxMessagesWaiting ELSE uxLength[q] - r.uxMessagesWaiting
      /\ M = IF way = "receive" THEN Locked(r.cTxLock) ELSE Locked(r.cRxLock)
  BY <1>3 DEF Available, Moved
<1>5. PICK B \in Int : B = IF way = "receive" THEN n ELSE uxLength[q] - n
  BY <1>1
<1>6. PICK N \in Int : N = IF way = "receive" THEN Locked(tx) ELSE Locked(rx)
  BY <1>2
<1>7. B = Available(q, way)' /\ N = Moved(q, way)'
  BY <1>5, <1>6 DEF Available, Moved, Counts
<1>8. B - N <= A - M + d
  <2> HIDE DEF Locked
  <2>1. CASE way = "receive"
    BY <1>1, <1>2, <1>4, <1>5, <1>6, <2>1
  <2>2. CASE way # "receive"
    BY <1>1, <1>2, <1>4, <1>5, <1>6, <2>2
  <2> QED  BY <2>1, <2>2
<1> QED  BY <1>3, <1>7, <1>8, CoverKept

\* Interrupts: a task is woken for what they move, or it is counted for prvUnlockQueue.
LEMMA CoverSend ==
  ASSUME StructureInv, StructureInv', NEW q \in Queue \ Mutex, SendFromISR(q), Interrupt,
         NEW way \in Directions, CoveredAt(q, way), NEW r, r = queue[q],
         Waiting(q, way)' => Waiting(q, way), Retriers(q, way) \subseteq Retriers(q, way)'
  PROVE  CoveredAt(q, way)'
<1>1. RefinementInv /\ QueuesOK /\ LockBounds /\ k \in Kernel /\ Sound(k) /\ k' \in Kernel
  BY DEF StructureInv, RefinementInv
<1>2. Counts(q, r.uxMessagesWaiting + 1, OneMore(r.cTxLock), r.cRxLock, r.pxMutexHolder)
  BY <1>1, ISRCounts
<1>3. PICK n, tx, rx, holder :
        /\ n = r.uxMessagesWaiting + 1 /\ tx = OneMore(r.cTxLock) /\ rx = r.cRxLock /\ Counts(q, n, tx, rx, holder)
  BY <1>2
<1>4. /\ r.uxMessagesWaiting \in Int /\ r.cTxLock \in Int /\ r.cTxLock >= -1 /\ rx \in Int
      /\ n \in Int /\ tx \in Int
  BY <1>1, <1>3, CountTypes DEF OneMore, queueUNLOCKED
<1>5. CASE way = "receive" /\ r.cTxLock = -1
  <2>1. WokeOne(k, k', <<q, way>>)
    <3>1. PICK locked \in BOOLEAN : locked = FALSE
      OBVIOUS
    <3>2. IF locked THEN k' = k ELSE EndInterrupt(Wake(k, <<q, way>>, FALSE))
      BY <1>5, <3>1 DEF SendFromISR, queueUNLOCKED
    <3> QED  BY <1>1, <3>1, <3>2, ISREffect
  <2>2. \A h \in Task : Waits(k, h, <<q, way>>) => Tries(h, q, way)'
    <3>1. UNCHANGED <<pc, tasks, after>>
      BY InterruptStep
    <3> QED  BY <3>1 DEF StructureInv, WaitOK, Tries, Way, Sends, tasks
  <2>3. PICK d \in Int : d = 1
    OBVIOUS
  <2>4. ASSUME Waiting(q, way)' PROVE SetsCover(Retriers(q, way), Retriers(q, way)', d)
    <3>1. PICK h \in Retriers(q, way)' : h \notin Retriers(q, way)
      BY <2>1, <2>2, <2>4, WokenCovers
    <3>2. PICK W : W = {h}
      OBVIOUS
    <3>3. Cardinality(W) = 1
      BY <3>2, FS_Singleton
    <3>4. W \subseteq Retriers(q, way)' /\ W \cap Retriers(q, way) = {}
      BY <3>1, <3>2
    <3> QED  BY <2>3, <3>3, <3>4 DEF SetsCover
  <2>5. n - Locked(tx) <= r.uxMessagesWaiting - Locked(r.cTxLock) + d
    BY <1>3, <1>4, <1>5, <2>3 DEF OneMore, Locked, queueUNLOCKED
  <2> QED  BY <1>1, <1>3, <1>4, <1>5, <2>4, <2>5, CoverCounts
<1>6. CASE ~(way = "receive" /\ r.cTxLock = -1)
  <2>1. PICK d \in Int : d = 0
    OBVIOUS
  <2>2. SetsCover(Retriers(q, way), Retriers(q, way)', d)
    BY <2>1 DEF SetsCover
  <2>3. IF way = "receive" THEN n - Locked(tx) <= r.uxMessagesWaiting - Locked(r.cTxLock) + d
                           ELSE r.uxMessagesWaiting - Locked(rx) <= n - Locked(r.cRxLock) + d
    BY <1>3, <1>4, <1>6, <2>1 DEF OneMore, Locked, queueUNLOCKED
  <2> QED  BY <1>1, <1>3, <1>4, <2>2, <2>3, CoverCounts
<1> QED  BY <1>5, <1>6

\* The same for an interrupt that takes an item.
LEMMA CoverReceive ==
  ASSUME StructureInv, StructureInv', NEW q \in Queue \ Mutex, ReceiveFromISR(q), Interrupt,
         NEW way \in Directions, CoveredAt(q, way), NEW r, r = queue[q],
         Waiting(q, way)' => Waiting(q, way), Retriers(q, way) \subseteq Retriers(q, way)'
  PROVE  CoveredAt(q, way)'
<1>1. RefinementInv /\ QueuesOK /\ LockBounds /\ k \in Kernel /\ Sound(k) /\ k' \in Kernel
  BY DEF StructureInv, RefinementInv
<1>2. Counts(q, r.uxMessagesWaiting - 1, r.cTxLock, OneMore(r.cRxLock), r.pxMutexHolder)
  BY <1>1, ISRCounts
<1>3. PICK n, tx, rx, holder :
        /\ n = r.uxMessagesWaiting - 1 /\ tx = r.cTxLock /\ rx = OneMore(r.cRxLock) /\ Counts(q, n, tx, rx, holder)
  BY <1>2
<1>4. /\ r.uxMessagesWaiting \in Int /\ r.cRxLock \in Int /\ r.cRxLock >= -1 /\ rx \in Int
      /\ n \in Int /\ tx \in Int
  BY <1>1, <1>3, CountTypes DEF OneMore, queueUNLOCKED
<1>5. CASE way = "send" /\ r.cRxLock = -1
  <2>1. WokeOne(k, k', <<q, way>>)
    <3>1. PICK locked \in BOOLEAN : locked = FALSE
      OBVIOUS
    <3>2. IF locked THEN k' = k ELSE EndInterrupt(Wake(k, <<q, way>>, FALSE))
      BY <1>5, <3>1 DEF ReceiveFromISR, queueUNLOCKED
    <3> QED  BY <1>1, <3>1, <3>2, ISREffect
  <2>2. \A h \in Task : Waits(k, h, <<q, way>>) => Tries(h, q, way)'
    <3>1. UNCHANGED <<pc, tasks, after>>
      BY InterruptStep
    <3> QED  BY <3>1 DEF StructureInv, WaitOK, Tries, Way, Sends, tasks
  <2>3. PICK d \in Int : d = 1
    OBVIOUS
  <2>4. ASSUME Waiting(q, way)' PROVE SetsCover(Retriers(q, way), Retriers(q, way)', d)
    <3>1. PICK h \in Retriers(q, way)' : h \notin Retriers(q, way)
      BY <2>1, <2>2, <2>4, WokenCovers
    <3>2. PICK W : W = {h}
      OBVIOUS
    <3>3. Cardinality(W) = 1
      BY <3>2, FS_Singleton
    <3>4. W \subseteq Retriers(q, way)' /\ W \cap Retriers(q, way) = {}
      BY <3>1, <3>2
    <3> QED  BY <2>3, <3>3, <3>4 DEF SetsCover
  <2>5. r.uxMessagesWaiting - Locked(rx) <= n - Locked(r.cRxLock) + d
    BY <1>3, <1>4, <1>5, <2>3 DEF OneMore, Locked, queueUNLOCKED
  <2> QED  BY <1>1, <1>3, <1>4, <1>5, <2>4, <2>5, CoverCounts
<1>6. CASE ~(way = "send" /\ r.cRxLock = -1)
  <2>1. PICK d \in Int : d = 0
    OBVIOUS
  <2>2. SetsCover(Retriers(q, way), Retriers(q, way)', d)
    BY <2>1 DEF SetsCover
  <2>3. IF way = "receive" THEN n - Locked(tx) <= r.uxMessagesWaiting - Locked(r.cTxLock) + d
                           ELSE r.uxMessagesWaiting - Locked(rx) <= n - Locked(r.cRxLock) + d
    BY <1>3, <1>4, <1>6, <2>1 DEF Directions, OneMore, Locked, queueUNLOCKED
  <2> QED  BY <1>1, <1>3, <1>4, <2>2, <2>3, CoverCounts
<1> QED  BY <1>5, <1>6

\* Who is awake stays awake, but for the task that blocks itself.
LEMMA AwokenStep ==
  ASSUME StructureInv, NEW t \in Task, TaskStep(t)
  PROVE  /\ Awoken(k) \ {t} \subseteq Awoken(k')
         /\ ~Place(t) /\ ~Sleep(t) => Awoken(k) \subseteq Awoken(k')
<1>1. CASE SendItem(t) \/ Give(t) \/ ReceiveItem(t) \/ Peek(t) \/ TestFails(t) \/ Yield(t) \/ Return(t) \/ LastLook(t)
  BY <1>1, OpenSteps DEF Wakes
<1>2. CASE LockQueue(t) \/ CheckForTimeOut(t) \/ Look(t) \/ UnlockTx(t) \/ UnlockRx(t)
  BY <1>2, ClosedSteps DEF Wakes
<1>3. CASE Suspend(t)
  <2>1. k.uxSchedulerSuspended = 0 /\ k \in Kernel /\ Sound(k)
    <3>1. t = k.pxCurrentTCB /\ pc[t] = "block"
      BY <1>3 DEF Suspend, Runs
    <3> QED  BY <3>1, PlaceDecides DEF StructureInv, Elsewhere, Open
  <2>2. SameLists(k, k')
    BY <1>3, <2>1, SuspendEffect
  <2> QED  BY <2>2 DEF SameLists, Awoken
<1>4. CASE Place(t) \/ Sleep(t)
  <2>1. PICK lists : lists = IF Place(t) THEN {<<call[t].queue, Way(t)>>} ELSE {}
    OBVIOUS
  <2>2. Blocks(k, k', t, lists)
    BY <1>4, <2>1, BlockStep
  <2> QED  BY <1>4, <2>2 DEF Blocks, Awoken
<1>5. CASE Resume(t)
  BY <1>5, ResumeStep DEF ResumedAll
<1> QED  BY <1>1, <1>2, <1>3, <1>4, <1>5 DEF TaskStep

\* So only the task that makes the step can give up a further look.
LEMMA RetriersStep ==
  ASSUME StructureInv, NEW t \in Task, TaskStep(t), NEW q, NEW way
  PROVE  /\ Retriers(q, way) \ {t} \subseteq Retriers(q, way)'
         /\ ~Tries(t, q, way) => Retriers(q, way) \subseteq Retriers(q, way)'
         /\ Tries(t, q, way)' /\ ~Place(t) /\ ~Sleep(t) => Retriers(q, way) \subseteq Retriers(q, way)'
<1>1. Awoken(k) \subseteq Task
  BY Fields DEF StructureInv, Awoken
<1>2. \A u \in Task \ {t} : Tries(u, q, way)' <=> Tries(u, q, way)
  BY OthersTry
<1>3. /\ Awoken(k) \ {t} \subseteq Awoken(k')
      /\ ~Place(t) /\ ~Sleep(t) => Awoken(k) \subseteq Awoken(k')
  BY AwokenStep
<1>4. Retriers(q, way)' = {u \in Awoken(k') : Tries(u, q, way)'}
  BY DEF Retriers
<1> QED  BY <1>1, <1>2, <1>3, <1>4 DEF Retriers

\* Does a task try this way.
LEMMA OwnTry ==
  ASSUME StructureInv, NEW t \in Task, TaskStep(t), NEW q, NEW way, Tries(t, q, way),
         ~(SendItem(t) \/ Give(t) \/ ReceiveItem(t) \/ Peek(t) \/ TestFails(t))
  PROVE  Tries(t, q, way)' /\ ~Place(t) /\ ~Sleep(t) /\ (Yield(t) \/ UnlockTx(t) \/ UnlockRx(t) \/ Resume(t))
<1> USE DEF StructureInv, RefinementInv
<1>1. pc \in [Task -> Labels]
  BY DEF CallsOK
<1>2. /\ call[t].op # "delay" /\ call[t].queue = q /\ Way(t) = way
      /\ pc[t] \in {"test", "yield"} \/ (pc[t] \in Unlocking /\ after # "fail")
  BY DEF Tries
<1>3. Yield(t) \/ UnlockTx(t) \/ UnlockRx(t) \/ Resume(t)
  BY <1>2 DEF TaskStep, Suspend, LockQueue, CheckForTimeOut, Look, Place, Sleep, Return, LastLook, Runs, Unlocking
<1>4. call' = call /\ (pc'[t] \in {"test", "yield"} \/ (pc'[t] \in Unlocking /\ after' # "fail"))
  <2>1. CASE Yield(t)
    BY <1>1, <1>2, <2>1 DEF Yield, Goto, Awake, tasks
  <2>2. CASE UnlockTx(t) \/ UnlockRx(t)
    BY <1>1, <1>2, <2>2 DEF UnlockTx, UnlockRx, Goto, Runs, Unlocking, tasks
  <2>3. CASE Resume(t)
    <3>1. after # "fail"
      BY <1>2, <2>3 DEF Resume, Runs
    <3> QED  BY <1>1, <1>2, <2>3, <3>1 DEF Resume, Goto, Awake, tasks
  <2> QED  BY <1>3, <2>1, <2>2, <2>3
<1>5. ~Place(t) /\ ~Sleep(t)
  BY <1>2 DEF Place, Sleep, Runs, Unlocking
<1> QED  BY <1>2, <1>3, <1>4, <1>5 DEF Tries, Way, Sends

\* A step that neither goes through nor fails gives up nothing.
LEMMA QuietRetriers ==
  ASSUME StructureInv, NEW t \in Task, TaskStep(t), NEW q, NEW way,
         ~(SendItem(t) \/ Give(t) \/ ReceiveItem(t) \/ Peek(t) \/ TestFails(t)) \/ ~Tries(t, q, way)
  PROVE  Retriers(q, way) \subseteq Retriers(q, way)'
BY OwnTry, RetriersStep

\* No task joins a list, but by placing itself.
LEMMA StepWaiting ==
  ASSUME StructureInv, NEW t \in Task, TaskStep(t), NEW q \in Queue, NEW way \in Directions,
         ~Place(t) \/ q # call[t].queue \/ way # Way(t), Waiting(q, way)'
  PROVE  Waiting(q, way)
<1>1. k' \in Kernel /\ <<q, way>> \in Lists
  BY WaitsStep DEF Lists
<1>2. \A u \in Task : Waits(k', u, <<q, way>>) => Waits(k, u, <<q, way>>)
  BY <1>1, WaitsStep
<1> QED  BY <1>1, <1>2, StillWaiting DEF StructureInv

\* A queue that a step leaves alone, in a direction that its task does not try.
LEMMA CoverAside ==
  ASSUME StructureInv, StructureInv', NEW t \in Task, TaskStep(t), NEW q \in Queue, NEW way \in Directions,
         CoveredAt(q, way), queue'[q] = queue[q],
         ~Place(t) \/ q # call[t].queue \/ way # Way(t),
         ~(SendItem(t) \/ Give(t) \/ ReceiveItem(t) \/ Peek(t) \/ TestFails(t)) \/ ~Tries(t, q, way)
  PROVE  CoveredAt(q, way)'
<1>1. QueuesOK /\ LockBounds /\ k \in Kernel /\ k' \in Kernel
  BY DEF StructureInv, RefinementInv
<1>2. Retriers(q, way) \subseteq Retriers(q, way)'
  BY QuietRetriers
<1>3. SetsCover(Retriers(q, way), Retriers(q, way)', 0)
  BY <1>2 DEF SetsCover
<1>4. Waiting(q, way)' => Waiting(q, way)
  BY StepWaiting
<1> QED  BY <1>1, <1>3, <1>4, CoverSame

\* The task that places itself has found nothing but what has been moved since.
LEMMA CoverPlace ==
  ASSUME StructureInv, StructureInv', LooksOK, NEW t \in Task, TaskStep(t), Place(t),
         NEW q \in Queue, NEW way \in Directions, CoveredAt(q, way)
  PROVE  CoveredAt(q, way)'
<1>1. QueuesOK /\ LockBounds /\ k \in Kernel /\ k' \in Kernel /\ queue' = queue
  BY DEF StructureInv, RefinementInv, Place
<1>2. CASE q = call[t].queue /\ way = Way(t)
  <2>1. Available(q, way) <= Moved(q, way)
    BY <1>2 DEF LooksOK, Place, Runs
  <2>2. Available(q, way)' = Available(q, way) /\ Moved(q, way)' = Moved(q, way)
    BY <1>1 DEF Available, Moved
  <2>3. PICK S : S = Retriers(q, way)'
    OBVIOUS
  <2>4. Cardinality(S) \in Nat
    <3>1. S \in SUBSET Task
      BY <1>1, <2>3, Fields DEF Retriers, Awoken
    <3> QED  BY <3>1, CardGrows
  <2>5. Available(q, way) \in Nat /\ Moved(q, way) \in Nat
    BY <1>1, CountTypes
  <2>6. Available(q, way) <= Moved(q, way) + Cardinality(S)
    <3> HIDE DEF Available, Moved
    <3> QED  BY <2>1, <2>4, <2>5
  <2> QED  BY <2>2, <2>3, <2>6 DEF CoveredAt
<1>3. CASE ~(q = call[t].queue /\ way = Way(t))
  <2>1. ~(SendItem(t) \/ Give(t) \/ ReceiveItem(t) \/ Peek(t) \/ TestFails(t))
    BY DEF Place, SendItem, Give, ReceiveItem, Peek, TestFails, Runs
  <2> QED  BY <1>1, <1>3, <2>1, CoverAside
<1> QED  BY <1>2, <1>3

\* Locking a queue moves nothing; unlocking it wakes as many tasks as have been moved for.
LEMMA CoverLock ==
  ASSUME StructureInv, StructureInv', NEW t \in Task, TaskStep(t),
         LockQueue(t) \/ UnlockTx(t) \/ UnlockRx(t),
         NEW q \in Queue, NEW way \in Directions, CoveredAt(q, way)
  PROVE  CoveredAt(q, way)'
<1>1. RefinementInv /\ QueuesOK /\ LockBounds /\ k \in Kernel /\ Sound(k) /\ k' \in Kernel /\ WaitOK
  BY DEF StructureInv, RefinementInv
<1>2. ~(SendItem(t) \/ Give(t) \/ ReceiveItem(t) \/ Peek(t) \/ TestFails(t)) /\ ~Place(t)
  BY DEF Place, SendItem, Give, ReceiveItem, Peek, TestFails, LockQueue, UnlockTx, UnlockRx, Runs
<1>3. PICK r : r = queue[q]
  OBVIOUS
<1>4. /\ r.uxMessagesWaiting \in Int /\ r.cTxLock \in Int /\ r.cRxLock \in Int
      /\ r.cTxLock >= -1 /\ r.cRxLock >= -1
  BY <1>1, <1>3, CountTypes
<1>5. (Waiting(q, way)' => Waiting(q, way)) /\ Retriers(q, way) \subseteq Retriers(q, way)'
  BY <1>2, StepWaiting, QuietRetriers
<1>6. CASE q # call[t].queue
  <2>1. queue'[q] = queue[q]
    BY <1>1, <1>6, LockCounts DEF Counts
  <2> QED  BY <1>2, <2>1, CoverAside
<1>7. ASSUME NEW tx \in Int, NEW rx \in Int, Counts(q, r.uxMessagesWaiting, tx, rx, r.pxMutexHolder),
             IF way = "receive" THEN Locked(tx) = Locked(r.cTxLock) ELSE Locked(rx) = Locked(r.cRxLock)
      PROVE  CoveredAt(q, way)'
  <2>1. PICK d \in Int : d = 0
    OBVIOUS
  <2>2. PICK n \in Int : n = r.uxMessagesWaiting
    BY <1>4
  <2>3. SetsCover(Retriers(q, way), Retriers(q, way)', d)
    BY <1>5, <2>1 DEF SetsCover
  <2>4. Locked(r.cTxLock) \in Int /\ Locked(r.cRxLock) \in Int
    BY <1>4 DEF Locked, queueUNLOCKED
  <2>5. IF way = "receive" THEN n - Locked(tx) <= r.uxMessagesWaiting - Locked(r.cTxLock) + d
                           ELSE r.uxMessagesWaiting - Locked(rx) <= n - Locked(r.cRxLock) + d
    BY <1>4, <1>7, <2>1, <2>2, <2>4
  <2> QED  BY <1>1, <1>3, <1>4, <1>5, <1>7, <2>2, <2>3, <2>5, CoverCounts
<1>8. CASE q = call[t].queue /\ LockQueue(t)
  <2>1. Counts(q, r.uxMessagesWaiting, Locked(r.cTxLock), Locked(r.cRxLock), r.pxMutexHolder)
    BY <1>1, <1>3, <1>8, LockCounts
  <2>2. PICK tx \in Int, rx \in Int : tx = Locked(r.cTxLock) /\ rx = Locked(r.cRxLock)
    BY <1>4 DEF Locked, queueUNLOCKED
  <2>3. Locked(tx) = Locked(r.cTxLock) /\ Locked(rx) = Locked(r.cRxLock)
    BY <1>4, <2>2 DEF Locked, queueUNLOCKED
  <2> QED  BY <1>7, <2>1, <2>2, <2>3
<1>9. ASSUME NEW tx \in Int, NEW rx \in Int, NEW m \in Nat,
             Counts(q, r.uxMessagesWaiting, tx, rx, r.pxMutexHolder), WakesTo(k, k', <<q, way>>, m),
             IF way = "receive" THEN Locked(tx) = 0 /\ m = Locked(r.cTxLock)
                                ELSE Locked(rx) = 0 /\ m = Locked(r.cRxLock)
      PROVE  CoveredAt(q, way)'
  <2>1. PICK d \in Int : d = m
    OBVIOUS
  <2>2. PICK n \in Int : n = r.uxMessagesWaiting
    BY <1>4
  <2>3. ASSUME Waiting(q, way)' PROVE SetsCover(Retriers(q, way), Retriers(q, way)', d)
    <3>1. PICK W \in SUBSET Task : /\ \A h \in W : Woken(k, k', <<q, way>>, h)
                                   /\ k'.waiting[<<q, way>>] # <<>> => Cardinality(W) = m
      BY <1>9 DEF WakesTo
    <3>2. Cardinality(W) = m
      BY <2>3, <3>1 DEF Waiting
    <3>3. ASSUME NEW h \in W PROVE h \in Retriers(q, way)' /\ h \notin Retriers(q, way)
      <4>1. Waits(k, h, <<q, way>>) /\ h \in Awoken(k') /\ h \notin Awoken(k)
        BY <3>1, <3>3 DEF Woken
      <4>2. Tries(h, q, way)
        BY <1>1, <3>3, <4>1 DEF WaitOK
      <4>3. Tries(h, q, way)'
        BY <1>2, <3>3, <4>2, OwnTry, OthersTry
      <4> QED  BY <4>1, <4>3 DEF Retriers
    <3>4. W \subseteq Retriers(q, way)' /\ W \cap Retriers(q, way) = {}
      BY <3>3
    <3> QED  BY <1>5, <2>1, <3>2, <3>4 DEF SetsCover
  <2>4. IF way = "receive" THEN n - Locked(tx) <= r.uxMessagesWaiting - Locked(r.cTxLock) + d
                           ELSE r.uxMessagesWaiting - Locked(rx) <= n - Locked(r.cRxLock) + d
    BY <1>4, <1>9, <2>1, <2>2
  <2> QED  BY <1>1, <1>3, <1>5, <1>9, <2>2, <2>3, <2>4, CoverCounts
<1>10. Locked(-1) = 0
  BY DEF Locked, queueUNLOCKED
<1>11. ASSUME UnlockTx(t) \/ UnlockRx(t) PROVE k.uxSchedulerSuspended = 1
  <2>1. t = k.pxCurrentTCB /\ pc[t] \in {"unlock_tx", "unlock_rx"}
    BY <1>11 DEF UnlockTx, UnlockRx, Runs
  <2> QED  BY <2>1, PlaceDecides DEF StructureInv, Suspending, Unlocking, Closed
<1>12. CASE q = call[t].queue /\ UnlockTx(t)
  <2>1. Counts(q, r.uxMessagesWaiting, -1, r.cRxLock, r.pxMutexHolder)
    BY <1>1, <1>3, <1>12, LockCounts
  <2>2. CASE way = "receive"
    <3>1. PICK m \in Nat : m = Locked(r.cTxLock)
      BY <1>4 DEF Locked, queueUNLOCKED
    <3>2. k' = WakeSome(<<q, way>>, r.cTxLock)
      BY <1>3, <1>12, <2>2 DEF UnlockTx
    <3>3. WakesTo(k, k', <<q, way>>, m)
      <4>1. <<q, way>> \in Lists
        BY DEF Lists
      <4> QED  BY <1>1, <1>11, <1>12, <3>1, <3>2, <4>1, UnlockEffect
    <3> QED  BY <1>4, <1>9, <1>10, <2>1, <2>2, <3>1, <3>3
  <2>3. CASE way # "receive"
    BY <1>4, <1>7, <2>1, <2>3
  <2> QED  BY <2>2, <2>3
<1>13. CASE q = call[t].queue /\ UnlockRx(t)
  <2>1. Counts(q, r.uxMessagesWaiting, r.cTxLock, -1, r.pxMutexHolder)
    BY <1>1, <1>3, <1>13, LockCounts
  <2>2. CASE way # "receive"
    <3>1. PICK m \in Nat : m = Locked(r.cRxLock)
      BY <1>4 DEF Locked, queueUNLOCKED
    <3>2. k' = WakeSome(<<q, way>>, r.cRxLock)
      BY <1>3, <1>13, <2>2 DEF UnlockRx, Directions
    <3>3. WakesTo(k, k', <<q, way>>, m)
      <4>1. <<q, way>> \in Lists
        BY DEF Lists
      <4> QED  BY <1>1, <1>11, <1>13, <3>1, <3>2, <4>1, UnlockEffect
    <3> QED  BY <1>4, <1>9, <1>10, <2>1, <2>2, <3>1, <3>3
  <2>3. CASE way = "receive"
    BY <1>4, <1>7, <2>1, <2>3
  <2> QED  BY <2>2, <2>3
<1> QED  BY <1>6, <1>8, <1>12, <1>13

\* A task that gets its way covers what it took, and wakes another for what it gave.
LEMMA CoverGo ==
  ASSUME StructureInv, StructureInv', NEW t \in Task, TaskStep(t),
         SendItem(t) \/ Give(t) \/ ReceiveItem(t) \/ Peek(t),
         NEW q \in Queue, NEW way \in Directions, CoveredAt(q, way)
  PROVE  CoveredAt(q, way)'
<1>1. RefinementInv /\ CallsOK /\ QueuesOK /\ LockBounds /\ k \in Kernel /\ Sound(k) /\ k' \in Kernel /\ WaitOK
  BY DEF StructureInv, RefinementInv
<1>2. ~Place(t) /\ pc[t] = "test" /\ t \in k.ready /\ call[t].op # "delay"
  <2>1. pc[t] = "test" /\ t = k.pxCurrentTCB
    BY DEF SendItem, Give, ReceiveItem, Peek, Runs
  <2>2. Open
    BY <2>1, PlaceDecides DEF StructureInv, Elsewhere
  <2>3. call[t].op # "delay"
    BY <2>1 DEF StructureInv, CallPlaces
  <2> QED  BY <2>1, <2>2, <2>3 DEF Open, Place, Runs
<1>3. PICK r : r = queue[q]
  OBVIOUS
<1>4. /\ r.uxMessagesWaiting \in Int /\ r.cTxLock \in Int /\ r.cRxLock \in Int
      /\ Locked(r.cTxLock) \in Int /\ Locked(r.cRxLock) \in Int
  BY <1>1, <1>3, CountTypes DEF Locked, queueUNLOCKED
<1>5. PICK n, holder : n = r.uxMessagesWaiting + (IF Peek(t) THEN 0 ELSE IF ReceiveItem(t) THEN -1 ELSE 1)
                       /\ holder = queue'[q].pxMutexHolder
  OBVIOUS
<1>6. ~(Peek(t) /\ (SendItem(t) \/ Give(t) \/ ReceiveItem(t))) /\ ~(ReceiveItem(t) /\ (SendItem(t) \/ Give(t)))
  BY DEF Peek, SendItem, Give, ReceiveItem, Sends
<1>7. CASE q # call[t].queue
  <2>1. queue'[q] = queue[q]
    <3>1. CASE Peek(t)
      BY <3>1 DEF Peek
    <3>2. CASE SendItem(t)
      BY <1>1, <1>7, <3>2, SendCounts DEF Counts
    <3>3. CASE Give(t)
      <4>1. PICK e : queue' = [queue EXCEPT ![call[t].queue] = e]
        BY <3>3, Zenon DEF Give
      <4> QED  BY <1>1, <1>7, <4>1 DEF QueuesOK
    <3>4. CASE ReceiveItem(t)
      BY <1>1, <1>7, <3>4 DEF ReceiveItem
    <3> QED  BY <3>1, <3>2, <3>3, <3>4
  <2>2. ~Tries(t, q, way)
    BY <1>7 DEF Tries
  <2> QED  BY <1>2, <2>1, <2>2, CoverAside
<1>8. CASE q = call[t].queue
  <2>1. Counts(q, n, r.cTxLock, r.cRxLock, holder)
    <3>1. CASE Peek(t)
      <4>1. queue' = queue /\ n = r.uxMessagesWaiting
        BY <1>4, <1>5, <3>1 DEF Peek
      <4> QED  BY <1>3, <1>5, <4>1 DEF Counts
    <3>2. CASE SendItem(t)
      <4>1. n = r.uxMessagesWaiting + 1
        BY <1>5, <1>6, <3>2
      <4>2. PICK h : h = r.pxMutexHolder
        OBVIOUS
      <4>3. Counts(q, r.uxMessagesWaiting + 1, r.cTxLock, r.cRxLock, h)
        BY <1>1, <1>3, <1>8, <3>2, <4>2, SendCounts
      <4> QED  BY <1>5, <4>1, <4>3 DEF Counts
    <3>3. CASE Give(t)
      <4>1. n = r.uxMessagesWaiting + 1
        BY <1>5, <1>6, <3>3
      <4>2. PICK h : h = {}
        OBVIOUS
      <4>3. Counts(q, r.uxMessagesWaiting + 1, r.cTxLock, r.cRxLock, h)
        BY <1>1, <1>3, <1>8, <3>3, <4>2, GiveCounts
      <4> QED  BY <1>5, <4>1, <4>3 DEF Counts
    <3>4. CASE ReceiveItem(t)
      <4>1. n = r.uxMessagesWaiting - 1
        BY <1>4, <1>5, <1>6, <3>4
      <4>2. PICK h : h = IF q \in Mutex THEN {t} ELSE r.pxMutexHolder
        OBVIOUS
      <4>3. Counts(q, r.uxMessagesWaiting - 1, r.cTxLock, r.cRxLock, h)
        BY <1>1, <1>3, <1>8, <3>4, <4>2, ReceiveCounts
      <4> QED  BY <1>5, <4>1, <4>3 DEF Counts
    <3> QED  BY <3>1, <3>2, <3>3, <3>4
  <2>2. n \in Int
    BY <1>4, <1>5
  <2>3. Waiting(q, way)' => Waiting(q, way)
    BY <1>2, StepWaiting
  <2>4. Retriers(q, way) \ {t} \subseteq Retriers(q, way)' /\ (~Tries(t, q, way) => Retriers(q, way) \subseteq Retriers(q, way)')
    BY RetriersStep
  <2>5. \A h \in Task : Waits(k, h, <<q, way>>) => Tries(h, q, way)'
    <3> SUFFICES ASSUME NEW h \in Task, Waits(k, h, <<q, way>>) PROVE Tries(h, q, way)'
      OBVIOUS
    <3>1. <<q, way>> \in Lists
      BY DEF Lists
    <3>2. h # t
      BY <1>1, <1>2, <3>1, ReadyWaits
    <3>3. Tries(h, q, way)
      BY <1>1 DEF WaitOK
    <3> QED  BY <3>2, <3>3, OthersTry
  <2>6. WokeOne(k, k', <<q, IF call[t].op = "receive" THEN "send" ELSE "receive">>)
    BY <1>1, <1>8, GoEffect DEF Other
  <2>7. ASSUME NEW d \in Int,
               IF way = "receive" THEN n <= r.uxMessagesWaiting + d ELSE r.uxMessagesWaiting <= n + d,
               Waiting(q, way)' => SetsCover(Retriers(q, way), Retriers(q, way)', d)
        PROVE  CoveredAt(q, way)'
    <3>1. PICK tx \in Int, rx \in Int : tx = r.cTxLock /\ rx = r.cRxLock
      BY <1>4
    <3>2. IF way = "receive" THEN n - Locked(tx) <= r.uxMessagesWaiting - Locked(r.cTxLock) + d
                             ELSE r.uxMessagesWaiting - Locked(rx) <= n - Locked(r.cRxLock) + d
      BY <1>4, <2>2, <2>7, <3>1
    <3> QED  BY <1>1, <1>3, <1>4, <2>1, <2>2, <2>3, <2>7, <3>1, <3>2, CoverCounts
  <2>8. CASE way = IF call[t].op = "receive" THEN "send" ELSE "receive"
    <3>1. WokeOne(k, k', <<q, way>>)
      BY <2>6, <2>8
    <3>2. CASE Peek(t)
      <4>1. PICK d \in Int : d = 0
        OBVIOUS
      <4>2. ASSUME Waiting(q, way)' PROVE SetsCover(Retriers(q, way), Retriers(q, way)', d)
        <5>1. PICK h \in Retriers(q, way)' : h \notin Retriers(q, way)
          BY <2>5, <3>1, <4>2, WokenCovers
        <5> QED  BY <2>4, <4>1, <5>1 DEF SetsCover
      <4>3. IF way = "receive" THEN n <= r.uxMessagesWaiting + d ELSE r.uxMessagesWaiting <= n + d
        BY <1>4, <1>5, <3>2, <4>1
      <4> QED  BY <2>7, <4>1, <4>2, <4>3
    <3>3. CASE ~Peek(t)
      <4>1. PICK d \in Int : d = 1
        OBVIOUS
      <4>2. ~Tries(t, q, way)
        BY <2>8, <3>3 DEF Tries, Way, Sends, SendItem, Give, ReceiveItem
      <4>3. ASSUME Waiting(q, way)' PROVE SetsCover(Retriers(q, way), Retriers(q, way)', d)
        <5>1. PICK h \in Retriers(q, way)' : h \notin Retriers(q, way)
          BY <2>5, <3>1, <4>3, WokenCovers
        <5>2. PICK W : W = {h}
          OBVIOUS
        <5>3. Cardinality(W) = 1
          BY <5>2, FS_Singleton
        <5>4. W \subseteq Retriers(q, way)' /\ W \cap Retriers(q, way) = {}
          BY <5>1, <5>2
        <5> QED  BY <2>4, <4>1, <4>2, <5>3, <5>4 DEF SetsCover
      <4>4. IF way = "receive" THEN n <= r.uxMessagesWaiting + d ELSE r.uxMessagesWaiting <= n + d
        BY <1>4, <1>5, <3>3, <4>1
      <4> QED  BY <2>7, <4>1, <4>3, <4>4
    <3> QED  BY <3>2, <3>3
  <2>9. CASE way # IF call[t].op = "receive" THEN "send" ELSE "receive"
    <3>1. CASE Peek(t)
      <4>1. ~Tries(t, q, way)
        BY <2>9, <3>1 DEF Tries, Way, Sends, Peek
      <4>2. queue'[q] = queue[q]
        BY <3>1 DEF Peek
      <4> QED  BY <1>2, <4>1, <4>2, CoverAside
    <3>2. CASE ~Peek(t)
      <4>1. PICK d \in Int : d = -1
        OBVIOUS
      <4>2. SetsCover(Retriers(q, way), Retriers(q, way)', d)
        BY <2>4, <4>1 DEF SetsCover
      <4>3. IF ReceiveItem(t) THEN way = "receive" ELSE way = "send"
        BY <1>6, <2>9, <3>2 DEF SendItem, Give, ReceiveItem, Sends, Directions
      <4>4. IF way = "receive" THEN n <= r.uxMessagesWaiting + d ELSE r.uxMessagesWaiting <= n + d
        BY <1>4, <1>5, <3>2, <4>1, <4>3
      <4> QED  BY <2>7, <4>1, <4>2, <4>4
    <3> QED  BY <3>1, <3>2
  <2> QED  BY <2>8, <2>9
<1> QED  BY <1>7, <1>8

\* A task that gives up has found nothing.
LEMMA CoverFails ==
  ASSUME StructureInv, StructureInv', NEW t \in Task, TaskStep(t), TestFails(t),
         NEW q \in Queue, NEW way \in Directions, CoveredAt(q, way)
  PROVE  CoveredAt(q, way)'
<1>1. QueuesOK /\ LockBounds /\ k \in Kernel /\ k' \in Kernel /\ queue' = queue
  BY DEF StructureInv, RefinementInv, TestFails
<1>2. CASE q = call[t].queue /\ way = Way(t)
  <2>1. Available(q, way) = 0
    <3>1. ~CanGo(t) /\ queue[q].uxMessagesWaiting \in Int
      BY <1>1, CountTypes DEF TestFails
    <3>2. uxLength[q] \in Int
      BY <1>1, CountTypes
    <3> QED  BY <1>2, <3>1, <3>2 DEF CanGo, Way, Available, Full, Empty
  <2>2. PICK N \in Nat : N = Moved(q, way)'
    <3>1. Moved(q, way)' = Moved(q, way)
      BY <1>1 DEF Moved
    <3> QED  BY <1>1, <3>1, CountTypes
  <2>3. PICK S : S = Retriers(q, way)'
    OBVIOUS
  <2>4. Cardinality(S) \in Nat
    <3>1. S \in SUBSET Task
      BY <1>1, <2>3, Fields DEF Retriers, Awoken
    <3> QED  BY <3>1, CardGrows
  <2>5. Available(q, way)' = 0
    BY <1>1, <2>1 DEF Available
  <2>6. 0 <= N + Cardinality(S)
    BY <2>2, <2>4
  <2> QED  BY <2>2, <2>3, <2>5, <2>6 DEF CoveredAt
<1>3. CASE ~(q = call[t].queue /\ way = Way(t))
  <2>1. ~Tries(t, q, way) /\ ~Place(t)
    BY <1>3 DEF Tries, TestFails, Place, Runs
  <2> QED  BY <1>1, <2>1, CoverAside
<1> QED  BY <1>2, <1>3

\* Every step of a task keeps the cover.
LEMMA CoverTask ==
  ASSUME StructureInv, StructureInv', LooksOK, NEW t \in Task, TaskStep(t),
         NEW q \in Queue, NEW way \in Directions, CoveredAt(q, way)
  PROVE  CoveredAt(q, way)'
<1>1. CASE SendItem(t) \/ Give(t) \/ ReceiveItem(t) \/ Peek(t)
  BY <1>1, CoverGo
<1>2. CASE TestFails(t)
  BY <1>2, CoverFails
<1>3. CASE LockQueue(t) \/ UnlockTx(t) \/ UnlockRx(t)
  BY <1>3, CoverLock
<1>4. CASE Place(t)
  BY <1>4, CoverPlace
<1>5. CASE ~(SendItem(t) \/ Give(t) \/ ReceiveItem(t) \/ Peek(t) \/ TestFails(t) \/ Place(t)
             \/ LockQueue(t) \/ UnlockTx(t) \/ UnlockRx(t))
  <2>1. queue'[q] = queue[q]
    BY <1>5, QueueSame
  <2> QED  BY <1>5, <2>1, CoverAside
<1> QED  BY <1>1, <1>2, <1>3, <1>4, <1>5

\* A step that is not a task's leaves at least as many awake to look, and no more waiting.
LEMMA CoverInterrupt ==
  ASSUME StructureInv, StructureInv', Interrupt, NEW q \in Queue, NEW way \in Directions, CoveredAt(q, way)
  PROVE  CoveredAt(q, way)'
<1>1. Wakes(k, k') /\ UNCHANGED <<pc, tasks, after>>
  BY InterruptStep
<1>2. QueuesOK /\ LockBounds /\ k \in Kernel /\ k' \in Kernel
  BY DEF StructureInv, RefinementInv
<1>3. Waiting(q, way)' => Waiting(q, way)
  <2>1. <<q, way>> \in Lists
    BY DEF Lists
  <2> QED  BY <1>1, <1>2, <2>1, WaitingTasks DEF Waiting, Wakes
<1>4. Retriers(q, way) \subseteq Retriers(q, way)'
  BY <1>1 DEF Retriers, Tries, Wakes, Way, Sends, tasks
<1>5. CASE queue'[q] = queue[q]
  <2>1. SetsCover(Retriers(q, way), Retriers(q, way)', 0)
    BY <1>4 DEF SetsCover
  <2> QED  BY <1>2, <1>3, <1>5, <2>1, CoverSame
<1>6. CASE Tick
  <2>1. queue'[q] = queue[q]
    BY <1>6 DEF Tick
  <2> QED  BY <1>5, <2>1
<1>7. ASSUME NEW p \in Queue \ Mutex, SendFromISR(p) \/ ReceiveFromISR(p) PROVE CoveredAt(q, way)'
  <2>1. CASE p # q
    <3>1. PICK e : queue' = [queue EXCEPT ![p] = e]
      BY <1>7, Zenon DEF SendFromISR, ReceiveFromISR
    <3>2. queue'[q] = queue[q]
      BY <1>2, <2>1, <3>1 DEF QueuesOK
    <3> QED  BY <1>5, <3>2
  <2>2. CASE p = q /\ SendFromISR(p)
    <3>1. PICK r : r = queue[q]
      OBVIOUS
    <3> QED  BY <1>3, <1>4, <1>7, <2>2, <3>1, CoverSend
  <2>3. CASE p = q /\ ReceiveFromISR(p)
    <3>1. PICK r : r = queue[q]
      OBVIOUS
    <3> QED  BY <1>3, <1>4, <1>7, <2>3, <3>1, CoverReceive
  <2> QED  BY <1>7, <2>1, <2>2, <2>3
<1> QED  BY <1>6, <1>7 DEF Interrupt

\* A task that begins a call was not on the way to look.
LEMMA CoverBegins ==
  ASSUME StructureInv, StructureInv', NEW c \in program.calls, Call(c),
         NEW q \in Queue, NEW way \in Directions, CoveredAt(q, way)
  PROVE  CoveredAt(q, way)'
<1>1. QueuesOK /\ LockBounds /\ k \in Kernel /\ k' \in Kernel /\ CallsOK
  BY DEF StructureInv, RefinementInv
<1>2. PICK t : t = c.task
  OBVIOUS
<1>3. /\ t \in Task /\ pc[t] = "out" /\ k' = k /\ queue' = queue /\ after' = after
      /\ \A u \in Task \ {t} : pc'[u] = pc[u] /\ call'[u] = call[u]
  BY <1>1, <1>2, CallBegins DEF CallsOK
<1>4. Waiting(q, way)' => Waiting(q, way)
  BY <1>3 DEF Waiting
<1>5. SetsCover(Retriers(q, way), Retriers(q, way)', 0)
  <2>1. ASSUME NEW u \in Retriers(q, way) PROVE u \in Retriers(q, way)'
    <3>1. u \in Awoken(k) /\ Tries(u, q, way) /\ u \in Task
      BY <1>1, Fields DEF Retriers, Awoken
    <3>2. u # t
      BY <1>3, <3>1 DEF Tries, Unlocking
    <3>3. Tries(u, q, way)'
      BY <1>3, <3>1, <3>2 DEF Tries, Way, Sends
    <3> QED  BY <1>3, <3>1, <3>3 DEF Retriers
  <2> QED  BY <2>1 DEF SetsCover
<1> QED  BY <1>1, <1>3, <1>4, <1>5, CoverSame

\* The cover at every queue and way.
LEMMA CoverStep ==
  ASSUME StructureInv, StructureInv', LooksOK, Covered, Next
  PROVE  Covered'
<1> SUFFICES ASSUME NEW q \in Queue, NEW way \in Directions PROVE CoveredAt(q, way)'
  BY DEF Covered, CoveredAt
<1>1. CoveredAt(q, way)
  BY DEF Covered, CoveredAt
<1>2. CASE Interrupt
  BY <1>1, <1>2, CoverInterrupt
<1>3. ASSUME NEW c \in program.calls, Call(c) PROVE CoveredAt(q, way)'
  BY <1>1, <1>3, CoverBegins
<1>4. ASSUME NEW t \in Task, TaskStep(t) PROVE CoveredAt(q, way)'
  BY <1>1, <1>4, CoverTask
<1> QED  BY <1>2, <1>3, <1>4 DEF Next

\* While a task is between locking its queue and placing itself, an interrupt moves what it counts.
LEMMA LooksInterrupt ==
  ASSUME StructureInv, StructureInv', LooksOK, Interrupt
  PROVE  LooksOK'
<1>1. Wakes(k, k') /\ UNCHANGED <<pc, tasks, after>> /\ CallsOK /\ QueuesOK /\ k \in Kernel
  BY InterruptStep DEF StructureInv, RefinementInv
<1>2. PICK t : t = k'.pxCurrentTCB
  OBVIOUS
<1>3. CASE pc[t] \in {"check", "look", "place"}
  <2>1. t = k.pxCurrentTCB /\ t \in Task
    <3>1. t \in Task
      BY <1>2, Fields DEF StructureInv
    <3>2. Places
      BY DEF StructureInv
    <3> QED  BY <1>3, <3>1, <3>2 DEF Places, Open, Closed, Elsewhere
  <2>2. PICK q : q = call[t].queue
    OBVIOUS
  <2>3. q \in Queue
    BY <1>1, <1>3, <2>1, <2>2, CallType
  <2>4. PICK r : r = queue[q]
    OBVIOUS
  <2>5. PICK way \in Directions : way = Way(t)
    BY DEF Way, Directions
  <2>6. /\ r.cTxLock \in Int /\ r.cRxLock \in Int /\ r.cTxLock >= 0 /\ r.cRxLock >= 0
        /\ r.uxMessagesWaiting \in Int /\ uxLength[q] \in Int
    BY <1>1, <1>3, <2>1, <2>2, <2>3, <2>4, <2>5, CountTypes DEF LooksOK, StructureInv
  <2>7. pc[t] = "place" =>
          IF way = "receive" THEN r.uxMessagesWaiting <= r.cTxLock
                             ELSE uxLength[q] - r.uxMessagesWaiting <= r.cRxLock
    BY <2>1, <2>2, <2>4, <2>5, <2>6 DEF LooksOK, Available, Moved, Locked, queueUNLOCKED
  <2>8. Way(t)' = way
    BY <1>1, <2>5 DEF Way, Sends, tasks
  <2>9. SUFFICES ASSUME NEW s, s = queue'[q]
        PROVE  /\ s.cTxLock \in Int /\ s.cRxLock \in Int /\ s.cTxLock >= 0 /\ s.cRxLock >= 0
               /\ pc[t] = "place" =>
                    IF way = "receive" THEN s.uxMessagesWaiting <= s.cTxLock
                                       ELSE uxLength[q] - s.uxMessagesWaiting <= s.cRxLock
    <3>1. call'[t].queue = q /\ pc'[t] = pc[t]
      BY <1>1, <2>2 DEF tasks
    <3>2. PICK s : s = queue'[q]
      OBVIOUS
    <3>3. /\ s.cTxLock \in Int /\ s.cRxLock \in Int /\ s.cTxLock >= 0 /\ s.cRxLock >= 0
          /\ pc[t] = "place" =>
               IF way = "receive" THEN s.uxMessagesWaiting <= s.cTxLock
                                  ELSE uxLength[q] - s.uxMessagesWaiting <= s.cRxLock
      BY <2>9, <3>2
    <3>4. Locked(s.cTxLock) = s.cTxLock /\ Locked(s.cRxLock) = s.cRxLock
      BY <3>3 DEF Locked, queueUNLOCKED
    <3>5. pc'[t] = "place" => Available(q, way)' <= Moved(q, way)'
      BY <3>1, <3>2, <3>3, <3>4 DEF Available, Moved
    <3> QED  BY <1>2, <2>8, <3>1, <3>2, <3>3, <3>5 DEF LooksOK
  <2>10. CASE s = r
    BY <2>6, <2>7, <2>10
  <2>11. CASE SendFromISR(q)
    <3>1. Counts(q, r.uxMessagesWaiting + 1, OneMore(r.cTxLock), r.cRxLock, r.pxMutexHolder)
      BY <2>3, <2>4, <2>11, ISRCounts DEF StructureInv
    <3>2. s.uxMessagesWaiting = r.uxMessagesWaiting + 1 /\ s.cTxLock = r.cTxLock + 1 /\ s.cRxLock = r.cRxLock
      BY <2>6, <2>9, <3>1 DEF Counts, OneMore, queueUNLOCKED
    <3> QED  BY <2>6, <2>7, <3>2
  <2>12. CASE ReceiveFromISR(q)
    <3>1. Counts(q, r.uxMessagesWaiting - 1, r.cTxLock, OneMore(r.cRxLock), r.pxMutexHolder)
      BY <2>3, <2>4, <2>12, ISRCounts DEF StructureInv
    <3>2. s.uxMessagesWaiting = r.uxMessagesWaiting - 1 /\ s.cTxLock = r.cTxLock /\ s.cRxLock = r.cRxLock + 1
      BY <2>6, <2>9, <3>1 DEF Counts, OneMore, queueUNLOCKED
    <3> QED  BY <2>6, <2>7, <3>2
  <2>13. CASE Tick
    BY <2>4, <2>9, <2>10, <2>13 DEF Tick
  <2>14. ASSUME NEW p \in Queue \ Mutex, SendFromISR(p) \/ ReceiveFromISR(p), p # q PROVE s = r
    <3>1. PICK e : queue' = [queue EXCEPT ![p] = e]
      BY <2>14, Zenon DEF SendFromISR, ReceiveFromISR
    <3> QED  BY <1>1, <2>3, <2>4, <2>9, <2>14, <3>1 DEF QueuesOK
  <2> QED  BY <2>10, <2>11, <2>12, <2>13, <2>14 DEF Interrupt
<1>4. CASE pc[t] \notin {"check", "look", "place"}
  BY <1>1, <1>2, <1>4 DEF LooksOK
<1> QED  BY <1>3, <1>4

\* No task is on the way to an event list while the scheduler runs.
LEMMA OpenLooks ==
  ASSUME StructureInv', Open'
  PROVE  LooksOK'
<1>1. PICK c : c = k'
  OBVIOUS
<1>2. c.pxCurrentTCB \in Task
  BY <1>1, Fields DEF StructureInv
<1> QED  BY <1>1, <1>2 DEF LooksOK, Open, Elsewhere

\* A task locks its queue, checks its time and looks, with no other task between.
LEMMA LooksTask ==
  ASSUME StructureInv, StructureInv', LooksOK, NEW t \in Task, TaskStep(t)
  PROVE  LooksOK'
<1>1. /\ t = k.pxCurrentTCB /\ pc[t] # "out" /\ CallsOK /\ QueuesOK /\ LockBounds
      /\ pc \in [Task -> Labels]
  BY StepRuns DEF StructureInv, RefinementInv, CallsOK
<1>2. CASE Open'
  BY <1>2, OpenLooks
<1>3. ASSUME k'.pxCurrentTCB = t, pc'[t] \notin {"check", "look", "place"} PROVE LooksOK'
  BY <1>3 DEF LooksOK
<1>4. CASE SendItem(t) \/ Give(t) \/ ReceiveItem(t) \/ Peek(t) \/ TestFails(t) \/ Yield(t) \/ Return(t)
           \/ LastLook(t) \/ Resume(t)
  BY <1>2, <1>4, OpenSteps, ResumeStep
<1>5. CASE Suspend(t)
  <2>1. k'.pxCurrentTCB = t
    BY <1>5, SuspendStep DEF Closed
  <2>2. pc'[t] \in {"sleep", "lock"}
    BY <1>1, <1>5 DEF Suspend, Goto
  <2> QED  BY <1>3, <2>1, <2>2
<1>6. CASE Place(t) \/ Sleep(t)
  <2>1. k'.pxCurrentTCB = t
    BY <1>6, BlockStep DEF Closed
  <2>2. pc'[t] \in {"unlock_tx", "resume"}
    BY <1>1, <1>6 DEF Place, Sleep, Goto
  <2> QED  BY <1>3, <2>1, <2>2
<1>7. CASE UnlockTx(t) \/ UnlockRx(t)
  <2>1. k'.pxCurrentTCB = t
    BY <1>7, ClosedSteps DEF Closed
  <2>2. pc'[t] \in {"unlock_rx", "resume"}
    BY <1>1, <1>7 DEF UnlockTx, UnlockRx, Goto
  <2> QED  BY <1>3, <2>1, <2>2
<1>8. PICK q : q = call[t].queue
  OBVIOUS
<1>9. q \in Queue
  BY <1>1, <1>8, CallType
<1>10. PICK r : r = queue[q]
  OBVIOUS
<1>11. /\ r.cTxLock \in Int /\ r.cRxLock \in Int /\ r.cTxLock >= -1 /\ r.cRxLock >= -1
       /\ r.uxMessagesWaiting \in Int /\ uxLength[q] \in Int
  BY <1>1, <1>9, <1>10, CountTypes DEF Directions
<1>12. CASE LockQueue(t)
  <2>1. k'.pxCurrentTCB = t
    BY <1>12, ClosedSteps DEF Closed
  <2>2. pc'[t] = "check" /\ call' = call
    BY <1>1, <1>12 DEF LockQueue, Goto, tasks
  <2>3. Counts(q, r.uxMessagesWaiting, Locked(r.cTxLock), Locked(r.cRxLock), r.pxMutexHolder)
    BY <1>8, <1>10, <1>12, LockCounts DEF StructureInv
  <2>4. Locked(r.cTxLock) >= 0 /\ Locked(r.cRxLock) >= 0
    BY <1>11 DEF Locked, queueUNLOCKED
  <2> QED  BY <1>8, <2>1, <2>2, <2>3, <2>4 DEF LooksOK, Counts
<1>13. CASE CheckForTimeOut(t)
  <2>1. k'.pxCurrentTCB = t
    BY <1>13, ClosedSteps DEF Closed
  <2>2. pc[t] = "check" /\ pc'[t] \in {"look", "unlock_tx"} /\ call' = call /\ queue' = queue
    BY <1>1, <1>13 DEF CheckForTimeOut, Goto, tasks, Runs
  <2> QED  BY <1>1, <2>1, <2>2 DEF LooksOK
<1>14. CASE Look(t)
  <2>1. k'.pxCurrentTCB = t
    BY <1>14, ClosedSteps DEF Closed
  <2>2. /\ pc[t] = "look" /\ pc'[t] \in {"place", "unlock_tx"} /\ call' = call /\ queue' = queue
        /\ pc'[t] = "place" => ~CanGo(t)
    BY <1>1, <1>14 DEF Look, Goto, tasks, Runs
  <2>3. queue[q].cTxLock >= 0 /\ queue[q].cRxLock >= 0
    BY <1>1, <1>8, <2>2 DEF LooksOK
  <2>4. pc'[t] = "place" => Available(q, Way(t)) <= Moved(q, Way(t))
    <3>1. PICK way \in Directions : way = Way(t)
      BY DEF Way, Directions
    <3>2. Moved(q, way) \in Nat
      BY <1>1, <1>9, CountTypes
    <3>3. pc'[t] = "place" => Available(q, way) = 0
      BY <1>8, <1>10, <1>11, <2>2, <3>1 DEF CanGo, Full, Empty, Available, Way
    <3> QED  BY <3>1, <3>2, <3>3
  <2>5. Way(t)' = Way(t) /\ Available(q, Way(t))' = Available(q, Way(t)) /\ Moved(q, Way(t))' = Moved(q, Way(t))
    BY <2>2 DEF Way, Sends, Available, Moved
  <2> QED  BY <1>8, <2>1, <2>2, <2>3, <2>4, <2>5 DEF LooksOK
<1> QED  BY <1>4, <1>5, <1>6, <1>7, <1>12, <1>13, <1>14 DEF TaskStep

\* The inductive invariant of the wake-ups.
LEMMA InitWakeup ==
  ASSUME Init
  PROVE  WakeupInv
<1>1. StructureInv
  BY InitStructure
<1>2. k.pxCurrentTCB \in Task /\ \A l \in Lists : k.waiting[l] = <<>>
  BY <1>1, Fields, InitialKernel DEF StructureInv, Init
<1>3. LooksOK
  BY <1>2 DEF Init, LooksOK
<1>4. Covered
  BY <1>2 DEF Covered, Waiting, Lists
<1> QED  BY <1>1, <1>3, <1>4 DEF WakeupInv

LEMMA WakeupStep ==
  ASSUME WakeupInv, [Next]_vars
  PROVE  WakeupInv'
<1>1. StructureInv /\ LooksOK /\ Covered /\ StructureInv'
  BY StructureStep DEF WakeupInv
<1>2. CASE UNCHANGED vars
  <2>1. k' = k /\ queue' = queue /\ pc' = pc /\ call' = call /\ after' = after
    BY <1>2 DEF vars, tasks
  <2>2. LooksOK'
    BY <1>1, <2>1 DEF LooksOK, Available, Moved, Way, Sends
  <2>3. Covered'
    BY <1>1, <2>1 DEF Covered, Waiting, Available, Moved, Retriers, Tries, Way, Sends
  <2> QED  BY <1>1, <2>2, <2>3 DEF WakeupInv
<1>3. CASE Next
  <2>1. LooksOK'
    <3>1. ASSUME NEW c \in program.calls, Call(c) PROVE LooksOK'
      BY <1>1, <3>1, BeginStep, OpenLooks
    <3> QED  BY <1>1, <1>3, <3>1, LooksInterrupt, LooksTask DEF Next
  <2> QED  BY <1>1, <1>3, <2>1, CoverStep DEF WakeupInv
<1> QED  BY <1>2, <1>3

\* A task that covers an item is one that will look.
LEMMA CoverRetries ==
  ASSUME WakeupInv, NEW q \in Queue, NEW way \in Directions, Waiting(q, way),
         Moved(q, way) = 0, Available(q, way) # 0
  PROVE  Retrying(q, way)
<1>1. StructureInv /\ CallsOK /\ QueuesOK /\ LockBounds /\ Places /\ k \in Kernel
  BY DEF WakeupInv, StructureInv, RefinementInv
<1>2. PICK R : R = Retriers(q, way)
  OBVIOUS
<1>3. R \in SUBSET Task
  BY <1>1, <1>2, Fields DEF Retriers, Awoken
<1>4. Cardinality(R) # 0
  <2>1. Available(q, way) \in Nat /\ Available(q, way) <= 0 + Cardinality(R)
    BY <1>1, <1>2, CountTypes DEF WakeupInv, Covered
  <2> QED  BY <2>1
<1>5. PICK t \in R : TRUE
  BY <1>4, FS_EmptySet
<1>6. t \in Task /\ t \in Awoken(k) /\ Tries(t, q, way)
  BY <1>2, <1>3, <1>5 DEF Retriers
<1>7. pc[t] # "out"
  BY <1>6 DEF Tries, Unlocking
<1>8. call[t] # NoCall
  BY <1>1, <1>6, <1>7, CallTimes DEF CallsOK, NoCall
<1>9. ~(k.pxCurrentTCB = t /\ after = "fail" /\ Sends(t))
  <2> SUFFICES ASSUME k.pxCurrentTCB = t, after = "fail" PROVE FALSE
    OBVIOUS
  <2>1. Closed(t)
    BY <1>1 DEF Places, Open, Closed
  <2> QED  BY <1>6, <2>1 DEF Closed, Tries, Elsewhere, Suspending, Unlocking
<1> QED  BY <1>6, <1>8, <1>9 DEF Retrying, Awoken, Tries

LEMMA WakeupSuffices ==
  ASSUME WakeupInv
  PROVE  NoLostWakeup
<1>1. QueuesOK /\ LockBounds
  BY DEF WakeupInv, StructureInv, RefinementInv
<1> SUFFICES ASSUME NEW q \in Queue
    PROVE  /\ queue[q].cTxLock = queueUNLOCKED /\ ~Empty(q) /\ Waiting(q, "receive") => Retrying(q, "receive")
           /\ queue[q].cRxLock = queueUNLOCKED /\ ~Full(q) /\ Waiting(q, "send") => Retrying(q, "send")
  BY DEF NoLostWakeup
<1>2. ASSUME queue[q].cTxLock = queueUNLOCKED, ~Empty(q), Waiting(q, "receive") PROVE Retrying(q, "receive")
  <2>1. PICK way \in Directions : way = "receive"
    BY DEF Directions
  <2>2. Moved(q, way) = 0 /\ Available(q, way) # 0
    BY <1>2, <2>1 DEF Moved, Locked, Available, Empty
  <2> QED  BY <1>2, <2>1, <2>2, CoverRetries
<1>3. ASSUME queue[q].cRxLock = queueUNLOCKED, ~Full(q), Waiting(q, "send") PROVE Retrying(q, "send")
  <2>1. PICK way \in Directions : way = "send"
    BY DEF Directions
  <2>2. Available(q, way) # 0
    <3>1. queue[q].uxMessagesWaiting \in Nat /\ uxLength[q] \in Nat
      BY <1>1, CountTypes
    <3> QED  BY <1>3, <2>1, <3>1 DEF Available, Full
  <2>3. Moved(q, way) = 0
    BY <1>3, <2>1 DEF Moved, Locked
  <2> QED  BY <1>3, <2>1, <2>2, <2>3, CoverRetries
<1> QED  BY <1>2, <1>3

\* While something can be had from an unlocked queue and a task waits for it in the event list,
\* some task that is ready, or will be when the scheduler is resumed, is on its way to look: what
\* xQueueGenericSend, xQueueGenericReceive, the interrupts and prvUnlockQueue wake is enough,
\* however the tasks race between the last look and vTaskPlaceOnEventList.
THEOREM NoWakeupIsLost == Spec => []NoLostWakeup
<1>1. Init => WakeupInv
  BY InitWakeup
<1>2. WakeupInv /\ [Next]_vars => WakeupInv'
  BY WakeupStep
<1>3. WakeupInv => NoLostWakeup
  BY WakeupSuffices
<1> QED  BY <1>1, <1>2, <1>3, PTL DEF Spec

-----------------------------------------------------------------------------
(* Mutexes. *)

\* A mutex is full, or empty and held by one task.
HoldersOK ==
  \A q \in Mutex : \/ queue[q].uxMessagesWaiting = 1 /\ queue[q].pxMutexHolder = {}
                   \/ queue[q].uxMessagesWaiting = 0 /\ \E t \in Task : queue[q].pxMutexHolder = {t}

\* A task that is giving a mutex holds it; the other calls take it.
MutexCalls ==
  \A t \in Task : pc[t] # "out" /\ call[t].queue \in Mutex /\ call[t].op # "delay" =>
    IF call[t].op = "back" THEN queue[call[t].queue].pxMutexHolder = {t} ELSE call[t].op = "receive"

\* A task counts the mutexes it holds.
Holding(t) == {q \in Mutex : queue[q].pxMutexHolder = {t}}
HeldOK == \A t \in Task : k.uxMutexesHeld[t] = Cardinality(Holding(t))

MutexInv == StructureInv /\ HoldersOK /\ MutexCalls /\ HeldOK

\* What giving and taking do to the number of mutexes of the running task.
HeldAfter(t, b) ==
  /\ SendItem(t) \/ Peek(t) => b.uxMutexesHeld = k.uxMutexesHeld
  /\ ReceiveItem(t) =>
       b.uxMutexesHeld = IF call[t].queue \in Mutex
                         THEN [k.uxMutexesHeld EXCEPT ![t] = k.uxMutexesHeld[t] + 1]
                         ELSE k.uxMutexesHeld
  /\ Give(t) /\ queue[call[t].queue].pxMutexHolder # {} =>
       b.uxMutexesHeld = [k.uxMutexesHeld EXCEPT ![t] = k.uxMutexesHeld[t] - 1]

LEMMA GoHeld ==
  ASSUME StructureInv, NEW t \in Task,
         SendItem(t) \/ Give(t) \/ ReceiveItem(t) \/ Peek(t)
  PROVE  HeldAfter(t, k')
<1>1. PICK l : l = Other(t)
  OBVIOUS
<1>2. k \in Kernel /\ Sound(k) /\ l \in Lists /\ pc[t] = "test" /\ t = k.pxCurrentTCB
  <2>1. pc[t] = "test" /\ t = k.pxCurrentTCB
    BY DEF SendItem, Give, ReceiveItem, Peek, Runs
  <2>2. call[t].queue \in Queue
    BY <2>1, CallType DEF StructureInv, RefinementInv
  <2> QED  BY <1>1, <2>1, <2>2 DEF Other, Lists, Directions, StructureInv
<1>3. ASSUME NEW a \in Kernel, SameLists(k, a), SameTime(k, a), SameAlarm(k, a),
             a.pxCurrentTCB = k.pxCurrentTCB, a.uxSchedulerSuspended = k.uxSchedulerSuspended, NEW x, NEW w, w = Wake(a, l, x),
             Settle(w.k, w.woken)
      PROVE  k'.uxMutexesHeld = a.uxMutexesHeld
  BY <1>2, <1>3, WakeEffect
<1>4. SameLists(k, k) /\ SameTime(k, k) /\ SameAlarm(k, k)
  BY DEF SameLists, SameTime, SameAlarm
<1>5. ASSUME SendItem(t) \/ Peek(t) PROVE k'.uxMutexesHeld = k.uxMutexesHeld
  <2>1. PICK w : w = Wake(k, l, FALSE)
    OBVIOUS
  <2>2. Settle(w.k, w.woken)
    BY <1>1, <1>5, <2>1 DEF SendItem, Peek, Sends, Other
  <2> QED  BY <1>2, <1>3, <1>4, <2>1, <2>2
<1>6. ASSUME Give(t), queue[call[t].queue].pxMutexHolder # {}
      PROVE  k'.uxMutexesHeld = [k.uxMutexesHeld EXCEPT ![t] = k.uxMutexesHeld[t] - 1]
  <2>1. PICK holder : holder = queue[call[t].queue].pxMutexHolder
    OBVIOUS
  <2>2. PICK d : d = PriorityDisinherit(k, holder)
    OBVIOUS
  <2>3. PICK a : a = d.k
    OBVIOUS
  <2>4. PICK w : w = Wake(a, l, d.yield)
    OBVIOUS
  <2>5. Settle(w.k, w.woken)
    BY <1>1, <1>6, <2>1, <2>2, <2>3, <2>4 DEF Give, Sends, Other
  <2>6. Disinherited(k, a, t, holder)
    BY <1>2, <2>2, <2>3, DisinheritFields
  <2>7. k'.uxMutexesHeld = a.uxMutexesHeld
    BY <1>3, <2>4, <2>5, <2>6 DEF Disinherited
  <2> QED  BY <1>6, <2>1, <2>6, <2>7 DEF Disinherited
<1>7. ASSUME ReceiveItem(t)
      PROVE  k'.uxMutexesHeld = IF call[t].queue \in Mutex
                                THEN [k.uxMutexesHeld EXCEPT ![t] = k.uxMutexesHeld[t] + 1]
                                ELSE k.uxMutexesHeld
  <2>1. PICK a : a = IF call[t].queue \in Mutex THEN [k EXCEPT !.uxMutexesHeld[t] = @ + 1] ELSE k
    OBVIOUS
  <2>2. PICK w : w = Wake(a, l, FALSE)
    OBVIOUS
  <2>3. Settle(w.k, w.woken)
    BY <1>1, <1>7, <2>1, <2>2 DEF ReceiveItem, Other
  <2>4. CASE call[t].queue \in Mutex
    <3>1. OneMoreHeld(k, a, t)
      BY <1>2, <2>1, <2>4, HeldFields
    <3>2. k'.uxMutexesHeld = a.uxMutexesHeld
      BY <1>3, <2>2, <2>3, <3>1 DEF OneMoreHeld
    <3> QED  BY <2>4, <3>1, <3>2 DEF OneMoreHeld
  <2>5. CASE call[t].queue \notin Mutex
    <3>1. k'.uxMutexesHeld = k.uxMutexesHeld
      BY <1>2, <1>3, <1>4, <2>1, <2>2, <2>3, <2>5
    <3> QED  BY <2>5, <3>1
  <2> QED  BY <2>4, <2>5
<1> QED  BY <1>5, <1>6, <1>7 DEF HeldAfter

\* The other steps leave that number alone.
LEMMA HeldSame ==
  ASSUME StructureInv, NEW t \in Task, TaskStep(t),
         ~(SendItem(t) \/ Give(t) \/ ReceiveItem(t) \/ Peek(t))
  PROVE  k'.uxMutexesHeld = k.uxMutexesHeld
<1>1. /\ t = k.pxCurrentTCB /\ k \in Kernel /\ Sound(k) /\ Places
  BY StepRuns DEF StructureInv
<1>2. CASE TestFails(t) \/ LockQueue(t) \/ CheckForTimeOut(t) \/ Look(t) \/ Return(t) \/ LastLook(t)
  BY <1>2 DEF TestFails, LockQueue, CheckForTimeOut, Look, Return, LastLook
<1>3. CASE Suspend(t)
  BY <1>3 DEF Suspend, SuspendAll, Kernel
<1>4. CASE Place(t) \/ Sleep(t)
  <2>1. PICK lists : lists = IF Place(t) THEN {<<call[t].queue, Way(t)>>} ELSE {}
    OBVIOUS
  <2>2. Blocks(k, k', t, lists)
    BY <1>4, <2>1, BlockStep
  <2> QED  BY <2>2 DEF Blocks, SameRun
<1>5. CASE Resume(t)
  BY <1>5, ResumeStep DEF ResumedAll
<1>6. CASE Yield(t)
  <2>1. Settle(k, TRUE)
    BY <1>6 DEF Yield
  <2>2. Settled(k, k')
    BY <1>1, <2>1, SettleFields
  <2> QED  BY <2>2 DEF Settled
<1>7. CASE UnlockTx(t) \/ UnlockRx(t)
  <2>1. PICK way \in Directions : way = IF UnlockTx(t) THEN "receive" ELSE "send"
    BY DEF Directions
  <2>2. PICK l : l = <<call[t].queue, way>>
    OBVIOUS
  <2>3. PICK n : n = IF UnlockTx(t) THEN queue[call[t].queue].cTxLock ELSE queue[call[t].queue].cRxLock
    OBVIOUS
  <2>4. k' = WakeSome(l, n)
    BY <1>7, <2>1, <2>2, <2>3 DEF UnlockTx, UnlockRx
  <2>5. pc[t] \in Suspending /\ pc[t] # "out"
    BY <1>7 DEF UnlockTx, UnlockRx, Runs, Suspending, Unlocking
  <2>6. call[t].queue \in Queue
    BY <2>5, CallType DEF StructureInv, RefinementInv
  <2>7. l \in Lists
    BY <2>2, <2>6 DEF Lists
  <2>8. PICK m \in Nat : m = Locked(n)
    <3>1. n \in Int /\ n >= -1
      BY <2>3, <2>6, CountTypes DEF StructureInv, RefinementInv, Directions
    <3> QED  BY <3>1 DEF Locked, queueUNLOCKED
  <2>9. Closed(t)
    BY <1>1, <2>5, PlaceDecides
  <2>10. WakesTo(k, k', l, m)
    BY <1>1, <2>4, <2>7, <2>8, <2>9, UnlockEffect DEF Closed
  <2> QED  BY <2>10 DEF WakesTo, SameRun
<1> QED  BY <1>2, <1>3, <1>4, <1>5, <1>6, <1>7 DEF TaskStep

LEMMA HeldInterrupt ==
  ASSUME StructureInv, Interrupt
  PROVE  k'.uxMutexesHeld = k.uxMutexesHeld
<1>1. k \in Kernel /\ Sound(k) /\ (k.uxSchedulerSuspended = 0 => k.pending = {})
  BY DEF StructureInv, Places, Open, Closed
<1>2. CASE Tick
  BY <1>1, <1>2, TickEffect
<1>3. ASSUME NEW q \in Queue, NEW way \in Directions, NEW w, w = Wake(k, <<q, way>>, FALSE), EndInterrupt(w)
      PROVE  k'.uxMutexesHeld = k.uxMutexesHeld
  <2>1. PICK yield : Settle(w.k, yield)
    BY <1>3 DEF EndInterrupt
  <2>2. SameLists(k, k) /\ SameTime(k, k) /\ SameAlarm(k, k) /\ <<q, way>> \in Lists
    BY DEF SameLists, SameTime, SameAlarm, Lists
  <2> QED  BY <1>1, <1>3, <2>1, <2>2, WakeEffect
<1>4. ASSUME NEW q \in Queue, SendFromISR(q) PROVE k'.uxMutexesHeld = k.uxMutexesHeld
  <2>1. PICK way \in Directions : way = "receive"
    BY DEF Directions
  <2>2. PICK w : w = Wake(k, <<q, way>>, FALSE)
    OBVIOUS
  <2>3. k' = k \/ EndInterrupt(w)
    BY <1>4, <2>1, <2>2 DEF SendFromISR
  <2> QED  BY <1>3, <2>2, <2>3
<1>5. ASSUME NEW q \in Queue, ReceiveFromISR(q) PROVE k'.uxMutexesHeld = k.uxMutexesHeld
  <2>1. PICK way \in Directions : way = "send"
    BY DEF Directions
  <2>2. PICK w : w = Wake(k, <<q, way>>, FALSE)
    OBVIOUS
  <2>3. k' = k \/ EndInterrupt(w)
    BY <1>5, <2>1, <2>2 DEF ReceiveFromISR
  <2> QED  BY <1>3, <2>2, <2>3
<1> QED  BY <1>2, <1>4, <1>5 DEF Interrupt

\* No mutex changes hands, and no call on one begins.
LEMMA MutexQuiet ==
  ASSUME MutexInv, StructureInv', k'.uxMutexesHeld = k.uxMutexesHeld,
         \A q \in Mutex : /\ queue'[q].uxMessagesWaiting = queue[q].uxMessagesWaiting
                          /\ queue'[q].pxMutexHolder = queue[q].pxMutexHolder,
         \A t \in Task : pc'[t] # "out" => pc[t] # "out" /\ call'[t] = call[t]
  PROVE  MutexInv'
<1>1. HoldersOK'
  BY DEF MutexInv, HoldersOK
<1>2. MutexCalls'
  BY DEF MutexInv, MutexCalls
<1>3. \A t : Holding(t)' = Holding(t)
  BY DEF Holding
<1>4. HeldOK'
  BY <1>3 DEF MutexInv, HeldOK
<1> QED  BY <1>1, <1>2, <1>4 DEF MutexInv

\* A set of mutexes with one more, or one less.
LEMMA HoldingCard ==
  ASSUME NEW S \in SUBSET Mutex, NEW q
  PROVE  /\ Cardinality(S) \in Nat
         /\ q \in Mutex \ S => Cardinality(S \cup {q}) = Cardinality(S) + 1
         /\ q \in S => Cardinality(S \ {q}) = Cardinality(S) - 1
<1>1. IsFiniteSet(S)
  BY MutexAssumption, FS_Subset
<1> QED  BY <1>1, FS_CardinalityType, FS_AddElement, FS_RemoveElement

\* Task t gives mutex q.
LEMMA MutexGiven ==
  ASSUME MutexInv, StructureInv', NEW t \in Task, TaskStep(t), Give(t)
  PROVE  MutexInv'
<1>1. PICK q : q = call[t].queue
  OBVIOUS
<1>2. /\ StructureInv /\ RefinementInv /\ CallsOK /\ TicksOK /\ HoldersOK /\ MutexCalls /\ HeldOK
      /\ k \in Kernel
  BY DEF MutexInv, StructureInv, RefinementInv
<1>3. /\ pc[t] = "test" /\ Sends(t) /\ q \in Mutex /\ t = k.pxCurrentTCB
  BY <1>1 DEF Give, Runs
<1>4. queue[q].pxMutexHolder = {t}
  <2>1. call[t].op # "delay" /\ call[t].op # "receive"
    BY <1>3 DEF Sends
  <2> QED  BY <1>1, <1>2, <1>3, <2>1 DEF MutexCalls
<1>5. queue[q].uxMessagesWaiting = 0
  <2>1. {t} # {}
    OBVIOUS
  <2> QED  BY <1>2, <1>3, <1>4, <2>1 DEF HoldersOK
<1>6. /\ queue'[q].uxMessagesWaiting = 1 /\ queue'[q].pxMutexHolder = {}
      /\ \A p \in Mutex \ {q} : queue'[p] = queue[p]
  <2>1. PICK r : r = queue[q]
    OBVIOUS
  <2>2. PICK holder : holder = {}
    OBVIOUS
  <2>3. Counts(q, r.uxMessagesWaiting + 1, r.cTxLock, r.cRxLock, holder)
    BY <1>1, <1>2, <2>1, <2>2, GiveCounts
  <2> QED  BY <1>5, <2>1, <2>2, <2>3, QueueAssumption DEF Counts
<1>7. Others(t) /\ ReturnedOK(t)
  BY <1>2, ReturnsOthers DEF Give
<1>8. HoldersOK'
  <2> SUFFICES ASSUME NEW p \in Mutex
               PROVE  \/ queue'[p].uxMessagesWaiting = 1 /\ queue'[p].pxMutexHolder = {}
                      \/ queue'[p].uxMessagesWaiting = 0 /\ \E u \in Task : queue'[p].pxMutexHolder = {u}
    BY DEF HoldersOK
  <2>1. CASE p = q
    BY <1>6, <2>1
  <2>2. CASE p # q
    BY <1>2, <1>6, <2>2 DEF HoldersOK
  <2> QED  BY <2>1, <2>2
<1>9. MutexCalls'
  <2> SUFFICES ASSUME NEW u \in Task, pc'[u] # "out", call'[u].queue \in Mutex, call'[u].op # "delay"
               PROVE  IF call'[u].op = "back" THEN queue'[call'[u].queue].pxMutexHolder = {u}
                      ELSE call'[u].op = "receive"
    BY DEF MutexCalls
  <2>1. u # t /\ pc[u] # "out" /\ call'[u] = call[u]
    BY <1>7 DEF Others, ReturnedOK
  <2>2. IF call[u].op = "back" THEN queue[call[u].queue].pxMutexHolder = {u} ELSE call[u].op = "receive"
    BY <1>2, <2>1 DEF MutexCalls
  <2>3. call[u].op = "back" => call[u].queue # q
    BY <1>4, <2>1, <2>2
  <2> QED  BY <1>6, <2>1, <2>2, <2>3
<1>10. HeldOK'
  <2> SUFFICES ASSUME NEW u \in Task PROVE k'.uxMutexesHeld[u] = Cardinality(Holding(u)')
    BY DEF HeldOK
  <2>1. k'.uxMutexesHeld = [k.uxMutexesHeld EXCEPT ![t] = k.uxMutexesHeld[t] - 1]
    <3>1. queue[call[t].queue].pxMutexHolder # {}
      BY <1>1, <1>4
    <3> QED  BY <1>2, <3>1, GoHeld DEF HeldAfter
  <2>2. k.uxMutexesHeld[u] = Cardinality(Holding(u)) /\ k.uxMutexesHeld \in [Task -> Int]
    BY <1>2, Fields DEF HeldOK
  <2>3. Holding(u) \in SUBSET Mutex
    BY DEF Holding
  <2>4. CASE u = t
    <3>1. Holding(u)' = Holding(u) \ {q} /\ q \in Holding(u)
      BY <1>3, <1>4, <1>6, <2>4 DEF Holding
    <3>2. PICK S \in SUBSET Mutex : S = Holding(u)
      BY <2>3
    <3>3. Cardinality(S \ {q}) = Cardinality(S) - 1
      BY <3>1, <3>2, HoldingCard
    <3> QED  BY <2>1, <2>2, <2>4, <3>1, <3>2, <3>3
  <2>5. CASE u # t
    <3>1. Holding(u)' = Holding(u)
      BY <1>4, <1>6, <2>5 DEF Holding
    <3> QED  BY <2>1, <2>2, <2>5, <3>1
  <2> QED  BY <2>4, <2>5
<1> QED  BY <1>8, <1>9, <1>10 DEF MutexInv

\* Task t takes mutex q.
LEMMA MutexTaken ==
  ASSUME MutexInv, StructureInv', NEW t \in Task, TaskStep(t), ReceiveItem(t), call[t].queue \in Mutex
  PROVE  MutexInv'
<1>1. PICK q : q = call[t].queue
  OBVIOUS
<1>2. /\ StructureInv /\ RefinementInv /\ CallsOK /\ TicksOK /\ HoldersOK /\ MutexCalls /\ HeldOK
      /\ k \in Kernel
  BY DEF MutexInv, StructureInv, RefinementInv
<1>3. /\ pc[t] = "test" /\ q \in Mutex /\ t = k.pxCurrentTCB /\ queue[q].uxMessagesWaiting # 0
  BY <1>1 DEF ReceiveItem, Runs, CanGo, Sends, Empty
<1>4. queue[q].uxMessagesWaiting = 1 /\ queue[q].pxMutexHolder = {}
  BY <1>2, <1>3 DEF HoldersOK
<1>5. /\ queue'[q].uxMessagesWaiting = 0 /\ queue'[q].pxMutexHolder = {t}
      /\ \A p \in Mutex \ {q} : queue'[p] = queue[p]
  <2>1. PICK r : r = queue[q]
    OBVIOUS
  <2>2. PICK holder : holder = IF q \in Mutex THEN {t} ELSE r.pxMutexHolder
    OBVIOUS
  <2>3. Counts(q, r.uxMessagesWaiting - 1, r.cTxLock, r.cRxLock, holder)
    BY <1>1, <1>2, <2>1, <2>2, ReceiveCounts
  <2>4. holder = {t} /\ r.uxMessagesWaiting = 1
    BY <1>3, <1>4, <2>1, <2>2
  <2> QED  BY <2>3, <2>4, QueueAssumption DEF Counts
<1>6. Others(t) /\ ReturnedOK(t)
  BY <1>2, ReturnsOthers DEF ReceiveItem
<1>7. HoldersOK'
  <2> SUFFICES ASSUME NEW p \in Mutex
               PROVE  \/ queue'[p].uxMessagesWaiting = 1 /\ queue'[p].pxMutexHolder = {}
                      \/ queue'[p].uxMessagesWaiting = 0 /\ \E u \in Task : queue'[p].pxMutexHolder = {u}
    BY DEF HoldersOK
  <2>1. CASE p = q
    BY <1>5, <2>1
  <2>2. CASE p # q
    BY <1>2, <1>5, <2>2 DEF HoldersOK
  <2> QED  BY <2>1, <2>2
<1>8. MutexCalls'
  <2> SUFFICES ASSUME NEW u \in Task, pc'[u] # "out", call'[u].queue \in Mutex, call'[u].op # "delay"
               PROVE  IF call'[u].op = "back" THEN queue'[call'[u].queue].pxMutexHolder = {u}
                      ELSE call'[u].op = "receive"
    BY DEF MutexCalls
  <2>1. u # t /\ pc[u] # "out" /\ call'[u] = call[u]
    BY <1>6 DEF Others, ReturnedOK
  <2>2. IF call[u].op = "back" THEN queue[call[u].queue].pxMutexHolder = {u} ELSE call[u].op = "receive"
    BY <1>2, <2>1 DEF MutexCalls
  <2>3. call[u].op = "back" => call[u].queue # q
    BY <1>4, <2>1, <2>2
  <2> QED  BY <1>5, <2>1, <2>2, <2>3
<1>9. HeldOK'
  <2> SUFFICES ASSUME NEW u \in Task PROVE k'.uxMutexesHeld[u] = Cardinality(Holding(u)')
    BY DEF HeldOK
  <2>1. k'.uxMutexesHeld = [k.uxMutexesHeld EXCEPT ![t] = k.uxMutexesHeld[t] + 1]
    BY <1>2, GoHeld DEF HeldAfter
  <2>2. k.uxMutexesHeld[u] = Cardinality(Holding(u)) /\ k.uxMutexesHeld \in [Task -> Int]
    BY <1>2, Fields DEF HeldOK
  <2>3. Holding(u) \in SUBSET Mutex
    BY DEF Holding
  <2>4. CASE u = t
    <3>1. Holding(u)' = Holding(u) \cup {q} /\ q \in Mutex \ Holding(u)
      BY <1>3, <1>4, <1>5, <2>4 DEF Holding
    <3>2. PICK S \in SUBSET Mutex : S = Holding(u)
      BY <2>3
    <3>3. Cardinality(S \cup {q}) = Cardinality(S) + 1
      BY <3>1, <3>2, HoldingCard
    <3> QED  BY <2>1, <2>2, <2>4, <3>1, <3>2, <3>3
  <2>5. CASE u # t
    <3>1. Holding(u)' = Holding(u)
      BY <1>4, <1>5, <2>5 DEF Holding
    <3> QED  BY <2>1, <2>2, <2>5, <3>1
  <2> QED  BY <2>4, <2>5
<1> QED  BY <1>7, <1>8, <1>9 DEF MutexInv

\* The other steps of a task.
LEMMA MutexAside ==
  ASSUME MutexInv, StructureInv', NEW t \in Task, TaskStep(t), ~Give(t),
         ~ReceiveItem(t) \/ call[t].queue \notin Mutex
  PROVE  MutexInv'
<1>1. StructureInv /\ RefinementInv /\ CallsOK /\ QueuesOK /\ TicksOK
  BY DEF MutexInv, StructureInv, RefinementInv
<1>2. k'.uxMutexesHeld = k.uxMutexesHeld
  <2>1. CASE SendItem(t) \/ Peek(t) \/ ReceiveItem(t)
    <3>1. HeldAfter(t, k')
      BY <1>1, <2>1, GoHeld
    <3> QED  BY <2>1, <3>1 DEF HeldAfter
  <2> QED  BY <1>1, <2>1, HeldSame
<1>3. PICK q : q = call[t].queue
  OBVIOUS
<1>4. PICK r : r = queue[q]
  OBVIOUS
<1>5. ASSUME NEW n, NEW tx, NEW rx, NEW holder, Counts(q, n, tx, rx, holder),
             q \in Mutex => n = r.uxMessagesWaiting /\ holder = r.pxMutexHolder
      PROVE  \A p \in Mutex : /\ queue'[p].uxMessagesWaiting = queue[p].uxMessagesWaiting
                              /\ queue'[p].pxMutexHolder = queue[p].pxMutexHolder
  BY <1>4, <1>5, QueueAssumption DEF Counts
<1>6. \A p \in Mutex : /\ queue'[p].uxMessagesWaiting = queue[p].uxMessagesWaiting
                       /\ queue'[p].pxMutexHolder = queue[p].pxMutexHolder
  <2>1. CASE SendItem(t)
    <3>1. q \notin Mutex
      BY <1>3, <2>1 DEF SendItem
    <3>2. Counts(q, r.uxMessagesWaiting + 1, r.cTxLock, r.cRxLock, r.pxMutexHolder)
      BY <1>1, <1>3, <1>4, <2>1, SendCounts
    <3> QED  BY <1>5, <3>1, <3>2
  <2>2. CASE ReceiveItem(t)
    <3>1. PICK holder : holder = IF q \in Mutex THEN {t} ELSE r.pxMutexHolder
      OBVIOUS
    <3>2. Counts(q, r.uxMessagesWaiting - 1, r.cTxLock, r.cRxLock, holder)
      BY <1>1, <1>3, <1>4, <2>2, <3>1, ReceiveCounts
    <3> QED  BY <1>3, <1>5, <2>2, <3>2
  <2>3. CASE LockQueue(t)
    <3>1. Counts(q, r.uxMessagesWaiting, Locked(r.cTxLock), Locked(r.cRxLock), r.pxMutexHolder)
      BY <1>1, <1>3, <1>4, <2>3, LockCounts
    <3> QED  BY <1>5, <3>1
  <2>4. CASE UnlockTx(t)
    <3>1. Counts(q, r.uxMessagesWaiting, -1, r.cRxLock, r.pxMutexHolder)
      BY <1>1, <1>3, <1>4, <2>4, LockCounts
    <3> QED  BY <1>5, <3>1
  <2>5. CASE UnlockRx(t)
    <3>1. Counts(q, r.uxMessagesWaiting, r.cTxLock, -1, r.pxMutexHolder)
      BY <1>1, <1>3, <1>4, <2>5, LockCounts
    <3> QED  BY <1>5, <3>1
  <2>6. CASE ~(SendItem(t) \/ ReceiveItem(t) \/ LockQueue(t) \/ UnlockTx(t) \/ UnlockRx(t))
    BY <2>6, QueueSame
  <2> QED  BY <2>1, <2>2, <2>3, <2>4, <2>5, <2>6
<1>7. \A u \in Task : pc'[u] # "out" => pc[u] # "out" /\ call'[u] = call[u]
  <2>1. Others(t) /\ pc[t] # "out"
    BY <1>1, StepOthers, StepRuns
  <2>2. Returns(t) \/ call' = call
    BY DEF TaskStep, SendItem, Give, ReceiveItem, Peek, TestFails, Suspend, LockQueue,
           CheckForTimeOut, Look, Place, Sleep, UnlockTx, UnlockRx, Resume, Yield, Return, LastLook, tasks
  <2>3. Returns(t) => pc'[t] = "out"
    BY <1>1, ReturnsOthers DEF ReturnedOK
  <2> QED  BY <2>1, <2>2, <2>3 DEF Others
<1> QED  BY <1>2, <1>6, <1>7, MutexQuiet

\* The inductive invariant of the mutexes.
LEMMA InitMutex ==
  ASSUME Init
  PROVE  MutexInv
<1>1. StructureInv
  BY InitStructure
<1>2. HoldersOK
  BY QueueAssumption DEF Init, EmptyQueue, HoldersOK
<1>3. MutexCalls
  BY DEF Init, MutexCalls
<1>4. HeldOK
  <2> SUFFICES ASSUME NEW t \in Task PROVE k.uxMutexesHeld[t] = Cardinality(Holding(t))
    BY DEF HeldOK
  <2>1. k.uxMutexesHeld[t] = 0
    BY InitialKernel DEF Init
  <2>2. \A q \in Mutex : queue[q].pxMutexHolder = {}
    BY QueueAssumption DEF Init, EmptyQueue
  <2>3. Holding(t) = {}
    BY <2>2 DEF Holding
  <2> QED  BY <2>1, <2>3, FS_EmptySet
<1> QED  BY <1>1, <1>2, <1>3, <1>4 DEF MutexInv

LEMMA MutexStep ==
  ASSUME MutexInv, [Next]_vars
  PROVE  MutexInv'
<1>1. StructureInv /\ RefinementInv /\ CallsOK /\ QueuesOK /\ StructureInv'
  BY StructureStep DEF MutexInv, StructureInv, RefinementInv
<1>2. CASE UNCHANGED vars
  BY <1>1, <1>2, MutexQuiet DEF vars, tasks
<1>3. CASE Interrupt
  <2>1. k'.uxMutexesHeld = k.uxMutexesHeld /\ UNCHANGED <<pc, tasks>>
    BY <1>1, <1>3, HeldInterrupt, InterruptStep
  <2>2. \A p \in Mutex : queue'[p] = queue[p]
    <3>1. ASSUME NEW q \in Queue \ Mutex, SendFromISR(q) \/ ReceiveFromISR(q)
          PROVE  \A p \in Mutex : queue'[p] = queue[p]
      <4>1. PICK e : queue' = [queue EXCEPT ![q] = e]
        BY <3>1, Zenon DEF SendFromISR, ReceiveFromISR
      <4> QED  BY <1>1, <4>1, QueueAssumption DEF QueuesOK
    <3> QED  BY <1>3, <3>1 DEF Interrupt, Tick
  <2> QED  BY <1>1, <2>1, <2>2, MutexQuiet DEF tasks
<1>4. ASSUME NEW c \in program.calls, Call(c) PROVE MutexInv'
  <2>1. PICK t : t = c.task
    OBVIOUS
  <2>2. /\ t \in Task /\ call' = [call EXCEPT ![t] = c] /\ k' = k /\ queue' = queue
        /\ pc' = [pc EXCEPT ![t] = IF c.op = "delay" THEN "block" ELSE "test"]
    BY <1>1, <1>4, <2>1, CallBegins
  <2>3. Sensible(c)
    BY <1>4 DEF Call
  <2>4. MutexCalls'
    BY <1>1, <2>1, <2>2, <2>3 DEF MutexInv, MutexCalls, Sensible, CallsOK
  <2>5. HoldersOK' /\ HeldOK'
    BY <2>2 DEF MutexInv, HoldersOK, HeldOK, Holding
  <2> QED  BY <1>1, <2>4, <2>5 DEF MutexInv
<1>5. ASSUME NEW t \in Task, TaskStep(t) PROVE MutexInv'
  BY <1>1, <1>5, MutexGiven, MutexTaken, MutexAside
<1> QED  BY <1>2, <1>3, <1>4, <1>5 DEF Next

\* The types follow.
LEMMA MutexTypes ==
  ASSUME MutexInv
  PROVE  TypeOK
<1>1. /\ StructureInv /\ k \in Kernel /\ QueuesOK /\ LockBounds /\ TicksOK /\ Places /\ HeldOK
  BY DEF MutexInv, StructureInv, RefinementInv
<1>2. k.uxSchedulerSuspended \in {0, 1}
  BY <1>1 DEF Places, Open, Closed
<1>3. k.uxMutexesHeld \in [Task -> Nat]
  <2>1. k.uxMutexesHeld \in [Task -> Int]
    BY <1>1, Fields
  <2>2. ASSUME NEW t \in Task PROVE k.uxMutexesHeld[t] \in Nat
    <3>1. PICK S \in SUBSET Mutex : S = Holding(t)
      BY DEF Holding
    <3>2. Cardinality(S) \in Nat
      BY HoldingCard
    <3> QED  BY <1>1, <3>1, <3>2 DEF HeldOK
  <2> QED  BY <2>1, <2>2
<1>4. \A q \in Queue : /\ queue[q].uxMessagesWaiting \in 0..uxLength[q]
                       /\ {queue[q].cTxLock, queue[q].cRxLock} \subseteq queueUNLOCKED..MaxLock
                       /\ queue[q].pxMutexHolder \subseteq Task
  BY <1>1 DEF QueuesOK, LockBounds, QueueRecord
<1>5. /\ k.xTickCount \in 0..TickMod - 1 /\ k.xNumOfOverflows \in Nat /\ k.uxPendedTicks \in Nat
      /\ k.xYieldPending \in BOOLEAN /\ k.pxCurrentTCB \in Task
      /\ k.xNextTaskUnblockTime \in 0..portMAX_DELAY /\ k.pending \subseteq Task
      /\ k.wake \in [Task -> 0..TickMod - 1] /\ k.uxPriority \in [Task -> Nat]
      /\ k.waiting \in [Lists -> Seq(Task)]
  BY <1>1, Fields
<1> QED  BY <1>1, <1>2, <1>3, <1>4, <1>5 DEF TypeOK, TicksOK

\* The scheduler and the queues keep their types: above all no queue holds more than its length or
\* less than nothing, and no task gives back more mutexes than it has taken, however it is raised
\* and lowered by vTaskPriorityInherit and xTaskPriorityDisinherit meanwhile.
THEOREM KernelTypes == Spec => []TypeOK
<1>1. Init => MutexInv
  BY InitMutex
<1>2. MutexInv /\ [Next]_vars => MutexInv'
  BY MutexStep
<1>3. MutexInv => TypeOK
  BY MutexTypes
<1> QED  BY <1>1, <1>2, <1>3, PTL DEF Spec

-----------------------------------------------------------------------------
(* Time limits. *)

\* The count of the scheduler when a limit was set.
At(limit) == limit.xOverflowCount * TickMod + limit.xTimeOnEntering

\* The scheduler counts every tick, at once or when it is resumed.
ClockOK == Clock(k) + k.uxPendedTicks = FirstTick + time

\* What is left of the time of a call, measured from its limit, ends no sooner than the call may.
TimeOf(t) ==
  /\ (pc[t] = "out" \/ call[t].op = "delay") => xTimeOut[t] = <<>>
  /\ (pc[t] # "out" /\ xTimeOut[t] = <<>>) => xTicksToWait[t] = call[t].ticks
  /\ xTimeOut[t] # <<>> =>
       /\ At(xTimeOut[t][1]) <= Clock(k)
       /\ FirstTick + entered[t] + call[t].ticks <= At(xTimeOut[t][1]) + xTicksToWait[t]

\* A task that has found its time to be up is right.
TimeUp ==
  LET t == k.pxCurrentTCB
  IN after = "fail" => FirstTick + entered[t] + call[t].ticks <= Clock(k)

TimeInv == StructureInv /\ ClockOK /\ TimeUp /\ \A t \in Task : TimeOf(t)

\* Multiples of the modulus.
LEMMA Multiples ==
  ASSUME NEW x \in Int, NEW y \in Int, NEW M \in Nat
  PROVE  /\ x * M \in Int /\ y * M \in Int
         /\ x < y => x * M + M <= y * M
         /\ x = y => x * M = y * M
<1>1. x * M \in Int /\ y * M \in Int
  OBVIOUS
<1>2. ASSUME x < y PROVE x * M + M <= y * M
  <2>1. PICK d \in Nat : y = x + 1 + d
    <3>1. y - x - 1 \in Nat /\ y = x + 1 + (y - x - 1)
      BY <1>2
    <3> QED  BY <3>1
  <2>2. (x + 1 + d) * M = x * M + M + d * M
    OBVIOUS
  <2>3. d * M \in Nat
    OBVIOUS
  <2> DEFINE p == x * M
             r == d * M
  <2>4. y * M = p + M + r
    BY <2>1, <2>2
  <2>5. p \in Int /\ r \in Nat
    BY <2>3
  <2> HIDE DEF p, r
  <2>6. p + M <= p + M + r
    BY <2>5
  <2> QED  BY <2>4, <2>6 DEF p
<1> QED  BY <1>1, <1>2

LEMMA ClockType ==
  ASSUME NEW a \in Kernel
  PROVE  Clock(a) \in Int
<1>1. a.xTickCount \in Int /\ a.xNumOfOverflows \in Int /\ TickMod \in Nat
  BY Fields, TickAssumption
<1>2. a.xNumOfOverflows * TickMod \in Int
  BY <1>1, Multiples
<1> DEFINE p == a.xNumOfOverflows * TickMod
<1> HIDE DEF p
<1>3. p + a.xTickCount \in Int
  BY <1>1, <1>2 DEF p
<1> QED  BY <1>3 DEF Clock, p

LEMMA AtType ==
  ASSUME NEW limit \in Limit
  PROVE  At(limit) \in Int
<1>1. limit.xTimeOnEntering \in Int /\ limit.xOverflowCount \in Int /\ TickMod \in Nat
  BY TickAssumption DEF Limit
<1>2. limit.xOverflowCount * TickMod \in Int
  BY <1>1, Multiples
<1> DEFINE p == limit.xOverflowCount * TickMod
<1> HIDE DEF p
<1>3. p + limit.xTimeOnEntering \in Int
  BY <1>1, <1>2 DEF p
<1> QED  BY <1>3 DEF At, p

\* The count is subtracted over a wrap.
LEMMA SinceCount ==
  ASSUME NEW a \in Kernel, NEW limit \in Limit, NEW c, c = a.xTickCount, NEW e, e = limit.xTimeOnEntering
  PROVE  Since(a, limit) = IF c >= e THEN c - e ELSE c - e + TickMod
<1>1. PICK M \in Nat : M = TickMod /\ M > 1
  BY TickAssumption
<1>2. c \in Int /\ e \in Int /\ 0 <= c /\ c < M /\ 0 <= e /\ e < M
  BY <1>1, Fields DEF Limit
<1>3. PICK s \in Int : s = Since(a, limit)
  BY SinceType
<1>4. s = (c - e) % M
  BY <1>1, <1>3 DEF Since
<1>5. CASE c >= e
  <2>1. PICK d \in Nat : d = c - e
    BY <1>2, <1>5
  <2>2. d < M
    BY <1>2, <2>1
  <2>3. d % M = d
    BY <1>1, <2>2
  <2> QED  BY <1>3, <1>4, <1>5, <2>1, <2>3
<1>6. CASE ~(c >= e)
  <2>1. PICK d \in Int : d = c - e
    BY <1>2
  <2>2. d < 0 /\ d + M > 0
    BY <1>2, <1>6, <2>1
  <2>3. d % M = d + M
    BY <1>1, <2>2
  <2> QED  BY <1>1, <1>3, <1>4, <1>6, <2>1, <2>3
<1> QED  BY <1>5, <1>6

\* xTaskCheckForTimeOut measures no more than has passed, over a wrap of the tick count, and finds
\* no time to be up that is not.
LEMMA SinceClock ==
  ASSUME NEW a \in Kernel, NEW limit \in Limit, At(limit) <= Clock(a)
  PROVE  /\ At(limit) + Since(a, limit) <= Clock(a)
         /\ \A ticks \in 0..portMAX_DELAY : TimedOut(a, limit, ticks) => At(limit) + ticks <= Clock(a)
<1>1. PICK c \in 0..TickMod - 1, o \in Nat : c = a.xTickCount /\ o = a.xNumOfOverflows
  BY Fields
<1>2. PICK e \in 0..TickMod - 1, l \in Nat : e = limit.xTimeOnEntering /\ l = limit.xOverflowCount
  BY DEF Limit
<1>3. PICK M \in Nat : M = TickMod /\ M > 1
  BY TickAssumption
<1>4. c \in Int /\ e \in Int /\ 0 <= c /\ c < M /\ 0 <= e /\ e < M
  BY <1>1, <1>2, <1>3
<1>5. PICK s \in Int : s = Since(a, limit)
  BY SinceType
<1>6. s = IF c >= e THEN c - e ELSE c - e + M
  <2> HIDE DEF Since
  <2> QED  BY <1>1, <1>2, <1>3, <1>5, SinceCount
<1>7. PICK p \in Int, r \in Int : p = o * M /\ r = l * M
  BY <1>3, Multiples
<1>8. /\ l < o => r + M <= p
      /\ o < l => p + M <= r
      /\ l = o => r = p
  BY <1>3, <1>7, Multiples
<1>9. r + e <= p + c /\ At(limit) = r + e /\ Clock(a) = p + c
  BY <1>1, <1>2, <1>3, <1>7 DEF At, Clock
<1>10. ~(o < l)
  BY <1>4, <1>7, <1>8, <1>9
<1>11. r + e + s <= p + c
  <2>1. CASE l = o
    <3>1. r = p
      BY <1>8, <2>1
    <3> QED  BY <1>4, <1>6, <1>7, <1>9, <3>1
  <2>2. CASE l < o
    <3>1. r + M <= p
      BY <1>8, <2>2
    <3> QED  BY <1>4, <1>6, <1>7, <3>1
  <2> QED  BY <1>10, <2>1, <2>2
<1>12. ASSUME NEW ticks \in 0..portMAX_DELAY, TimedOut(a, limit, ticks) PROVE r + e + ticks <= p + c
  <2>1. ticks \in Int /\ ticks < M
    BY <1>3 DEF portMAX_DELAY
  <2>2. CASE o # l /\ c >= e
    <3>1. r + M <= p
      BY <1>8, <1>10, <2>2
    <3> QED  BY <1>4, <1>7, <2>1, <2>2, <3>1
  <2>3. CASE s >= ticks
    BY <1>4, <1>5, <1>7, <1>11, <2>1, <2>3
  <2>4. (o # l /\ c >= e) \/ s >= ticks
    <3> HIDE DEF Since
    <3> QED  BY <1>1, <1>2, <1>5, <1>12 DEF TimedOut
  <2> QED  BY <2>2, <2>3, <2>4
<1> HIDE DEF Since
<1> QED  BY <1>5, <1>9, <1>11, <1>12

\* It measures all that has passed if that is less than a full turn of the count.
LEMMA SinceExact ==
  ASSUME NEW a \in Kernel, NEW limit \in Limit, At(limit) <= Clock(a), Clock(a) - At(limit) < TickMod
  PROVE  Clock(a) <= At(limit) + Since(a, limit)
<1>1. PICK c \in 0..TickMod - 1, o \in Nat : c = a.xTickCount /\ o = a.xNumOfOverflows
  BY Fields
<1>2. PICK e \in 0..TickMod - 1, l \in Nat : e = limit.xTimeOnEntering /\ l = limit.xOverflowCount
  BY DEF Limit
<1>3. PICK M \in Nat : M = TickMod /\ M > 1
  BY TickAssumption
<1>4. c \in Int /\ e \in Int /\ 0 <= c /\ c < M /\ 0 <= e /\ e < M
  BY <1>1, <1>2, <1>3
<1>5. PICK s \in Int : s = Since(a, limit)
  BY SinceType
<1>6. s = IF c >= e THEN c - e ELSE c - e + M
  <2> HIDE DEF Since
  <2> QED  BY <1>1, <1>2, <1>3, <1>5, SinceCount
<1>7. PICK p \in Int, r \in Int, n \in Int : p = o * M /\ r = l * M /\ n = (l + 1) * M
  BY <1>2, <1>3, Multiples
<1>8. n = r + M
  BY <1>2, <1>3, <1>7
<1>9. /\ l + 1 < o => n + M <= p
      /\ o < l => p + M <= r
      /\ l = o => r = p
      /\ l + 1 = o => n = p
  <2>1. l + 1 \in Int
    BY <1>2
  <2> QED  BY <1>3, <1>7, <2>1, Multiples
<1>10. r + e <= p + c /\ p + c - (r + e) < M /\ At(limit) = r + e /\ Clock(a) = p + c
  BY <1>1, <1>2, <1>3, <1>7 DEF At, Clock
<1>11. l = o \/ l + 1 = o
  <2>1. ~(o < l)
    BY <1>3, <1>4, <1>7, <1>9, <1>10
  <2>2. ~(l + 1 < o)
    BY <1>3, <1>4, <1>7, <1>8, <1>9, <1>10
  <2> QED  BY <1>1, <1>2, <2>1, <2>2
<1>12. p + c <= r + e + s
  <2>1. CASE l = o
    <3>1. r = p
      BY <1>9, <2>1
    <3> QED  BY <1>3, <1>4, <1>6, <1>7, <1>10, <3>1
  <2>2. CASE l + 1 = o
    <3>1. p = r + M
      BY <1>8, <1>9, <2>2
    <3>2. ~(c >= e)
      BY <1>3, <1>4, <1>7, <1>10, <3>1
    <3> QED  BY <1>3, <1>4, <1>6, <1>7, <3>1, <3>2
  <2> QED  BY <1>11, <2>1, <2>2
<1> HIDE DEF Since
<1> QED  BY <1>5, <1>10, <1>12

\* Every step but a tick and xTaskResumeAll leaves the count alone, and the tasks that sleep, too,
\* unless it puts one to sleep.
LEMMA TimeSame ==
  ASSUME StructureInv, NEW t \in Task, TaskStep(t), ~Resume(t)
  PROVE  SameTime(k, k') /\ (Place(t) \/ Sleep(t) \/ Quiet(k, k'))
<1>1. /\ t = k.pxCurrentTCB /\ k \in Kernel /\ Sound(k) /\ Places /\ CallsOK
  BY StepRuns DEF StructureInv, RefinementInv
<1>2. CASE TestFails(t) \/ LockQueue(t) \/ CheckForTimeOut(t) \/ Look(t) \/ Return(t) \/ LastLook(t)
  BY <1>2 DEF TestFails, LockQueue, CheckForTimeOut, Look, Return, LastLook, SameTime, SameAlarm, Quiet
<1>3. CASE SendItem(t) \/ Give(t) \/ ReceiveItem(t) \/ Peek(t)
  BY <1>1, <1>3, GoEffect DEF Quiet
<1>4. CASE Suspend(t)
  <2>1. pc[t] \in Elsewhere
    BY <1>4 DEF Suspend, Runs, Elsewhere
  <2>2. k.uxSchedulerSuspended = 0
    BY <1>1, <2>1, PlaceDecides DEF Open
  <2> QED  BY <1>1, <1>4, <2>2, SuspendEffect DEF Quiet
<1>5. CASE Place(t) \/ Sleep(t)
  <2>1. PICK lists : lists = IF Place(t) THEN {<<call[t].queue, Way(t)>>} ELSE {}
    OBVIOUS
  <2>2. Blocks(k, k', t, lists)
    BY <1>5, <2>1, BlockStep
  <2> QED  BY <1>5, <2>2 DEF Blocks
<1>6. CASE Yield(t)
  <2>1. Settle(k, TRUE)
    BY <1>6 DEF Yield
  <2>2. Settled(k, k')
    BY <1>1, <2>1, SettleFields
  <2> QED  BY <2>2 DEF Settled, SameLists, Quiet
<1>7. CASE UnlockTx(t) \/ UnlockRx(t)
  <2>1. PICK way \in Directions : way = IF UnlockTx(t) THEN "receive" ELSE "send"
    BY DEF Directions
  <2>2. PICK l : l = <<call[t].queue, way>>
    OBVIOUS
  <2>3. PICK n : n = IF UnlockTx(t) THEN queue[call[t].queue].cTxLock ELSE queue[call[t].queue].cRxLock
    OBVIOUS
  <2>4. k' = WakeSome(l, n)
    BY <1>7, <2>1, <2>2, <2>3 DEF UnlockTx, UnlockRx
  <2>5. pc[t] \in Suspending /\ pc[t] # "out"
    BY <1>7 DEF UnlockTx, UnlockRx, Runs, Suspending, Unlocking
  <2>6. call[t].queue \in Queue
    BY <2>5, CallType DEF StructureInv, RefinementInv
  <2>7. l \in Lists
    BY <2>2, <2>6 DEF Lists
  <2>8. PICK m \in Nat : m = Locked(n)
    <3>1. n \in Int /\ n >= -1
      BY <2>3, <2>6, CountTypes DEF StructureInv, RefinementInv, Directions
    <3> QED  BY <3>1 DEF Locked, queueUNLOCKED
  <2>9. Closed(t)
    BY <1>1, <2>5, PlaceDecides
  <2>10. WakesTo(k, k', l, m)
    BY <1>1, <2>4, <2>7, <2>8, <2>9, UnlockEffect DEF Closed
  <2> QED  BY <2>10 DEF WakesTo, Quiet
<1> QED  BY <1>2, <1>3, <1>4, <1>5, <1>6, <1>7 DEF TaskStep

\* From one step to the next the count keeps up with the ticks.
LEMMA ClockStep ==
  ASSUME StructureInv, StructureInv', ClockOK, Next
  PROVE  ClockOK' /\ Clock(k) <= Clock(k')
<1>1. PICK c \in Int, d \in Int : c = Clock(k) /\ d = Clock(k')
  <2>1. PICK kk \in Kernel : kk = k'
    BY DEF StructureInv
  <2> QED  BY <2>1, ClockType DEF StructureInv
<1>2. PICK m \in Nat, n \in Nat : m = k.uxPendedTicks /\ n = k'.uxPendedTicks
  <2>1. PICK kk \in Kernel : kk = k'
    BY DEF StructureInv
  <2> QED  BY <2>1, Fields DEF StructureInv
<1>3. c + m = FirstTick + time /\ time \in Nat /\ FirstTick \in Int
  BY <1>1, <1>2, TickAssumption DEF ClockOK, StructureInv, TicksOK
<1>4. SUFFICES d + n = FirstTick + time' /\ c <= d
  BY <1>1, <1>2 DEF ClockOK
<1>5. ASSUME SameTime(k, k'), time' = time PROVE d + n = FirstTick + time' /\ c <= d
  <2>1. d = c /\ n = m
    BY <1>1, <1>2, <1>5 DEF SameTime, Clock
  <2> QED  BY <1>3, <1>5, <2>1
<1>6. k \in Kernel /\ Sound(k) /\ (k.uxSchedulerSuspended = 0 => k.pending = {})
  BY DEF StructureInv, Places, Open, Closed
<1>7. CASE Tick
  <2>1. /\ Wakes(k, k')
        /\ IF k.uxSchedulerSuspended = 0 THEN d = c + 1 ELSE d = c /\ n = m + 1
    BY <1>1, <1>2, <1>6, <1>7, TickEffect
  <2>2. k.uxSchedulerSuspended = 0 => n = m
    BY <1>2, <2>1 DEF Wakes
  <2>3. time' = time + 1
    BY <1>7 DEF Tick
  <2> QED  BY <1>3, <2>1, <2>2, <2>3
<1>8. ASSUME NEW q \in Queue \ Mutex, SendFromISR(q) \/ ReceiveFromISR(q), time' = time
      PROVE  d + n = FirstTick + time' /\ c <= d
  <2>1. PICK way \in Directions : way = IF SendFromISR(q) THEN "receive" ELSE "send"
    BY DEF Directions
  <2>2. PICK locked \in BOOLEAN :
          locked <=> IF SendFromISR(q) THEN queue[q].cTxLock # queueUNLOCKED ELSE queue[q].cRxLock # queueUNLOCKED
    OBVIOUS
  <2>3. IF locked THEN k' = k ELSE EndInterrupt(Wake(k, <<q, way>>, FALSE))
    BY <1>8, <2>1, <2>2 DEF SendFromISR, ReceiveFromISR
  <2>4. SameTime(k, k')
    BY <1>6, <2>3, ISREffect DEF Quiet
  <2> QED  BY <1>5, <1>8, <2>4
<1>9. ASSUME NEW t \in Task, TaskStep(t), time' = time PROVE d + n = FirstTick + time' /\ c <= d
  <2>1. CASE Resume(t)
    <3>1. d = c + m /\ n = 0
      BY <1>1, <1>2, <1>9, <2>1, ResumeStep DEF ResumedAll
    <3> QED  BY <1>3, <1>9, <3>1
  <2>2. CASE ~Resume(t)
    BY <1>5, <1>9, <2>2, TimeSame
  <2> QED  BY <2>1, <2>2
<1>10. ASSUME NEW c0 \in program.calls, Call(c0), time' = time PROVE d + n = FirstTick + time' /\ c <= d
  <2>1. k' = k
    BY <1>10, BeginStep
  <2> QED  BY <1>5, <1>10, <2>1 DEF SameTime
<1> QED  BY <1>7, <1>8, <1>9, <1>10 DEF Next, Interrupt

\* Time goes on for a call that the step leaves alone.
LEMMA TimeKept ==
  ASSUME StructureInv, StructureInv', NEW t \in Task, TimeOf(t), Clock(k) <= Clock(k'),
         call'[t] = call[t], xTicksToWait'[t] = xTicksToWait[t], xTimeOut'[t] = xTimeOut[t],
         entered'[t] = entered[t], pc'[t] = "out" <=> pc[t] = "out"
  PROVE  TimeOf(t)'
<1>1. PICK c \in Int, d \in Int : c = Clock(k) /\ d = Clock(k')
  <2>1. PICK kk \in Kernel : kk = k'
    BY DEF StructureInv
  <2> QED  BY <2>1, ClockType DEF StructureInv
<1>2. CASE xTimeOut[t] = <<>>
  BY <1>2 DEF TimeOf
<1>3. CASE xTimeOut[t] # <<>>
  <2>1. PICK limit \in Limit : xTimeOut[t] = <<limit>>
    BY <1>3 DEF StructureInv, TicksOK
  <2>2. PICK a \in Int : a = At(limit)
    BY AtType
  <2>3. a <= d
    BY <1>1, <1>3, <2>1, <2>2 DEF TimeOf
  <2> HIDE DEF At
  <2>4. FirstTick + entered[t] + call[t].ticks <= a + xTicksToWait[t]
    BY <1>3, <2>1, <2>2 DEF TimeOf
  <2>5. xTimeOut'[t][1] = limit /\ call[t].op # "delay" /\ pc[t] # "out"
    BY <1>3, <2>1 DEF TimeOf
  <2>6. At(xTimeOut'[t][1]) = a
    BY <2>2, <2>5
  <2> QED  BY <1>1, <1>3, <2>3, <2>4, <2>5, <2>6 DEF TimeOf
<1> QED  BY <1>2, <1>3

\* A limit that is set now, at the beginning or with what is left of the time.
LEMMA TimeSet ==
  ASSUME StructureInv, StructureInv', NEW t \in Task, k' = k, call' = call,
         pc[t] # "out", pc'[t] # "out", call[t].op # "delay",
         xTimeOut'[t] = <<TimeOutState(k)>>,
         FirstTick + entered'[t] + call[t].ticks <= Clock(k) + xTicksToWait'[t]
  PROVE  TimeOf(t)'
<1>1. PICK limit : limit = TimeOutState(k)
  OBVIOUS
<1>2. At(limit) = Clock(k)
  BY <1>1 DEF At, Clock, TimeOutState
<1>3. Clock(k) \in Int
  BY ClockType DEF StructureInv
<1>4. xTimeOut'[t][1] = limit /\ xTimeOut'[t] # <<>>
  BY <1>1
<1> HIDE DEF At, Clock
<1> QED  BY <1>2, <1>3, <1>4 DEF TimeOf

\* A step of task t.
LEMMA TimeOwn ==
  ASSUME TimeInv, StructureInv', Next, NEW t \in Task, TaskStep(t)
  PROVE  TimeOf(t)'
<1>1. /\ StructureInv /\ CallsOK /\ TicksOK /\ CallPlaces /\ Places /\ k \in Kernel /\ ClockOK /\ TimeOf(t)
      /\ pc[t] # "out" /\ t = k.pxCurrentTCB
  BY StepRuns DEF TimeInv, StructureInv, RefinementInv
<1>2. Clock(k) <= Clock(k')
  BY <1>1, ClockStep
<1>3. ASSUME Returns(t) PROVE TimeOf(t)'
  <2>1. ReturnedOK(t)
    BY <1>1, <1>3, ReturnsOthers
  <2> QED  BY <2>1 DEF ReturnedOK, TimeOf
<1>4. ASSUME UNCHANGED tasks, NEW l, Goto(t, l), l # "out" PROVE TimeOf(t)'
  <2>1. pc'[t] = l
    BY <1>1, <1>4 DEF Goto, CallsOK
  <2> QED  BY <1>1, <1>2, <1>4, <2>1, TimeKept DEF tasks
<1>5. CASE SendItem(t) \/ Give(t) \/ ReceiveItem(t) \/ Peek(t) \/ Return(t)
  BY <1>3, <1>5 DEF SendItem, Give, ReceiveItem, Peek, Return
<1>6. CASE Suspend(t) \/ LockQueue(t) \/ UnlockTx(t) \/ UnlockRx(t) \/ Place(t) \/ Look(t)
  <2>1. /\ UNCHANGED tasks
        /\ \E l \in {"sleep", "lock", "check", "unlock_rx", "resume", "unlock_tx", "place"} : Goto(t, l)
    BY <1>6 DEF Suspend, LockQueue, UnlockTx, UnlockRx, Place, Look
  <2> QED  BY <1>4, <2>1
<1>7. CASE Yield(t) \/ Resume(t) \/ LastLook(t)
  <2>1. \/ Returns(t)
        \/ UNCHANGED tasks /\ \E l \in {"return", "test", "last", "yield"} : Goto(t, l)
    BY <1>7 DEF Yield, Resume, LastLook, Awake
  <2> QED  BY <1>3, <1>4, <2>1
<1>8. CASE Sleep(t)
  <2>1. pc[t] = "sleep"
    BY <1>8 DEF Sleep, Runs
  <2>2. call[t].op = "delay"
    BY <1>1, <2>1 DEF CallPlaces
  <2> QED  BY <1>1, <1>8, <2>2 DEF Sleep, TimeOf
<1>9. CASE TestFails(t)
  <2>1. \/ Returns(t)
        \/ Goto(t, "block") /\ UNCHANGED tasks
        \/ /\ xTimeOut[t] = <<>> /\ Goto(t, "block")
           /\ xTimeOut' = [xTimeOut EXCEPT ![t] = <<TimeOutState(k)>>] /\ k' = k
           /\ entered' = [entered EXCEPT ![t] = time] /\ UNCHANGED <<call, xTicksToWait>>
    BY <1>9 DEF TestFails
  <2>2. ASSUME xTimeOut[t] = <<>>, Goto(t, "block"), k' = k, xTimeOut' = [xTimeOut EXCEPT ![t] = <<TimeOutState(k)>>],
               entered' = [entered EXCEPT ![t] = time], UNCHANGED <<call, xTicksToWait>>
        PROVE  TimeOf(t)'
    <3>1. pc[t] = "test"
      BY <1>9 DEF TestFails, Runs
    <3>2. call[t].op # "delay" /\ k.uxPendedTicks = 0
      BY <1>1, <3>1, PlaceDecides DEF CallPlaces, Open, Elsewhere
    <3>3. pc'[t] # "out" /\ xTimeOut'[t] = <<TimeOutState(k)>> /\ entered'[t] = time
      BY <1>1, <2>2 DEF Goto, CallsOK, TicksOK
    <3>4. FirstTick + time = Clock(k)
      <4>1. Clock(k) \in Int
        BY <1>1, ClockType
      <4> QED  BY <1>1, <3>2, <4>1 DEF ClockOK
    <3>5. xTicksToWait'[t] = call[t].ticks /\ call[t].ticks \in Int
      BY <1>1, <2>2, <3>1, CallTimes DEF TimeOf
    <3>6. FirstTick + entered'[t] + call[t].ticks <= Clock(k) + xTicksToWait'[t]
      <4>1. PICK c \in Int : c = Clock(k)
        BY <1>1, ClockType
      <4> QED  BY <3>3, <3>4, <3>5, <4>1
    <3> QED  BY <1>1, <2>2, <3>2, <3>3, <3>6, TimeSet
  <2> QED  BY <1>3, <1>4, <2>1, <2>2
<1>10. CASE CheckForTimeOut(t)
  <2>1. CASE UNCHANGED tasks
    <3>1. Goto(t, "look") \/ Goto(t, "unlock_tx")
      BY <1>10 DEF CheckForTimeOut
    <3> QED  BY <1>4, <2>1, <3>1
  <2>2. CASE ~UNCHANGED tasks
    <3>1. /\ xTicksToWait[t] # portMAX_DELAY /\ Goto(t, "look") /\ k' = k /\ call' = call
          /\ xTicksToWait' = [xTicksToWait EXCEPT ![t] = xTicksToWait[t] - Since(k, xTimeOut[t][1])]
          /\ xTimeOut' = [xTimeOut EXCEPT ![t] = <<TimeOutState(k)>>] /\ entered' = entered
      BY <1>10, <2>2 DEF CheckForTimeOut
    <3>2. pc[t] = "check" /\ call[t].op # "delay"
      <4>1. pc[t] = "check"
        BY <1>10 DEF CheckForTimeOut, Runs
      <4> QED  BY <1>1, <4>1 DEF CallPlaces
    <3>3. PICK limit \in Limit : xTimeOut[t] = <<limit>>
      BY <1>1, <3>1, <3>2 DEF TicksOK
    <3>4. PICK s \in Int : s = Since(k, limit)
      BY <1>1, SinceType
    <3>5. PICK c \in Int : c = Clock(k)
      BY <1>1, ClockType
    <3>6. PICK a \in Int : a = At(limit)
      BY AtType
    <3>7. /\ a <= c
          /\ FirstTick + entered[t] + call[t].ticks <= a + xTicksToWait[t]
      BY <1>1, <3>3, <3>5, <3>6 DEF TimeOf
    <3>8. a + s <= c
      BY <1>1, <3>4, <3>5, <3>6, <3>7, SinceClock
    <3>9. xTicksToWait[t] \in Int /\ entered[t] \in Int /\ call[t].ticks \in Int /\ FirstTick \in Int
      <4>1. portMAX_DELAY \in Nat
        BY TickAssumption DEF portMAX_DELAY
      <4> QED  BY <1>1, <4>1, CallTimes, TickAssumption DEF TicksOK
    <3>10. xTicksToWait'[t] = xTicksToWait[t] - s /\ entered'[t] = entered[t]
           /\ xTimeOut'[t] = <<TimeOutState(k)>> /\ pc'[t] # "out"
      <4> HIDE DEF Since, TimeOutState
      <4> QED  BY <1>1, <3>1, <3>3, <3>4 DEF TicksOK, CallsOK, Goto
    <3>11. FirstTick + entered'[t] + call[t].ticks <= c + xTicksToWait'[t]
      <4>1. FirstTick + entered[t] + call[t].ticks <= c + (xTicksToWait[t] - s)
        BY <3>7, <3>8, <3>9
      <4> QED  BY <3>10, <4>1
    <3> QED  BY <1>1, <3>1, <3>2, <3>5, <3>10, <3>11, TimeSet
  <2> QED  BY <2>1, <2>2
<1> QED  BY <1>5, <1>6, <1>7, <1>8, <1>9, <1>10 DEF TaskStep

\* The task that has found its time to be up runs until it resumes the scheduler.
LEMMA TimeUpStep ==
  ASSUME TimeInv, StructureInv', Next
  PROVE  TimeUp'
<1>1. /\ StructureInv /\ CallsOK /\ TicksOK /\ CallPlaces /\ Places /\ k \in Kernel /\ ClockOK /\ TimeUp
  BY DEF TimeInv, StructureInv, RefinementInv
<1>2. PICK c \in Int, d \in Int : c = Clock(k) /\ d = Clock(k') /\ c <= d
  <2>1. PICK kk \in Kernel : kk = k'
    BY DEF StructureInv
  <2>2. Clock(k) \in Int /\ Clock(kk) \in Int
    BY <1>1, ClockType
  <2> QED  BY <1>1, <2>1, <2>2, ClockStep
<1>3. ASSUME NEW t \in Task, after = "fail", k.pxCurrentTCB = t, k'.pxCurrentTCB = t, call'[t] = call[t],
             entered'[t] = entered[t]
      PROVE  TimeUp'
  <2>1. FirstTick + entered[t] + call[t].ticks <= c
    BY <1>1, <1>2, <1>3 DEF TimeUp
  <2>2. Closed(t)
    BY <1>1, <1>3 DEF Places, Open, Closed
  <2>3. pc[t] # "out"
    BY <2>2 DEF Closed, Suspending, Unlocking
  <2>4. FirstTick \in Int /\ entered[t] \in Int /\ call[t].ticks \in Int
    BY <1>1, <2>3, CallTimes, TickAssumption DEF TicksOK, portMAX_DELAY
  <2>5. FirstTick + entered[t] + call[t].ticks <= d
    BY <1>2, <2>1, <2>4
  <2> QED  BY <1>2, <1>3, <2>5 DEF TimeUp
<1>4. ASSUME after' # "fail" PROVE TimeUp'
  BY <1>4 DEF TimeUp
<1>5. CASE Open'
  BY <1>4, <1>5 DEF Open
<1>6. CASE Interrupt
  <2>1. Wakes(k, k') /\ UNCHANGED <<pc, tasks, after>>
    BY <1>1, <1>6, InterruptStep
  <2>2. ASSUME after = "fail" PROVE TimeUp'
    <3>1. PICK t \in Task : Closed(t)
      BY <1>1, <2>2 DEF Places, Open
    <3>2. k.pxCurrentTCB = t /\ k'.pxCurrentTCB = t
      BY <2>1, <3>1 DEF Closed, Wakes
    <3> QED  BY <1>3, <2>1, <2>2, <3>2 DEF tasks
  <2> QED  BY <1>4, <2>1, <2>2
<1>7. ASSUME NEW c0 \in program.calls, Call(c0) PROVE TimeUp'
  BY <1>1, <1>5, <1>7, BeginStep
<1>8. ASSUME NEW t \in Task, TaskStep(t) PROVE TimeUp'
  <2>0. t = k.pxCurrentTCB
    BY <1>8, StepRuns
  <2>1. CASE SendItem(t) \/ Give(t) \/ ReceiveItem(t) \/ Peek(t) \/ TestFails(t) \/ Yield(t) \/ Return(t)
             \/ LastLook(t) \/ Resume(t)
    BY <1>1, <1>5, <1>8, <2>1, OpenSteps, ResumeStep
  <2>2. CASE Suspend(t)
    <3>1. pc[t] \in Elsewhere /\ after' = after
      BY <2>2 DEF Suspend, Runs, Elsewhere
    <3>2. after = "none"
      BY <1>1, <2>0, <3>1, PlaceDecides DEF Open
    <3> QED  BY <1>4, <3>1, <3>2
  <2>3. CASE LockQueue(t)
    <3>1. pc[t] = "lock" /\ after' = after
      BY <2>3 DEF LockQueue, Runs
    <3>2. after = "none"
      BY <1>1, <2>0, <3>1, PlaceDecides DEF Closed, Suspending, Unlocking
    <3> QED  BY <1>4, <3>1, <3>2
  <2>4. CASE Look(t)
    <3>1. pc[t] = "look" /\ (after' = after \/ after' = "retry")
      BY <2>4 DEF Look, Runs
    <3>2. after = "none"
      BY <1>1, <2>0, <3>1, PlaceDecides DEF Closed, Suspending, Unlocking
    <3> QED  BY <1>4, <3>1, <3>2
  <2>5. CASE Place(t) \/ Sleep(t)
    BY <1>4, <2>5 DEF Place, Sleep
  <2>6. CASE UnlockTx(t) \/ UnlockRx(t)
    <3>1. after' = after /\ UNCHANGED tasks
      BY <2>6 DEF UnlockTx, UnlockRx
    <3>2. k'.pxCurrentTCB = t
      BY <1>1, <1>8, <2>6, ClosedSteps DEF Closed
    <3> QED  BY <1>3, <1>4, <2>0, <3>1, <3>2 DEF tasks
  <2>7. CASE CheckForTimeOut(t)
    <3>1. pc[t] = "check" /\ k' = k
      BY <2>7 DEF CheckForTimeOut, Runs
    <3>2. after = "none"
      BY <1>1, <2>0, <3>1, PlaceDecides DEF Closed, Suspending, Unlocking
    <3>3. CASE after' = after
      BY <1>4, <3>2, <3>3
    <3>4. CASE after' # after
      <4>1. /\ xTicksToWait[t] # portMAX_DELAY /\ TimedOut(k, xTimeOut[t][1], xTicksToWait[t])
            /\ UNCHANGED tasks
        BY <2>7, <3>4 DEF CheckForTimeOut
      <4>2. call[t].op # "delay"
        BY <1>1, <3>1 DEF CallPlaces
      <4>3. PICK limit \in Limit : xTimeOut[t] = <<limit>>
        BY <1>1, <3>1, <4>1, <4>2 DEF TicksOK
      <4>4. PICK a \in Int : a = At(limit)
        BY AtType
      <4>5. TimeOf(t)
        BY DEF TimeInv
      <4>6. a <= c /\ FirstTick + entered[t] + call[t].ticks <= a + xTicksToWait[t]
        BY <1>2, <4>3, <4>4, <4>5 DEF TimeOf
      <4>7. a + xTicksToWait[t] <= c
        <5>1. PICK ticks \in 0..portMAX_DELAY : ticks = xTicksToWait[t]
          BY <1>1 DEF TicksOK
        <5>2. TimedOut(k, limit, ticks)
          BY <4>1, <4>3, <5>1
        <5> QED  BY <1>1, <1>2, <4>4, <4>6, <5>1, <5>2, SinceClock
      <4>8. FirstTick \in Int /\ entered[t] \in Int /\ call[t].ticks \in Int /\ xTicksToWait[t] \in Int
        <5>1. portMAX_DELAY \in Nat
          BY TickAssumption DEF portMAX_DELAY
        <5> QED  BY <1>1, <3>1, <5>1, CallTimes, TickAssumption DEF TicksOK
      <4>9. FirstTick + entered[t] + call[t].ticks <= c
        BY <4>4, <4>6, <4>7, <4>8
      <4> QED  BY <1>2, <2>0, <3>1, <4>1, <4>9 DEF TimeUp, tasks
    <3> QED  BY <3>3, <3>4
  <2> QED  BY <1>8, <2>1, <2>2, <2>3, <2>4, <2>5, <2>6, <2>7 DEF TaskStep
<1> QED  BY <1>6, <1>7, <1>8 DEF Next

\* The inductive invariant of the time limits.
LEMMA InitTime ==
  ASSUME Init
  PROVE  TimeInv
<1>1. StructureInv
  BY InitStructure
<1>2. ClockOK
  <2>1. k.xNumOfOverflows = 0 /\ k.xTickCount = FirstTick /\ k.uxPendedTicks = 0
    BY InitialKernel DEF Init
  <2>2. FirstTick \in Int /\ TickMod \in Int
    BY TickAssumption
  <2>3. 0 * TickMod = 0
    BY <2>2
  <2> QED  BY <2>1, <2>2, <2>3 DEF Init, ClockOK, Clock
<1>3. TimeUp /\ \A t \in Task : TimeOf(t)
  BY DEF Init, TimeUp, TimeOf
<1> QED  BY <1>1, <1>2, <1>3 DEF TimeInv

LEMMA TimeStep ==
  ASSUME TimeInv, [Next]_vars
  PROVE  TimeInv'
<1>1. StructureInv /\ StructureInv' /\ ClockOK /\ CallsOK /\ TicksOK /\ CallPlaces
  BY StructureStep DEF TimeInv, StructureInv, RefinementInv
<1>2. CASE UNCHANGED vars
  <2>1. ClockOK'
    BY <1>1, <1>2 DEF vars, ClockOK
  <2>2. TimeUp'
    BY <1>2 DEF vars, tasks, TimeInv, TimeUp
  <2>3. \A t \in Task : TimeOf(t)'
    BY <1>2 DEF vars, tasks, TimeInv, TimeOf
  <2> QED  BY <1>1, <2>1, <2>2, <2>3 DEF TimeInv
<1>3. CASE Next
  <2>1. ClockOK' /\ Clock(k) <= Clock(k')
    BY <1>1, <1>3, ClockStep
  <2>2. TimeUp'
    BY <1>1, <1>3, TimeUpStep
  <2>3. ASSUME NEW u \in Task PROVE TimeOf(u)'
    <3>0. TimeOf(u)
      BY DEF TimeInv
    <3>1. CASE Interrupt
      <4>1. UNCHANGED <<pc, tasks>>
        BY <1>1, <3>1, InterruptStep
      <4> QED  BY <1>1, <2>1, <3>0, <4>1, TimeKept DEF tasks
    <3>2. ASSUME NEW c \in program.calls, Call(c) PROVE TimeOf(u)'
      <4>1. PICK t : t = c.task
        OBVIOUS
      <4>2. /\ t \in Task
            /\ pc' = [pc EXCEPT ![t] = IF c.op = "delay" THEN "block" ELSE "test"]
            /\ call' = [call EXCEPT ![t] = c] /\ xTicksToWait' = [xTicksToWait EXCEPT ![t] = c.ticks]
            /\ UNCHANGED <<k, xTimeOut, entered>>
        BY <1>1, <3>2, <4>1, CallBegins
      <4>3. t \in Task /\ pc[t] = "out"
        BY <1>1, <3>2, <4>1, CallBegins
      <4>4. CASE u = t
        <5>1. xTimeOut[t] = <<>>
          BY <3>0, <4>3, <4>4 DEF TimeOf
        <5>2. pc'[t] # "out" /\ call'[t] = c /\ xTicksToWait'[t] = c.ticks /\ xTimeOut'[t] = <<>>
          BY <1>1, <4>2, <4>3, <5>1 DEF CallsOK, TicksOK
        <5> QED  BY <4>4, <5>2 DEF TimeOf
      <4>5. CASE u # t
        BY <1>1, <2>1, <3>0, <4>2, <4>3, <4>5, TimeKept DEF CallsOK, TicksOK
      <4> QED  BY <4>4, <4>5
    <3>3. ASSUME NEW t \in Task, TaskStep(t) PROVE TimeOf(u)'
      <4>1. CASE u = t
        BY <1>1, <1>3, <3>3, <4>1, TimeOwn
      <4>2. CASE u # t
        <5>1. Others(t)
          BY <1>1, <3>3, StepOthers
        <5> QED  BY <1>1, <2>1, <3>0, <4>2, <5>1, TimeKept DEF Others
      <4> QED  BY <4>1, <4>2
    <3> QED  BY <1>3, <3>1, <3>2, <3>3 DEF Next
  <2> QED  BY <1>1, <2>1, <2>2, <2>3 DEF TimeInv
<1> QED  BY <1>2, <1>3

LEMMA TimeSuffices ==
  ASSUME TimeInv
  PROVE  NotBefore
<1> SUFFICES ASSUME NEW t \in Task, k.pxCurrentTCB = t, after = "fail" PROVE Elapsed(t) >= call[t].ticks
  BY DEF NotBefore
<1>1. StructureInv /\ CallsOK /\ TicksOK /\ Places /\ k \in Kernel /\ ClockOK /\ TimeUp
  BY DEF TimeInv, StructureInv, RefinementInv
<1>2. Closed(t)
  BY <1>1 DEF Places, Open, Closed
<1>3. pc[t] # "out"
  BY <1>2 DEF Closed, Suspending, Unlocking
<1>4. FirstTick \in Int /\ entered[t] \in Int /\ call[t].ticks \in Int /\ time \in Int
  BY <1>1, <1>3, CallTimes, TickAssumption DEF TicksOK, portMAX_DELAY
<1>5. PICK c \in Int, m \in Nat : c = Clock(k) /\ m = k.uxPendedTicks
  BY <1>1, ClockType, Fields
<1>6. c + m = FirstTick + time /\ FirstTick + entered[t] + call[t].ticks <= c
  BY <1>1, <1>5 DEF ClockOK, TimeUp
<1> QED  BY <1>4, <1>5, <1>6 DEF Elapsed

\* No call on a queue gives up before as many ticks have come as it was given, however the tick
\* count has wrapped, and with ticks that came while the scheduler was suspended counted later.
THEOREM NoEarlyTimeout == Spec => []NotBefore
<1>1. Init => TimeInv
  BY InitTime
<1>2. TimeInv /\ [Next]_vars => TimeInv'
  BY TimeStep
<1>3. TimeInv => NotBefore
  BY TimeSuffices
<1> QED  BY <1>1, <1>2, <1>3, PTL DEF Spec

-----------------------------------------------------------------------------
(* Time limits that are kept. *)

\* The count at which the time that a call was given is over.
Deadline(t) == FirstTick + entered[t] + call[t].ticks

\* A task sleeps in a call only, and no longer than the call may last.
Timely(t) == t \in Asleep(k) => pc[t] # "out" /\ DueAt(k, t) <= Deadline(t)

\* What is left of the time of a call, measured from its limit, ends no later than the call may;
\* just before the task is put to sleep it is measured from now.
Measured(t) ==
  /\ xTimeOut[t] # <<>> => At(xTimeOut[t][1]) + xTicksToWait[t] <= Deadline(t)
  /\ pc[t] \in {"look", "place"} /\ xTicksToWait[t] # portMAX_DELAY =>
       xTimeOut[t] # <<>> /\ At(xTimeOut[t][1]) = Clock(k) /\ xTicksToWait[t] >= 1

DueInv == TimeInv /\ Alarmed(k) /\ \A t \in Task : Timely(t) /\ Measured(t)

\* A task comes to measure its time before the tick count has made a full turn.
Prompt ==
  \A t \in Task : pc[t] = "check" /\ xTimeOut[t] # <<>> => Clock(k) - At(xTimeOut[t][1]) < TickMod

\* Only vTaskPlaceOnEventList and vTaskDelay put a task to sleep.
LEMMA DueCalm ==
  ASSUME StructureInv, NEW t \in Task, TaskStep(t), ~Place(t), ~Sleep(t)
  PROVE  Rests(k, k')
<1>1. CASE Resume(t)
  BY <1>1, ResumeStep DEF ResumedAll
<1>2. CASE ~Resume(t)
  <2>1. Quiet(k, k') /\ Sound(k)
    BY <1>2, TimeSame DEF StructureInv
  <2> QED  BY <2>1, QuietRests
<1> QED  BY <1>1, <1>2

\* A call ends, and its time begins to run, while its task is ready.
LEMMA EndsReady ==
  ASSUME StructureInv, NEW t \in Task, TaskStep(t), pc'[t] = "out" \/ pc[t] = "test"
  PROVE  t \in k.ready
<1>1. t = k.pxCurrentTCB /\ pc \in [Task -> Labels] /\ Places
  BY StepRuns DEF StructureInv, RefinementInv, CallsOK
<1>2. ASSUME pc[t] \in {"test", "return", "last"} PROVE t \in k.ready
  <2>1. pc[t] \in Elsewhere /\ pc[t] # "yield"
    BY <1>2 DEF Elsewhere
  <2> QED  BY <1>1, <2>1, PlaceDecides DEF Open
<1>3. ASSUME NEW l, Goto(t, l) PROVE pc'[t] = l
  BY <1>1, <1>3 DEF Goto
<1>4. CASE SendItem(t) \/ Give(t) \/ ReceiveItem(t) \/ Peek(t) \/ TestFails(t) \/ Return(t) \/ LastLook(t)
  <2>1. pc[t] \in {"test", "return", "last"}
    BY <1>4 DEF SendItem, Give, ReceiveItem, Peek, TestFails, Return, LastLook, Runs
  <2> QED  BY <1>2, <2>1
<1>5. CASE Suspend(t) \/ LockQueue(t) \/ CheckForTimeOut(t) \/ Look(t) \/ Place(t) \/ Sleep(t)
           \/ UnlockTx(t) \/ UnlockRx(t) \/ Yield(t)
  <2>1. \E l \in {"sleep", "lock", "check", "look", "unlock_tx", "place", "resume", "unlock_rx",
                  "return", "test"} : Goto(t, l)
    BY <1>5 DEF Suspend, LockQueue, CheckForTimeOut, Look, Place, Sleep, UnlockTx, UnlockRx, Yield, Awake
  <2>2. pc'[t] # "out"
    BY <1>3, <2>1
  <2> QED  BY <1>2, <2>2
<1>6. CASE Resume(t)
  <2>1. pc[t] = "resume"
    BY <1>6 DEF Resume, Runs
  <2>2. after = "fail" \/ \E l \in {"last", "yield", "return", "test"} : Goto(t, l)
    BY <1>6 DEF Resume, Awake
  <2>3. after = "fail"
    BY <1>3, <2>1, <2>2
  <2>4. Closed(t)
    BY <1>1, <2>1, PlaceDecides DEF Suspending, Unlocking
  <2> QED  BY <2>3, <2>4 DEF Closed
<1> QED  BY <1>4, <1>5, <1>6 DEF TaskStep

\* A task that is ready does not sleep, unless this step puts it to sleep.
LEMMA ReadyAwake ==
  ASSUME StructureInv, Alarmed(k), NEW t \in Task, t \in k.ready, Rests(k, k')
  PROVE  t \notin Asleep(k')
BY DEF StructureInv, Sound, Rests, Undisturbed, Asleep

\* The time for which a task is put to sleep: some, and no more than its call has left.
LEMMA SleepTicks ==
  ASSUME DueInv, NEW t \in Task, TaskStep(t), Place(t) \/ Sleep(t)
  PROVE  /\ xTicksToWait[t] \in 1..portMAX_DELAY
         /\ xTicksToWait[t] # portMAX_DELAY => Clock(k) + xTicksToWait[t] <= Deadline(t)'
<1>1. /\ CallsOK /\ TicksOK /\ CallPlaces /\ k \in Kernel /\ ClockOK /\ TimeOf(t) /\ Measured(t)
  BY DEF DueInv, TimeInv, StructureInv, RefinementInv
<1>2. portMAX_DELAY \in Nat /\ portMAX_DELAY >= 1
  BY TickAssumption DEF portMAX_DELAY
<1>3. xTicksToWait[t] \in 0..portMAX_DELAY
  BY <1>1 DEF TicksOK
<1>4. CASE Place(t)
  <2>1. pc[t] = "place" /\ UNCHANGED tasks
    BY <1>4 DEF Place, Runs
  <2>2. Deadline(t)' = Deadline(t)
    BY <2>1 DEF Deadline, tasks
  <2>3. ASSUME xTicksToWait[t] # portMAX_DELAY
        PROVE  xTicksToWait[t] >= 1 /\ Clock(k) + xTicksToWait[t] <= Deadline(t)
    BY <1>1, <2>1, <2>3 DEF Measured
  <2> QED  BY <1>2, <1>3, <2>2, <2>3
<1>5. CASE Sleep(t)
  <2>1. pc[t] = "sleep" /\ call' = call /\ entered' = [entered EXCEPT ![t] = time]
    BY <1>5 DEF Sleep, Runs
  <2>2. call[t].op = "delay" /\ xTimeOut[t] = <<>> /\ xTicksToWait[t] = call[t].ticks
    BY <1>1, <2>1 DEF CallPlaces, TimeOf
  <2>3. call[t].ticks \in 1..portMAX_DELAY - 1
    <3>1. program \in Programs /\ call[t] \in program.calls
      BY <1>1, <2>1 DEF CallsOK
    <3> QED  BY <2>2, <3>1, TimeAssumption
  <2>4. PICK c \in Int, m \in Nat : c = Clock(k) /\ m = k.uxPendedTicks
    BY <1>1, ClockType, Fields
  <2>5. c + m = FirstTick + time /\ time \in Nat /\ FirstTick \in Int
    BY <1>1, <2>4, TickAssumption DEF ClockOK, TicksOK
  <2>6. Deadline(t)' = FirstTick + time + call[t].ticks
    BY <1>1, <2>1 DEF Deadline, TicksOK
  <2>7. c + call[t].ticks <= FirstTick + time + call[t].ticks
    BY <1>2, <2>3, <2>4, <2>5
  <2> QED  BY <1>2, <2>2, <2>3, <2>4, <2>6, <2>7
<1> QED  BY <1>4, <1>5

\* The lists of sleeping tasks after a step of task t.
LEMMA DueLists ==
  ASSUME DueInv, NEW t \in Task, TaskStep(t)
  PROVE  /\ Alarmed(k')
         /\ \A u \in Task \ {t} : u \in Asleep(k') => u \in Asleep(k) /\ DueAt(k', u) = DueAt(k, u)
<1>1. StructureInv /\ Alarmed(k)
  BY DEF DueInv, TimeInv
<1>2. CASE Place(t) \/ Sleep(t)
  <2>1. PICK lists : lists = IF Place(t) THEN {<<call[t].queue, Way(t)>>} ELSE {}
    OBVIOUS
  <2>2. Sleeps(k, k', t, xTicksToWait[t])
    BY <1>1, <1>2, <2>1, BlockStep
  <2>3. xTicksToWait[t] \in 1..portMAX_DELAY
    BY <1>2, SleepTicks
  <2>4. SleepsWith(k, k', t, xTicksToWait[t])
    BY <1>1, <2>2, <2>3 DEF Sleeps
  <2> QED  BY <2>4 DEF SleepsWith
<1>3. CASE ~Place(t) /\ ~Sleep(t)
  <2>1. Rests(k, k')
    BY <1>1, <1>3, DueCalm
  <2> QED  BY <1>1, <2>1 DEF Rests, Undisturbed
<1> QED  BY <1>2, <1>3

\* The task that made it sleeps no longer than its call may last.
LEMMA TimelyOwn ==
  ASSUME DueInv, NEW t \in Task, TaskStep(t)
  PROVE  Timely(t)'
<1>1. /\ StructureInv /\ Alarmed(k) /\ Timely(t) /\ CallsOK /\ TicksOK /\ pc[t] # "out"
  BY StepRuns DEF DueInv, TimeInv, StructureInv, RefinementInv
<1>2. ASSUME t \notin Asleep(k') PROVE Timely(t)'
  BY <1>2 DEF Timely
<1>3. CASE Place(t) \/ Sleep(t)
  <2>1. PICK lists : lists = IF Place(t) THEN {<<call[t].queue, Way(t)>>} ELSE {}
    OBVIOUS
  <2>2. Sleeps(k, k', t, xTicksToWait[t])
    BY <1>1, <1>3, <2>1, BlockStep
  <2>3. /\ xTicksToWait[t] \in 1..portMAX_DELAY
        /\ xTicksToWait[t] # portMAX_DELAY => Clock(k) + xTicksToWait[t] <= Deadline(t)'
    BY <1>3, SleepTicks
  <2>4. SleepsWith(k, k', t, xTicksToWait[t])
    BY <1>1, <2>2, <2>3 DEF Sleeps
  <2>5. pc'[t] # "out"
    BY <1>1, <1>3 DEF Place, Sleep, Goto, CallsOK
  <2>6. t \in Asleep(k') => DueAt(k', t) <= Deadline(t)'
    BY <2>3, <2>4 DEF SleepsWith
  <2> QED  BY <2>5, <2>6 DEF Timely
<1>4. CASE ~Place(t) /\ ~Sleep(t)
  <2>1. Rests(k, k')
    BY <1>1, <1>4, DueCalm
  <2>2. CASE pc'[t] = "out" \/ pc[t] = "test"
    BY <1>1, <1>2, <2>1, <2>2, EndsReady, ReadyAwake
  <2>3. CASE pc'[t] # "out" /\ pc[t] # "test"
    <3>1. ASSUME Returns(t) PROVE FALSE
      <4>1. ReturnedOK(t)
        BY <1>1, <3>1, ReturnsOthers
      <4> QED  BY <2>3, <4>1 DEF ReturnedOK
    <3>2. call' = call /\ entered' = entered
      <4>1. CASE SendItem(t) \/ Give(t) \/ ReceiveItem(t) \/ Peek(t) \/ TestFails(t)
        BY <2>3, <4>1 DEF SendItem, Give, ReceiveItem, Peek, TestFails, Runs
      <4>2. CASE Suspend(t) \/ LockQueue(t) \/ CheckForTimeOut(t) \/ Look(t) \/ UnlockTx(t) \/ UnlockRx(t)
                 \/ Yield(t)
        BY <4>2 DEF Suspend, LockQueue, CheckForTimeOut, Look, UnlockTx, UnlockRx, Yield, tasks
      <4>3. CASE Return(t) \/ LastLook(t) \/ Resume(t)
        <5>1. Returns(t) \/ UNCHANGED tasks
          BY <4>3 DEF Return, LastLook, Resume
        <5> QED  BY <3>1, <5>1 DEF tasks
      <4> QED  BY <1>4, <4>1, <4>2, <4>3 DEF TaskStep
    <3>3. Deadline(t)' = Deadline(t)
      BY <3>2 DEF Deadline
    <3>4. t \in Asleep(k') => t \in Asleep(k) /\ DueAt(k', t) = DueAt(k, t)
      BY <1>1, <2>1 DEF Rests, Undisturbed
    <3> QED  BY <1>1, <2>3, <3>3, <3>4 DEF Timely
  <2> QED  BY <2>2, <2>3
<1> QED  BY <1>3, <1>4

\* A limit that is set now.
LEMMA MeasuredNow ==
  ASSUME NEW t \in Task, k' = k, pc'[t] # "place", k \in Kernel,
         xTimeOut'[t] = <<TimeOutState(k)>>, xTicksToWait'[t] \in Int,
         pc'[t] = "look" => xTicksToWait'[t] >= 1,
         Clock(k) + xTicksToWait'[t] <= Deadline(t)'
  PROVE  Measured(t)'
<1>1. PICK limit : limit = TimeOutState(k)
  OBVIOUS
<1>2. At(limit) = Clock(k)
  BY <1>1 DEF At, Clock, TimeOutState
<1>3. xTimeOut'[t][1] = limit /\ xTimeOut'[t] # <<>>
  BY <1>1
<1> HIDE DEF At, Clock, Deadline
<1> QED  BY <1>2, <1>3 DEF Measured

\* A call that goes on as it was.
LEMMA MeasuredKept ==
  ASSUME NEW t \in Task, Measured(t), call'[t] = call[t], xTicksToWait'[t] = xTicksToWait[t],
         xTimeOut'[t] = xTimeOut[t], entered'[t] = entered[t],
         pc'[t] \in {"look", "place"} /\ xTicksToWait[t] # portMAX_DELAY =>
           pc[t] \in {"look", "place"} /\ Clock(k') = Clock(k)
  PROVE  Measured(t)'
<1>1. Deadline(t)' = Deadline(t)
  BY DEF Deadline
<1> QED  BY <1>1 DEF Measured

LEMMA MeasuredOwn ==
  ASSUME DueInv, Prompt, StructureInv', NEW t \in Task, TaskStep(t)
  PROVE  Measured(t)'
<1>1. /\ StructureInv /\ CallsOK /\ TicksOK /\ CallPlaces /\ Places /\ k \in Kernel /\ ClockOK /\ TimeOf(t)
      /\ Measured(t) /\ pc[t] # "out" /\ t = k.pxCurrentTCB
  BY StepRuns DEF DueInv, TimeInv, StructureInv, RefinementInv
<1>2. portMAX_DELAY \in Nat
  BY TickAssumption DEF portMAX_DELAY
<1>3. ASSUME Returns(t) PROVE Measured(t)'
  <2>1. ReturnedOK(t)
    BY <1>1, <1>3, ReturnsOthers
  <2> QED  BY <2>1 DEF ReturnedOK, Measured
<1>4. ASSUME UNCHANGED tasks, NEW l, Goto(t, l), l \notin {"look", "place"} PROVE Measured(t)'
  <2>1. pc'[t] = l
    BY <1>1, <1>4 DEF Goto, CallsOK
  <2> QED  BY <1>1, <1>4, <2>1, MeasuredKept DEF tasks
<1>5. CASE SendItem(t) \/ Give(t) \/ ReceiveItem(t) \/ Peek(t) \/ Return(t)
  BY <1>3, <1>5 DEF SendItem, Give, ReceiveItem, Peek, Return
<1>6. CASE Suspend(t) \/ LockQueue(t) \/ UnlockTx(t) \/ UnlockRx(t) \/ Place(t)
  <2>1. /\ UNCHANGED tasks
        /\ \E l \in {"sleep", "lock", "check", "unlock_rx", "resume", "unlock_tx"} : Goto(t, l)
    BY <1>6 DEF Suspend, LockQueue, UnlockTx, UnlockRx, Place
  <2> QED  BY <1>4, <2>1
<1>7. CASE Yield(t) \/ Resume(t) \/ LastLook(t)
  <2>1. \/ Returns(t)
        \/ UNCHANGED tasks /\ \E l \in {"return", "test", "last", "yield"} : Goto(t, l)
    BY <1>7 DEF Yield, Resume, LastLook, Awake
  <2> QED  BY <1>3, <1>4, <2>1
<1>8. CASE Sleep(t)
  <2>1. pc[t] = "sleep" /\ xTimeOut' = xTimeOut /\ Goto(t, "resume")
    BY <1>8 DEF Sleep, Runs
  <2>2. xTimeOut'[t] = <<>> /\ pc'[t] = "resume"
    BY <1>1, <2>1 DEF CallPlaces, TimeOf, Goto, CallsOK
  <2> QED  BY <2>2 DEF Measured
<1>9. CASE Look(t)
  <2>1. pc[t] = "look" /\ k' = k /\ UNCHANGED tasks
    BY <1>9 DEF Look, Runs
  <2> QED  BY <1>1, <2>1, MeasuredKept DEF tasks
<1>10. CASE TestFails(t)
  <2>1. \/ Returns(t)
        \/ Goto(t, "block") /\ UNCHANGED tasks
        \/ /\ xTimeOut[t] = <<>> /\ Goto(t, "block")
           /\ xTimeOut' = [xTimeOut EXCEPT ![t] = <<TimeOutState(k)>>] /\ k' = k
           /\ entered' = [entered EXCEPT ![t] = time] /\ UNCHANGED <<call, xTicksToWait>>
    BY <1>10 DEF TestFails
  <2>2. ASSUME xTimeOut[t] = <<>>, Goto(t, "block"), k' = k, xTimeOut' = [xTimeOut EXCEPT ![t] = <<TimeOutState(k)>>],
               entered' = [entered EXCEPT ![t] = time], UNCHANGED <<call, xTicksToWait>>
        PROVE  Measured(t)'
    <3>1. pc[t] = "test"
      BY <1>10 DEF TestFails, Runs
    <3>2. k.uxPendedTicks = 0
      BY <1>1, <3>1, PlaceDecides DEF Open, Elsewhere
    <3>3. pc'[t] = "block" /\ xTimeOut'[t] = <<TimeOutState(k)>> /\ entered'[t] = time
      BY <1>1, <2>2 DEF Goto, CallsOK, TicksOK
    <3>4. PICK c \in Int : c = Clock(k)
      BY <1>1, ClockType
    <3>5. FirstTick + time = c
      BY <1>1, <3>2, <3>4 DEF ClockOK
    <3>6. xTicksToWait'[t] = call[t].ticks /\ call[t].ticks \in Int
      BY <1>1, <2>2, <3>1, CallTimes DEF TimeOf
    <3>7. Deadline(t)' = c + call[t].ticks
      BY <2>2, <3>3, <3>5 DEF Deadline
    <3>8. Clock(k) + xTicksToWait'[t] <= Deadline(t)'
      BY <3>4, <3>6, <3>7
    <3> QED  BY <1>1, <2>2, <3>3, <3>6, <3>8, MeasuredNow
  <2> QED  BY <1>3, <1>4, <2>1, <2>2
<1>11. CASE CheckForTimeOut(t)
  <2>0. pc[t] = "check" /\ k' = k
    BY <1>11 DEF CheckForTimeOut, Runs
  <2>1. CASE xTicksToWait[t] = portMAX_DELAY
    <3>1. UNCHANGED tasks
      BY <1>11, <2>1 DEF CheckForTimeOut
    <3> QED  BY <1>1, <2>1, <3>1, MeasuredKept DEF tasks
  <2>2. CASE xTicksToWait[t] # portMAX_DELAY /\ TimedOut(k, xTimeOut[t][1], xTicksToWait[t])
    <3>1. UNCHANGED tasks /\ Goto(t, "unlock_tx")
      BY <1>11, <2>2 DEF CheckForTimeOut
    <3> QED  BY <1>4, <3>1
  <2>3. CASE xTicksToWait[t] # portMAX_DELAY /\ ~TimedOut(k, xTimeOut[t][1], xTicksToWait[t])
    <3>1. /\ xTicksToWait[t] # portMAX_DELAY /\ Goto(t, "look") /\ call' = call
          /\ ~TimedOut(k, xTimeOut[t][1], xTicksToWait[t])
          /\ xTicksToWait' = [xTicksToWait EXCEPT ![t] = xTicksToWait[t] - Since(k, xTimeOut[t][1])]
          /\ xTimeOut' = [xTimeOut EXCEPT ![t] = <<TimeOutState(k)>>] /\ entered' = entered
      BY <1>11, <2>3 DEF CheckForTimeOut
    <3>2. call[t].op # "delay"
      BY <1>1, <2>0 DEF CallPlaces
    <3>3. PICK limit \in Limit : xTimeOut[t] = <<limit>>
      BY <1>1, <2>0, <3>1, <3>2 DEF TicksOK
    <3>4. PICK s \in Int : s = Since(k, limit)
      BY <1>1, SinceType
    <3>5. PICK c \in Int : c = Clock(k)
      BY <1>1, ClockType
    <3>6. PICK a \in Int : a = At(limit)
      BY AtType
    <3>7. xTimeOut[t] # <<>> /\ xTimeOut[t][1] = limit
      BY <3>3
    <3>8. a <= c /\ c - a < TickMod /\ a + xTicksToWait[t] <= Deadline(t)
      BY <1>1, <2>0, <3>5, <3>6, <3>7 DEF TimeOf, Prompt, Measured
    <3>9. c <= a + s
      BY <1>1, <3>4, <3>5, <3>6, <3>8, SinceExact
    <3>10. PICK n \in 0..portMAX_DELAY : n = xTicksToWait[t]
      BY <1>1 DEF TicksOK
    <3>11. n - s >= 1 /\ n - s \in Int
      <4>1. ~TimedOut(k, limit, n)
        BY <3>1, <3>7, <3>10
      <4>2. n - Since(k, limit) \in 1..n
        BY <1>1, <4>1, TimeLeft
      <4> HIDE DEF Since
      <4> QED  BY <1>2, <3>4, <3>10, <4>2
    <3>12. /\ xTicksToWait'[t] = n - s /\ xTimeOut'[t] = <<TimeOutState(k)>> /\ pc'[t] = "look"
      <4> HIDE DEF Since, TimeOutState
      <4> QED  BY <1>1, <3>1, <3>4, <3>7, <3>10 DEF TicksOK, CallsOK, Goto
    <3>13. Deadline(t)' = Deadline(t) /\ Deadline(t) \in Int
      <4>1. FirstTick \in Int /\ entered[t] \in Int /\ call[t].ticks \in Int
        BY <1>1, <1>2, CallTimes, TickAssumption DEF TicksOK
      <4> QED  BY <3>1, <4>1 DEF Deadline
    <3>14. c + (n - s) <= Deadline(t)
      BY <1>2, <3>4, <3>5, <3>6, <3>8, <3>9, <3>10, <3>13
    <3> QED  BY <1>1, <2>0, <3>5, <3>11, <3>12, <3>13, <3>14, MeasuredNow
  <2> QED  BY <2>1, <2>2, <2>3
<1> QED  BY <1>5, <1>6, <1>7, <1>8, <1>9, <1>10, <1>11 DEF TaskStep

LEMMA DueStep ==
  ASSUME DueInv, Prompt, [Next]_vars
  PROVE  DueInv'
<1>1. /\ TimeInv /\ TimeInv' /\ StructureInv /\ StructureInv' /\ Alarmed(k) /\ CallsOK /\ TicksOK /\ Places
      /\ k \in Kernel /\ Sound(k)
  BY TimeStep DEF DueInv, TimeInv, StructureInv, RefinementInv
<1>2. CASE UNCHANGED vars
  <2>1. Alarmed(k)'
    BY <1>1, <1>2 DEF vars
  <2>2. \A u \in Task : Timely(u)' /\ Measured(u)'
    BY <1>2 DEF vars, tasks, DueInv, Timely, Measured, Deadline
  <2> QED  BY <1>1, <2>1, <2>2 DEF DueInv
<1>3. ASSUME NEW t \in Task, TaskStep(t) PROVE DueInv'
  <2>1. /\ Alarmed(k')
        /\ \A u \in Task \ {t} : u \in Asleep(k') => u \in Asleep(k) /\ DueAt(k', u) = DueAt(k, u)
    BY <1>3, DueLists
  <2>2. Timely(t)' /\ Measured(t)'
    BY <1>1, <1>3, TimelyOwn, MeasuredOwn
  <2>3. ASSUME NEW u \in Task \ {t} PROVE Timely(u)' /\ Measured(u)'
    <3>1. /\ pc'[u] = pc[u] /\ call'[u] = call[u] /\ xTicksToWait'[u] = xTicksToWait[u]
          /\ xTimeOut'[u] = xTimeOut[u] /\ entered'[u] = entered[u]
      BY <1>1, <1>3, StepOthers DEF Others
    <3>2. pc[u] \notin {"look", "place"}
      <4>1. t = k.pxCurrentTCB
        BY <1>3, StepRuns
      <4> QED  BY <1>1, <4>1, OthersElsewhere DEF Elsewhere
    <3>3. Timely(u) /\ Measured(u)
      BY DEF DueInv
    <3>4. Deadline(u)' = Deadline(u)
      BY <3>1 DEF Deadline
    <3>5. Timely(u)'
      BY <2>1, <3>1, <3>3, <3>4 DEF Timely
    <3> QED  BY <3>1, <3>2, <3>3, <3>5, MeasuredKept
  <2> QED  BY <1>1, <2>1, <2>2, <2>3 DEF DueInv
<1>4. ASSUME NEW c \in program.calls, Call(c) PROVE DueInv'
  <2>1. PICK t : t = c.task
    OBVIOUS
  <2>2. /\ t \in Task /\ t = k.pxCurrentTCB /\ pc[t] = "out"
        /\ pc' = [pc EXCEPT ![t] = IF c.op = "delay" THEN "block" ELSE "test"]
        /\ call' = [call EXCEPT ![t] = c] /\ xTicksToWait' = [xTicksToWait EXCEPT ![t] = c.ticks]
        /\ UNCHANGED <<k, xTimeOut, entered>>
    BY <1>1, <1>4, <2>1, CallBegins
  <2>3. Alarmed(k)'
    BY <1>1, <2>2
  <2>4. Timely(t)' /\ Measured(t)'
    <3>1. t \notin Asleep(k) /\ xTimeOut[t] = <<>>
      BY <2>2 DEF DueInv, TimeInv, Timely, TimeOf
    <3>2. pc'[t] \notin {"look", "place"}
      BY <1>1, <2>2 DEF CallsOK
    <3> QED  BY <2>2, <3>1, <3>2 DEF Timely, Measured
  <2>5. ASSUME NEW u \in Task \ {t} PROVE Timely(u)' /\ Measured(u)'
    <3>1. /\ pc'[u] = pc[u] /\ call'[u] = call[u] /\ xTicksToWait'[u] = xTicksToWait[u]
          /\ xTimeOut'[u] = xTimeOut[u] /\ entered'[u] = entered[u]
      BY <1>1, <2>2, <2>5 DEF CallsOK, TicksOK
    <3>2. Timely(u) /\ Measured(u)
      BY DEF DueInv
    <3>3. Deadline(u)' = Deadline(u)
      BY <3>1 DEF Deadline
    <3> QED  BY <2>2, <3>1, <3>2, <3>3, MeasuredKept DEF Timely
  <2> QED  BY <1>1, <2>3, <2>4, <2>5 DEF DueInv
<1>5. CASE Interrupt
  <2>1. UNCHANGED <<pc, tasks>>
    BY <1>1, <1>5, InterruptStep
  <2>2. Rests(k, k') /\ (k.uxSchedulerSuspended # 0 => Clock(k') = Clock(k))
    <3>1. CASE Tick
      BY <1>1, <3>1, TickEffect DEF Places, Open, Closed
    <3>2. ASSUME NEW q \in Queue \ Mutex, SendFromISR(q) \/ ReceiveFromISR(q)
          PROVE  Rests(k, k') /\ Clock(k') = Clock(k)
      <4>1. PICK way \in Directions : way = IF SendFromISR(q) THEN "receive" ELSE "send"
        BY DEF Directions
      <4>2. PICK locked \in BOOLEAN :
              locked <=> IF SendFromISR(q) THEN queue[q].cTxLock # queueUNLOCKED
                                           ELSE queue[q].cRxLock # queueUNLOCKED
        OBVIOUS
      <4>3. IF locked THEN k' = k ELSE EndInterrupt(Wake(k, <<q, way>>, FALSE))
        BY <3>2, <4>1, <4>2 DEF SendFromISR, ReceiveFromISR
      <4>4. Quiet(k, k')
        BY <1>1, <4>3, ISREffect
      <4>5. Rests(k, k')
        BY <1>1, <4>4, QuietRests
      <4> QED  BY <4>4, <4>5 DEF Quiet, SameTime, Clock
    <3> QED  BY <1>5, <3>1, <3>2 DEF Interrupt
  <2>3. Alarmed(k') /\ Undisturbed(k, k')
    BY <1>1, <2>2 DEF Rests
  <2>4. ASSUME NEW u \in Task PROVE Timely(u)' /\ Measured(u)'
    <3>1. Timely(u) /\ Measured(u)
      BY DEF DueInv
    <3>2. Deadline(u)' = Deadline(u)
      BY <2>1 DEF Deadline, tasks
    <3>3. Timely(u)'
      BY <2>1, <2>3, <3>1, <3>2 DEF Timely, Undisturbed
    <3>4. ASSUME pc[u] \in {"look", "place"} PROVE Clock(k') = Clock(k)
      BY <1>1, <2>2, <3>4 DEF Places, Open, Closed, Elsewhere
    <3>5. pc' = pc /\ call' = call /\ xTicksToWait' = xTicksToWait /\ xTimeOut' = xTimeOut /\ entered' = entered
      BY <2>1 DEF tasks
    <3>6. Measured(u)'
      BY <3>1, <3>4, <3>5, MeasuredKept
    <3> QED  BY <3>3, <3>6
  <2> QED  BY <1>1, <2>3, <2>4 DEF DueInv
<1> QED  BY <1>2, <1>3, <1>4, <1>5 DEF Next

LEMMA InitDue ==
  ASSUME Init
  PROVE  DueInv
<1>1. TimeInv
  BY InitTime
<1>2. k.delayed = {} /\ k.overflow = {}
  BY InitialKernel DEF Init
<1>3. Alarmed(k) /\ \A t \in Task : t \notin Asleep(k)
  BY <1>2 DEF Alarmed, Asleep
<1>4. \A t \in Task : Timely(t) /\ Measured(t)
  BY <1>3 DEF Init, Timely, Measured
<1> QED  BY <1>1, <1>3, <1>4 DEF DueInv

\* The scheduler has not counted as far as the time of any task that sleeps.
LEMMA AlarmAhead ==
  ASSUME NEW a \in Kernel, Alarmed(a), NEW t \in Asleep(a)
  PROVE  DueAt(a, t) \in Int /\ Clock(a) < DueAt(a, t)
<1>1. PICK c \in 0..TickMod - 1, o \in Nat, w \in 0..TickMod - 1 :
        c = a.xTickCount /\ o = a.xNumOfOverflows /\ w = a.wake[t]
  BY Fields DEF Asleep
<1>2. PICK M \in Nat : M = TickMod /\ M > 1
  BY TickAssumption
<1>3. c \in Int /\ w \in Int /\ 0 <= c /\ c < M /\ 0 <= w
  BY <1>1, <1>2
<1>4. PICK p \in Int, n \in Int : p = o * M /\ n = (o + 1) * M
  BY <1>1, <1>2, Multiples
<1>5. n = p + M
  BY <1>1, <1>2, <1>4
<1>6. Clock(a) = p + c
  BY <1>1, <1>2, <1>4 DEF Clock
<1>7. CASE t \in a.overflow
  <2>1. DueAt(a, t) = n + w
    BY <1>1, <1>2, <1>4, <1>7 DEF DueAt
  <2> QED  BY <1>2, <1>3, <1>4, <1>5, <1>6, <2>1
<1>8. CASE t \notin a.overflow
  <2>1. DueAt(a, t) = p + w
    BY <1>1, <1>2, <1>4, <1>8 DEF DueAt
  <2>2. c < w
    BY <1>1, <1>8 DEF Alarmed, Asleep
  <2> QED  BY <1>3, <1>4, <1>6, <2>1, <2>2
<1> QED  BY <1>7, <1>8

LEMMA DueSuffices ==
  ASSUME DueInv
  PROVE  OnTime
<1> SUFFICES ASSUME k.uxSchedulerSuspended = 0, NEW t \in Asleep(k) PROVE Elapsed(t) < call[t].ticks
  BY DEF OnTime, Asleep
<1>1. /\ StructureInv /\ CallsOK /\ TicksOK /\ Places /\ k \in Kernel /\ ClockOK /\ Alarmed(k)
  BY DEF DueInv, TimeInv, StructureInv, RefinementInv
<1>2. t \in Task
  BY <1>1, Fields DEF Asleep
<1>3. pc[t] # "out" /\ DueAt(k, t) <= Deadline(t)
  BY <1>2 DEF DueInv, Timely
<1>4. FirstTick \in Int /\ entered[t] \in Int /\ call[t].ticks \in Int /\ time \in Int
  BY <1>1, <1>2, <1>3, CallTimes, TickAssumption DEF TicksOK, portMAX_DELAY
<1>5. k.uxPendedTicks = 0
  BY <1>1 DEF Places, Open, Closed
<1>6. PICK c \in Int, d \in Int : c = Clock(k) /\ d = DueAt(k, t) /\ c < d
  BY <1>1, ClockType, AlarmAhead
<1>7. c = FirstTick + time
  BY <1>1, <1>5, <1>6 DEF ClockOK
<1>8. d <= FirstTick + entered[t] + call[t].ticks
  BY <1>3, <1>6 DEF Deadline
<1> QED  BY <1>4, <1>6, <1>7, <1>8 DEF Elapsed

\* No task is still blocked when as many ticks have come as its call was given, over every wrap of
\* the tick count and through xTaskResumeAll, if every task comes to xTaskCheckForTimeOut before the
\* count has made a full turn since its time was last measured.
THEOREM OnTimeWhenPrompt == Spec /\ []Prompt => []OnTime
<1>1. Init => DueInv
  BY InitDue
<1>2. DueInv /\ Prompt /\ [Next]_vars => DueInv'
  BY DueStep
<1>3. DueInv => OnTime
  BY DueSuffices
<1> QED  BY <1>1, <1>2, <1>3, PTL DEF Spec

\* No limit is set before the start, and no more ticks come than the bound allows.
Short ==
  /\ time <= MaxTicks /\ FirstTick <= Clock(k)
  /\ \A t \in Task : xTimeOut[t] # <<>> => FirstTick <= At(xTimeOut[t][1])

ShortInv == DueInv /\ Short

\* A limit is kept, dropped, or set now.
LEMMA LimitNow ==
  ASSUME CallsOK, TicksOK, NEW t \in Task, TaskStep(t), NEW u \in Task
  PROVE  xTimeOut'[u] \in {xTimeOut[u], <<>>, <<TimeOutState(k)>>}
<1> HIDE DEF TimeOutState
<1>1. CASE u # t
  BY <1>1, StepOthers DEF Others
<1>2. CASE u = t
  <2>1. ASSUME Returns(t) PROVE xTimeOut'[t] = <<>>
    BY <2>1, ReturnsOthers DEF ReturnedOK
  <2>2. CASE SendItem(t) \/ Give(t) \/ ReceiveItem(t) \/ Peek(t) \/ Return(t)
    BY <1>2, <2>1, <2>2 DEF SendItem, Give, ReceiveItem, Peek, Return
  <2>3. CASE TestFails(t)
    <3>1. \/ Returns(t) \/ xTimeOut' = xTimeOut
          \/ xTimeOut' = [xTimeOut EXCEPT ![t] = <<TimeOutState(k)>>]
      BY <2>3 DEF TestFails, tasks
    <3> QED  BY <1>2, <2>1, <3>1 DEF TicksOK
  <2>4. CASE Suspend(t) \/ LockQueue(t) \/ UnlockTx(t) \/ UnlockRx(t) \/ Place(t) \/ Sleep(t) \/ Look(t) \/ Yield(t)
    <3>1. xTimeOut' = xTimeOut
      BY <2>4 DEF Suspend, LockQueue, UnlockTx, UnlockRx, Place, Sleep, Look, Yield, tasks
    <3> QED  BY <3>1
  <2>5. CASE CheckForTimeOut(t)
    <3>1. xTimeOut' = xTimeOut \/ xTimeOut' = [xTimeOut EXCEPT ![t] = <<TimeOutState(k)>>]
      BY <2>5 DEF CheckForTimeOut, tasks
    <3> QED  BY <1>2, <3>1 DEF TicksOK
  <2>6. CASE Resume(t) \/ LastLook(t)
    <3>1. Returns(t) \/ xTimeOut' = xTimeOut
      BY <2>6 DEF Resume, LastLook, tasks
    <3> QED  BY <1>2, <2>1, <3>1
  <2> QED  BY <2>2, <2>3, <2>4, <2>5, <2>6 DEF TaskStep
<1> QED  BY <1>1, <1>2

LEMMA ShortStep ==
  ASSUME TimeInv, Short, [Next]_vars
  PROVE  Short'
<1>1. /\ TimeInv' /\ StructureInv /\ StructureInv' /\ CallsOK /\ TicksOK /\ k \in Kernel /\ ClockOK
  BY TimeStep DEF TimeInv, StructureInv, RefinementInv
<1>2. CASE UNCHANGED vars
  BY <1>2 DEF vars, tasks, Short
<1>3. CASE Next
  <2>1. PICK c \in Int, d \in Int : c = Clock(k) /\ d = Clock(k') /\ c <= d
    <3>1. PICK kk \in Kernel : kk = k'
      BY <1>1 DEF StructureInv
    <3>2. Clock(k) \in Int /\ Clock(kk) \in Int
      BY <1>1, ClockType
    <3> QED  BY <1>1, <1>3, <3>1, <3>2, ClockStep
  <2>2. FirstTick <= c /\ FirstTick \in Int
    BY <2>1, TickAssumption DEF Short
  <2>3. FirstTick <= Clock(k')
    BY <2>1, <2>2
  <2>4. time' <= MaxTicks
    <3>1. CASE Tick
      BY <1>1, <3>1, BoundAssumption DEF Tick, TicksOK
    <3>2. CASE time' = time
      BY <3>2 DEF Short
    <3> QED  BY <1>3, <3>1, <3>2 DEF Next, Interrupt
  <2>5. ASSUME NEW u \in Task, xTimeOut'[u] # <<>> PROVE FirstTick <= At(xTimeOut'[u][1])
    <3>1. CASE xTimeOut'[u] = xTimeOut[u]
      BY <2>5, <3>1 DEF Short
    <3>2. CASE xTimeOut'[u] = <<TimeOutState(k)>>
      <4>1. PICK limit : limit = TimeOutState(k)
        OBVIOUS
      <4>2. At(limit) = Clock(k)
        BY <4>1 DEF At, Clock, TimeOutState
      <4>3. xTimeOut'[u][1] = limit
        BY <3>2, <4>1
      <4> QED  BY <2>1, <2>2, <4>2, <4>3
    <3>3. xTimeOut'[u] \in {xTimeOut[u], <<>>, <<TimeOutState(k)>>}
      <4>1. CASE Interrupt
        BY <1>1, <4>1, InterruptStep DEF tasks
      <4>2. ASSUME NEW t \in program.calls, Call(t) PROVE xTimeOut' = xTimeOut
        BY <4>2 DEF Call
      <4>3. ASSUME NEW t \in Task, TaskStep(t)
            PROVE  xTimeOut'[u] \in {xTimeOut[u], <<>>, <<TimeOutState(k)>>}
        BY <1>1, <4>3, LimitNow
      <4> QED  BY <1>3, <4>1, <4>2, <4>3 DEF Next
    <3> QED  BY <2>5, <3>1, <3>2, <3>3
  <2> QED  BY <2>3, <2>4, <2>5 DEF Short
<1> QED  BY <1>2, <1>3

LEMMA ShortPrompt ==
  ASSUME ShortInv, MaxTicks < TickMod
  PROVE  Prompt
<1> SUFFICES ASSUME NEW t \in Task, xTimeOut[t] # <<>> PROVE Clock(k) - At(xTimeOut[t][1]) < TickMod
  BY DEF Prompt
<1>1. /\ TicksOK /\ k \in Kernel /\ ClockOK /\ Short
  BY DEF ShortInv, DueInv, TimeInv, StructureInv
<1>2. PICK limit \in Limit : xTimeOut[t] = <<limit>>
  BY <1>1 DEF TicksOK
<1>3. PICK a \in Int : a = At(limit)
  BY AtType
<1>4. PICK c \in Int, m \in Nat : c = Clock(k) /\ m = k.uxPendedTicks
  BY <1>1, ClockType, Fields
<1>5. xTimeOut[t][1] = limit
  BY <1>2
<1>6. c + m = FirstTick + time /\ time <= MaxTicks /\ FirstTick <= a
  BY <1>1, <1>3, <1>4, <1>5 DEF ClockOK, Short
<1>7. FirstTick \in Int /\ time \in Int /\ MaxTicks \in Int /\ TickMod \in Int
  BY <1>1, TickAssumption, BoundAssumption DEF TicksOK
<1>8. c - a < TickMod
  BY <1>3, <1>4, <1>6, <1>7
<1> QED  BY <1>3, <1>4, <1>5, <1>8

\* It does while fewer ticks come than the count has values, wherever the count starts.
THEOREM OnTimeWithinATurn == MaxTicks < TickMod => (Spec => []OnTime)
<1> SUFFICES ASSUME MaxTicks < TickMod PROVE Spec => []OnTime
  OBVIOUS
<1>1. Init => ShortInv
  <2> SUFFICES ASSUME Init PROVE ShortInv
    OBVIOUS
  <2>1. DueInv
    BY InitDue
  <2>2. FirstTick = Clock(k)
    <3>1. TimeInv /\ k \in Kernel
      BY <2>1 DEF DueInv, TimeInv, StructureInv
    <3>2. PICK c \in Int : c = Clock(k)
      BY <3>1, ClockType
    <3>3. k.uxPendedTicks = 0 /\ time = 0 /\ FirstTick \in Int
      BY InitialKernel, TickAssumption DEF Init
    <3> QED  BY <3>1, <3>2, <3>3 DEF TimeInv, ClockOK
  <2>3. Short
    BY <2>2, TickAssumption, BoundAssumption DEF Init, Short
  <2> QED  BY <2>1, <2>3 DEF ShortInv
<1>2. ShortInv /\ [Next]_vars => ShortInv'
  <2> SUFFICES ASSUME ShortInv, [Next]_vars PROVE ShortInv'
    OBVIOUS
  <2>1. DueInv /\ TimeInv /\ Short /\ Prompt
    BY ShortPrompt DEF ShortInv, DueInv
  <2> QED  BY <2>1, DueStep, ShortStep DEF ShortInv
<1>3. ShortInv => OnTime
  BY DueSuffices DEF ShortInv
<1> QED  BY <1>1, <1>2, <1>3, PTL DEF Spec
==============================================================================
