---------------------------- MODULE KernelTasks ----------------------------
(***************************************************************************)
(* The FreeRTOS scheduler (tasks.c, list.c) as operators on the state it   *)
(* keeps in k: tasks are ready, delayed in one of two lists, or blocked    *)
(* without limit; a task may also be in one event list.  The tick count    *)
(* wraps, ticks and wake-ups that come while the scheduler is suspended    *)
(* are kept until it is resumed, and a task holding a mutex inherits the   *)
(* priority of those that wait for it.                                     *)
(***************************************************************************)
EXTENDS Integers, FiniteSets, SequencesExt

CONSTANTS
  Task,             \* with the idle task
  Idle,
  uxBasePriority,   \* priority of each task
  TickMod,          \* number of values of TickType_t
  FirstTick         \* xTickCount at the start

ASSUME TaskAssumption == Idle \in Task /\ IsFiniteSet(Task) /\ uxBasePriority \in [Task -> Nat]
ASSUME TickAssumption == TickMod \in Nat \ {0, 1} /\ FirstTick \in 0..TickMod - 1

portMAX_DELAY == TickMod - 1

Least(S, bound) == CHOOSE x \in S \cup {bound} : \A y \in S \cup {bound} : x <= y

InitialTasks(lists) ==
  [xTickCount |-> FirstTick, xNumOfOverflows |-> 0, uxPendedTicks |-> 0,
   uxSchedulerSuspended |-> 0, xYieldPending |-> FALSE,
   pxCurrentTCB |-> CHOOSE t \in Task : \A u \in Task : uxBasePriority[u] <= uxBasePriority[t],
   ready |-> Task, pending |-> {}, delayed |-> {}, overflow |-> {}, suspended |-> {},
   wake |-> [t \in Task |-> 0], xNextTaskUnblockTime |-> portMAX_DELAY,
   uxPriority |-> uxBasePriority, uxMutexesHeld |-> [t \in Task |-> 0],
   waiting |-> [l \in lists |-> <<>>]]

-----------------------------------------------------------------------------
(* Lists. *)

\* vListInsert of the current task: behind all of its priority or above, up to the first below.
InsertCurrent(k, list) ==
  LET t     == k.pxCurrentTCB
      ahead == {i \in DOMAIN list : \A j \in 1..i :
                  k.uxPriority[list[j]] >= k.uxPriority[t]}
  IN InsertAt(list, Cardinality(ahead) + 1, t)

\* prvAddTaskToReadyList of tasks that were in a delayed list or blocked without limit.
MakeReady(k, tasks) ==
  [k EXCEPT !.ready = @ \cup tasks, !.delayed = @ \ tasks, !.overflow = @ \ tasks,
            !.suspended = @ \ tasks]

\* Fault: the overflow list is never used.
AddCurrentTaskToDelayedListOne(k, ticks) ==
  LET t  == k.pxCurrentTCB
      kk == [k EXCEPT !.ready = @ \ {t}]
      at == (k.xTickCount + ticks) % TickMod
  IN IF ticks = portMAX_DELAY THEN [kk EXCEPT !.suspended = @ \cup {t}]
     ELSE [kk EXCEPT !.delayed = @ \cup {t}, !.wake[t] = at,
                     !.xNextTaskUnblockTime = Least({at}, @)]

\* prvAddCurrentTaskToDelayedList; portMAX_DELAY blocks without limit.
AddCurrentTaskToDelayedList(k, ticks) ==
  LET t  == k.pxCurrentTCB
      kk == [k EXCEPT !.ready = @ \ {t}]
      at == (k.xTickCount + ticks) % TickMod
  IN IF ticks = portMAX_DELAY THEN [kk EXCEPT !.suspended = @ \cup {t}]
     ELSE IF at < k.xTickCount
       THEN [kk EXCEPT !.overflow = @ \cup {t}, !.wake[t] = at]
       ELSE [kk EXCEPT !.delayed = @ \cup {t}, !.wake[t] = at,
                       !.xNextTaskUnblockTime = Least({at}, @)]

ResetNextTaskUnblockTime(k) ==
  [k EXCEPT !.xNextTaskUnblockTime = Least({k.wake[t] : t \in k.delayed}, portMAX_DELAY)]

PlaceOnEventList(k, list, ticks) ==
  AddCurrentTaskToDelayedList([k EXCEPT !.waiting[list] = InsertCurrent(k, @)], ticks)

\* xTaskRemoveFromEventList: the first task is made ready, or kept for xTaskResumeAll.  woken
\* says that it has a higher priority than the current one.
RemoveFromEventList(k, list) ==
  LET t      == Head(k.waiting[list])
      higher == k.uxPriority[t] > k.uxPriority[k.pxCurrentTCB]
      out    == [k EXCEPT !.waiting[list] = Tail(@), !.xYieldPending = @ \/ higher]
  IN [k |-> IF k.uxSchedulerSuspended = 0 THEN MakeReady(out, {t})
            ELSE [out EXCEPT !.pending = @ \cup {t}],
      woken |-> higher]

-----------------------------------------------------------------------------
(* Ticks, and who runs. *)

\* taskSWITCH_DELAYED_LISTS
SwitchDelayedLists(k) ==
  ResetNextTaskUnblockTime(
    [k EXCEPT !.delayed = k.overflow, !.overflow = k.delayed, !.xNumOfOverflows = @ + 1])

\* Fault: a task whose time has come stays in the event list.
ExpireHalf(k) ==
  IF k.xTickCount < k.xNextTaskUnblockTime THEN k
  ELSE ResetNextTaskUnblockTime(MakeReady(k, {t \in k.delayed : k.wake[t] <= k.xTickCount}))

\* What is left of a list.
Without(list, tasks) ==
  LET left[i \in 0..Len(list)] ==
        IF i = 0 THEN <<>>
        ELSE IF list[i] \in tasks THEN left[i - 1] ELSE Append(left[i - 1], list[i])
  IN left[Len(list)]

\* The delayed tasks whose time has come leave their lists.
Expire(k) ==
  LET due == {t \in k.delayed : k.wake[t] <= k.xTickCount}
      kk  == [MakeReady(k, due) EXCEPT !.waiting = [l \in DOMAIN @ |-> Without(@[l], due)]]
  IN IF k.xTickCount < k.xNextTaskUnblockTime THEN k ELSE ResetNextTaskUnblockTime(kk)

\* Does the tick ask for a context switch: a task as urgent as the current one is ready.
Slices(before, k) ==
  LET current == k.uxPriority[k.pxCurrentTCB]
  IN \/ \E t \in k.ready \ before.ready : k.uxPriority[t] >= current
     \/ Cardinality({t \in k.ready : k.uxPriority[t] = current}) > 1

IncrementTick(k) ==
  LET tick  == [k EXCEPT !.xTickCount = (@ + 1) % TickMod]
      lists == IF tick.xTickCount = 0 THEN SwitchDelayedLists(tick) ELSE tick
      done  == Expire(lists)
  IN IF k.uxSchedulerSuspended = 0
       THEN [k |-> done, yield |-> Slices(k, done) \/ k.xYieldPending]
       ELSE [k |-> [k EXCEPT !.uxPendedTicks = @ + 1], yield |-> k.xYieldPending]

SuspendAll(k) == [k EXCEPT !.uxSchedulerSuspended = @ + 1]

\* xTaskResumeAll: tasks woken and ticks counted meanwhile take effect.
ResumeAll(k) ==
  LET current == k.uxPriority[k.pxCurrentTCB]
      moved == [MakeReady(k, k.pending) EXCEPT !.uxSchedulerSuspended = @ - 1, !.pending = {}]
      open  == IF k.pending = {} THEN moved ELSE ResetNextTaskUnblockTime(moved)
      first == [k |-> open, yield |-> \/ k.xYieldPending
                                      \/ \E t \in k.pending : k.uxPriority[t] >= current]
      unwind[n \in 0..k.uxPendedTicks] ==
        IF n = 0 THEN first
        ELSE LET tick == IncrementTick(unwind[n - 1].k)
             IN [k |-> tick.k, yield |-> unwind[n - 1].yield \/ tick.yield]
      last == unwind[k.uxPendedTicks]
  IN [k |-> [last.k EXCEPT !.uxPendedTicks = 0], yield |-> last.yield]

\* vTaskSwitchContext: one of the most urgent ready tasks goes on.  (The code takes equal
\* ones in turn.)
SwitchContext(k) ==
  IF k.uxSchedulerSuspended > 0 THEN {[k EXCEPT !.xYieldPending = TRUE]}
  ELSE {[k EXCEPT !.xYieldPending = FALSE, !.pxCurrentTCB = t] :
          t \in {t \in k.ready : \A u \in k.ready : k.uxPriority[u] <= k.uxPriority[t]}}

-----------------------------------------------------------------------------
(* Time limits. *)

TimeOutState(k) == [xOverflowCount |-> k.xNumOfOverflows, xTimeOnEntering |-> k.xTickCount]

Since(k, limit) == (k.xTickCount - limit.xTimeOnEntering) % TickMod

\* Fault: the time is taken to be up when the tick count is past the wake time.
TimedOutWrapped(k, limit, ticks) == k.xTickCount >= (limit.xTimeOnEntering + ticks) % TickMod

\* The two tests of xTaskCheckForTimeOut, of a time that is limited.
TimedOut(k, limit, ticks) ==
  \/ /\ k.xNumOfOverflows # limit.xOverflowCount
     /\ k.xTickCount >= limit.xTimeOnEntering
  \/ Since(k, limit) >= ticks

-----------------------------------------------------------------------------
(* Mutexes. *)

\* vTaskPriorityInherit: the holder is raised to the priority of the task that will wait.
PriorityInherit(k, holder) ==
  LET current == k.uxPriority[k.pxCurrentTCB]
  IN IF holder # {} /\ \A t \in holder : k.uxPriority[t] < current
       THEN [k EXCEPT !.uxPriority = [t \in Task |-> IF t \in holder THEN current ELSE @[t]]]
       ELSE k

\* Fault: no context switch is asked for.
PriorityDisinheritQuietly(k, holder) ==
  LET t     == k.pxCurrentTCB
      given == [k EXCEPT !.uxMutexesHeld[t] = @ - 1]
  IN IF holder = {} THEN [k |-> k, yield |-> FALSE]
     ELSE [k |-> IF given.uxMutexesHeld[t] > 0 THEN given
                 ELSE [given EXCEPT !.uxPriority[t] = uxBasePriority[t]], yield |-> FALSE]

\* Fault: the priority stays with the last mutex.
PriorityDisinheritLate(k, holder) ==
  LET t     == k.pxCurrentTCB
      given == [k EXCEPT !.uxMutexesHeld[t] = @ - 1]
  IN IF holder = {} THEN [k |-> k, yield |-> FALSE]
     ELSE IF k.uxPriority[t] # uxBasePriority[t] /\ given.uxMutexesHeld[t] > 0
       THEN [k |-> [given EXCEPT !.uxPriority[t] = uxBasePriority[t]], yield |-> TRUE]
       ELSE [k |-> given, yield |-> FALSE]

\* xTaskPriorityDisinherit: the holder, which is running, gives one mutex back; with the last
\* one its own priority returns, and a context switch is asked for.
PriorityDisinherit(k, holder) ==
  LET t     == k.pxCurrentTCB
      given == [k EXCEPT !.uxMutexesHeld[t] = @ - 1]
  IN IF holder = {} THEN [k |-> k, yield |-> FALSE]
     ELSE IF k.uxPriority[t] # uxBasePriority[t] /\ given.uxMutexesHeld[t] = 0
       THEN [k |-> [given EXCEPT !.uxPriority[t] = uxBasePriority[t]], yield |-> TRUE]
       ELSE [k |-> given, yield |-> FALSE]
=============================================================================
