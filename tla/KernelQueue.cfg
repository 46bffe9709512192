SPECIFICATION Spec
CONSTANTS
  low = low
  mid = mid
  high = high
  idle = idle
  pipe = pipe
  lock = lock
  one = one
  two = two
  Task = {low, mid, high, idle}
  Idle = idle
  uxBasePriority <- Priority
  TickMod = 8
  FirstTick = 7
  Queue = {pipe, lock}
  Mutex = {lock}
  uxLength <- Length
  Item = {one, two}
  ISRItem = one
  Programs <- Various
  MaxTicks = 3
  MaxLock = 2
INVARIANTS
  TypeOK
  ListsAgree
  NoLostWakeup
  HighestRuns
  NotBefore
  OnTime
  Inherited
PROPERTIES
  ImplementsBounded
CHECK_DEADLOCK FALSE
