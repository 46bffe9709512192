SPECIFICATION Spec
CONSTANTS
  low = low
  mid = mid
  high = high
  idle = idle
  pipe = pipe
  lock = lock
  one = one
  two = two
  Task = {low, mid, high, idle}
  Idle = idle
  uxBasePriority <- Priority
  TickMod = 8
  FirstTick = 7
  Queue = {pipe, lock}
  Mutex = {lock}
  uxLength <- Length
  Item = {one, two}
  ISRItem = one
  Programs <- Crowd
  MaxTicks = 3
  MaxLock = 2
INVARIANTS
  HighestRuns
CHECK_DEADLOCK FALSE
