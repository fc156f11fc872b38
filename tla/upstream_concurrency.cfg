\* Three attempts, limits that change and at last settle; one race.
CONSTANTS
  a1 = a1
  a2 = a2
  a3 = a3
  Attempts = {a1, a2, a3}
  LimitArgs <- Limits
  MaxAttempts = 3
  MaxParallel = 2
  Chunks = 2
  MaxUpsets = 1
SPECIFICATION ForwardingSpec
INVARIANTS
  ClientSeesOneStream
  NeverStuck
PROPERTIES
  RefinesSlotPool
  WaitersServed
\* A loser's goroutine may be left waiting: the system then stops short of all
\* its goroutines having ended.
CHECK_DEADLOCK FALSE
