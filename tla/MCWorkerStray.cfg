\* One process that may crash and restart, with abandoned calls that commit late.
SPECIFICATION Spec
CONSTANTS
  cycle = cycle
  scheduler = scheduler
  Loop = {w1}
  JobId = {j1, j2}
  Token = {t1, t2, t3}
  Null = Null
  Kind <- MCKind
  Key <- MCKey
  KindOf <- MCKindOf
  Scheduler = scheduler
  Priority <- MCPriority
  Interval <- MCInterval
  Every = 1
  Capacity <- MCCapacity
  Backoff <- MCBackoff
  MaxAttempts = 2
  LeaseTicks = 1
  SweepLimit = 1
  MaxStray = 1
SYMMETRY MCSymmetry
PROPERTIES AckedWorkWasDone CutOffWorkWaitsForExpiry
