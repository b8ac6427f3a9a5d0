\* Two kinds with a scheduler each plus unkeyed jobs, two leases at a time.
SPECIFICATION Spec
CONSTANTS
  JobId = {j1, j2, j3}
  Kind = {k1, k2}
  Key = {scheduler}
  Token = {t1, t2, t3}
  Null = Null
  Priority <- MCPriority
  Interval <- MCInterval
  Capacity <- MCCapacity
  Backoff <- MCBackoff
  MaxAttempts = 2
  LeaseTicks = 1
  SweepLimit = 2
  BackoffBase = 1
  BackoffCap = 2
  MaxCapacity = 2
SYMMETRY MCSymmetry
INVARIANTS TypeOK SingletonActive WithinCapacity AttemptsAccounted ScheduleKept TokensNameRows
PROPERTIES LeaseFence KeepsPromise
