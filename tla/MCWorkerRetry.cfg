\* A finish(True) that raises: the comment at worker.py:174 against the code.
\* One process; calls that fail are lost.
SPECIFICATION Spec
CONSTANTS
  cycle = cycle
  scheduler = scheduler
  Loop = {w1}
  JobId = {j1, j2}
  Token = {t1, t2}
  Null = Null
  Kind <- MCKind
  Key <- MCKey
  KindOf <- MCKindOf
  Scheduler = scheduler
  Priority <- MCPriority
  Interval <- MCInterval
  Every = 1
  Capacity <- MCCapacity
  Backoff <- MCBackoff
  MaxAttempts = 2
  LeaseTicks = 1
  SweepLimit = 1
  MaxStray = 0
SYMMETRY MCSymmetry
PROPERTIES CompletedCycleNotRetried
