\* Two processes serve one kind at once (a deploy that overlaps, a zombie).
\* Failed calls are lost; two loops and no stray call need two tokens.
SPECIFICATION Spec
CONSTANTS
  cycle = cycle
  scheduler = scheduler
  Loop = {w1, w2}
  JobId = {j1, j2}
  Token = {t1, t2}
  Null = Null
  Kind <- MCKind
  Key <- MCKey
  KindOf <- MCKindOf
  Scheduler = scheduler
  Priority <- MCPriority
  Interval <- MCInterval
  Every = 1
  Capacity <- MCCapacity
  Backoff <- MCBackoff
  MaxAttempts = 2
  LeaseTicks = 1
  SweepLimit = 1
  MaxStray = 0
SYMMETRY MCSymmetry
PROPERTIES QueueContract AckedWorkWasDone
