\* One process under fairness; no symmetry.
SPECIFICATION FairSpec
CONSTANTS
  cycle = cycle
  scheduler = scheduler
  Loop = {w1}
  JobId = {j1, j2}
  Token = {t1, t2}
  Null = Null
  Kind <- MCKind
  Key <- MCKey
  KindOf <- MCKindOf
  Scheduler = scheduler
  Priority <- MCPriority
  Interval <- MCInterval
  Every = 1
  Capacity <- MCCapacity
  Backoff <- MCBackoff
  MaxAttempts = 2
  LeaseTicks = 1
  SweepLimit = 1
  MaxStray = 0
PROPERTIES OccurrencesEnd LoopsDrain
