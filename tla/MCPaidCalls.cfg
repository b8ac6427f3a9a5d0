\* Two calls at once and an explicit retry.
SPECIFICATION Spec
CONSTANTS
  l1 = l1
  minute = minute
  day = day
  Logical = {l1}
  RetryKey = {r1}
  RetryFor <- MCRetryFor
  MaxGen = 2
  Null = Null
  Cost <- MCCost
  Window <- MCWindow
  Span <- MCSpan
  Budget <- MCBudget
  MinuteBudget = 1
  DayBudget = 2
  LeaseTicks = 1
  RetainTicks = 2
  Caller = {c1, c2}
SYMMETRY MCSymmetry
INVARIANTS TypeOK SentOnce SpendWithinBudget NothingBoughtTwice RetryBuysOnce
PROPERTIES LateCallsFenced TableContract
