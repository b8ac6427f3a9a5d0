\* A cancelled send: docs/SOURCE_REVIEW.md:168 against the code.
SPECIFICATION CancelSpec
CONSTANTS
  l1 = l1
  minute = minute
  day = day
  Logical = {l1}
  RetryKey = {}
  RetryFor <- MCRetryFor
  MaxGen = 1
  Null = Null
  Cost <- MCCost
  Window <- MCWindow
  Span <- MCSpan
  Budget <- MCBudget
  MinuteBudget = 2
  DayBudget = 3
  LeaseTicks = 1
  RetainTicks = 2
  Caller = {c1}
PROPERTIES CancelledNotResent
