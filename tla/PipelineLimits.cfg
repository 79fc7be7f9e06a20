SPECIFICATION Spec
CONSTANTS
  Threads = {t1, t2}
  MainThread = {}
  Tools <- MCTools
  Args = {"a"}
  Risk <- MCRisk
  Cacheable = {}
  Hangs = {}
  Nesting = {}
  CacheMax = 1
  Policies <- LimitPolicies
  Quotas = {"outer", "inner"}
  MaxCalls <- QuotaCaps
  RateLimits = {"rate"}
  RateCap <- RateCaps
  Window <- RateWindows
  Deadlines = {"deadline"}
  Seconds <- DeadlineCaps
  RiskBudgets = {"danger"}
  MaxRisk <- RiskCaps
  LoopGuards = {"repeat"}
  MaxIdentical <- LoopCaps
  History <- LoopWindow
  ConcurrencyLimits = {"api", "db"}
  MaxConcurrent <- SlotCaps
  MaxTime = 3
  MaxOrphans = 1
SYMMETRY Symmetry
CONSTRAINT BudgetsOrPace
INVARIANTS TypeOK QuotaCoversBodies RiskCoversBodies LoopBounded
  RateWindowWithDelays LateCallsRefused
