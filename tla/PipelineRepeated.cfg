SPECIFICATION FairSpec
CONSTANTS
  Threads = {t1, t2}
  MainThread = {}
  Tools <- OneTool
  Args = {"a", "b"}
  Risk <- OneRisk
  Cacheable = {}
  Hangs = {"read"}
  Nesting = {}
  CacheMax = 1
  Policies <- RepeatedPolicies
  Quotas = {"outer", "inner"}
  MaxCalls <- QuotaCaps
  RateLimits = {"rate"}
  RateCap <- RateCaps
  Window <- RateWindows
  Deadlines = {"deadline"}
  Seconds <- DeadlineCaps
  RiskBudgets = {"danger"}
  MaxRisk <- RiskCaps
  LoopGuards = {"repeat"}
  MaxIdentical <- LoopCaps
  History <- LoopWindow
  ConcurrencyLimits = {"api", "db"}
  MaxConcurrent <- SlotCaps
  MaxTime = 0
  MaxOrphans = 1
PROPERTY CallsEnd
CHECK_DEADLOCK FALSE
