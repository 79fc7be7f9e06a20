SPECIFICATION Spec
CONSTANTS
  Threads = {t1, t2}
  MainThread = {}
  Tools <- OneTool
  Args = {"a", "b"}
  Risk <- OneRisk
  Cacheable = {"read"}
  Hangs = {"read"}
  Nesting = {}
  CacheMax = 1
  Policies <- ReadPolicies
  Quotas = {"outer", "inner"}
  MaxCalls <- QuotaCaps
  RateLimits = {"rate"}
  RateCap <- RateCaps
  Window <- RateWindows
  Deadlines = {"deadline"}
  Seconds <- DeadlineCaps
  RiskBudgets = {"danger"}
  MaxRisk <- RiskCaps
  LoopGuards = {"repeat"}
  MaxIdentical <- LoopCaps
  History <- LoopWindow
  ConcurrencyLimits = {"api", "db"}
  MaxConcurrent <- SlotCaps
  MaxTime = 0
  MaxOrphans = 1
PROPERTY HitReturnsResult
