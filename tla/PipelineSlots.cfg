SPECIFICATION FairSpec
CONSTANTS
  Threads = {t1, t2}
  MainThread = {t1}
  Tools <- MCTools
  Args = {"a", "b"}
  Risk <- MCRisk
  Cacheable = {"read"}
  Hangs = {"read"}
  Nesting = {"write"}
  CacheMax = 1
  Policies <- SlotPolicies
  Quotas = {"outer", "inner"}
  MaxCalls <- SlotQuotaCaps
  RateLimits = {"rate"}
  RateCap <- RateCaps
  Window <- RateWindows
  Deadlines = {"deadline"}
  Seconds <- DeadlineCaps
  RiskBudgets = {"danger"}
  MaxRisk <- RiskCaps
  LoopGuards = {"repeat"}
  MaxIdentical <- LoopCaps
  History <- LoopWindow
  ConcurrencyLimits = {"api", "db"}
  MaxConcurrent <- SlotCaps
  MaxTime = 0
  MaxOrphans = 1
INVARIANTS OnlyAuthorised SlotsBalanced CallersWithinCap CacheBounded
PROPERTIES CallsEnd
