\* Two blocks under one RunContext.
SPECIFICATION Spec
CONSTANTS
  t1 = t1
  Tasks <- OneTask
  Ids <- AllIds
  Signatures <- AllSignatures
  LimitSets <- CallLimits
  DirectLimits <- CallLimitsValue
  Quotas <- OneRun
  Direct = {}
  TokenCharges = {}
  MaxSeq = 3
  MaxTime = 0
INVARIANTS
  EveryCallCharged
CHECK_DEADLOCK FALSE
