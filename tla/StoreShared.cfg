\* Two workers and a gateway share the budget of one task.
SPECIFICATION Spec
CONSTANTS
  t1 = t1
  Tasks <- OneTask
  Ids <- AllIds
  Signatures <- AllSignatures
  LimitSets <- EveryLimit
  DirectLimits <- EveryLimitValue
  Quotas <- TwoWorkers
  Direct <- Mints
  TokenCharges = {2}
  MaxSeq = 2
  MaxTime = 2
INVARIANTS
  TypeOK
  LeasesAccounted
  GrantsBooked
  GrantsWithinRate
  EveryCallCharged
  EveryTokenCharged
PROPERTIES
  ContractKept
