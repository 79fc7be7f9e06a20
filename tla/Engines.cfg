\* Every store, with two callers.
SPECIFICATION Spec
CONSTANTS
  t1 = t1
  Tasks = {t1}
  Ids <- AllIds
  Signatures <- AllSignatures
  LimitSets <- EveryLimit
  Workers = {w1, w2}
  Jobs <- MCJobs
  Engines <- NonceEngines
  Leases <- MCLeases
  IdemTtl = 2
  MaxTime <- MCMaxTime
  Nonces = {"n"}
  ExpiresAt <- MCExpiresAt
  Second = 2
  MaxSpends <- MCMaxSpends
SYMMETRY Symmetry
INVARIANTS TypeOK RequestsBookedOnce AccountsExact GrantedWithinLimits NonceSpentOnce
CHECK_DEADLOCK FALSE
