\* A gateway of two threads that crashes or loses a connection once.
SPECIFICATION Spec
CONSTANTS
  t1 = t1
  w1 = w1
  w2 = w2
  v1 = v1
  v2 = v2
  Tasks <- OneTask
  Ids <- AllIds
  Signatures <- AllSignatures
  LimitSets <- EveryLimit
  Workers <- TwoWorkers
  ProcessOf <- OneProcess
  Process = "gateway"
  Leases <- LeasePool
  Jobs <- AllCharges
  TokenJobs <- TokenCharge
  Verifiers = {v1, v2}
  Presented = {1}
  Ttl = 1
  Skew = 1
  FailureThreshold = 2
  OpenSeconds = 1
  MaxEnvelopes = 2
  MaxTime = 2
  MaxFailures = 1
SYMMETRY Symmetry
INVARIANTS
  TypeOK
  BookedOnce
  EnvelopesPaid
  AcceptedOnce
PROPERTIES
  ContractKept
