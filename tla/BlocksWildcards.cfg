SPECIFICATION Spec
CONSTANTS
  Workers = {w1}
  MaxDepth = 2
  MaxHeap = 0
  MaxDocuments <- MCMaxDocuments
  MaxEntered <- MCMaxEntered
  MaxCalls <- MCMaxCalls
  Names <- MCNames
  Blank <- MCBlank
  Star <- MCStar
  Covers <- MCCovers
  Configs <- MCConfigs
  Everything = {}
  Canary = {}
  Threaded = {}
  PriceTable <- MCNothing
  ModelCalls = {}
  Replies = {}
  Documents <- MCDocuments
  Keywords = {}
  Hooks <- MCHooks
INVARIANTS Ratchet
CHECK_DEADLOCK FALSE
