SPECIFICATION Spec
CONSTANTS
  Workers = {w1, w2}
  MaxDepth = 2
  MaxHeap = 2
  MaxDocuments <- MCMaxDocuments
  MaxEntered <- MCMaxEntered
  MaxCalls <- MCMaxCalls
  Names <- MCNames
  Blank <- MCBlank
  Star <- MCStar
  Covers <- MCCovers
  Configs <- MCConfigs
  Everything <- MCEverything
  Canary = {"c"}
  Threaded = {"shadow"}
  PriceTable <- MCPriceTable
  ModelCalls <- MCModelCalls
  Replies <- MCReplies
  Documents <- MCDocuments
  Keywords <- MCKeywords
  Hooks <- MCHooks
INVARIANTS TypeOK Ratchet TracingOwned SpendingNested MeteredAsBilled
PROPERTIES EnvelopePerBlock
CHECK_DEADLOCK FALSE
SYMMETRY Symmetry
