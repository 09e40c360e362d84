\* One bid on or off autopilot, two PDFs, one disturbance of any one kind.
SPECIFICATION Spec
CONSTANTS
  w1 = w1
  w2 = w2
  NoWorker = NoWorker
  Workers = {w1, w2}
  Docs = {d1, d2}
  Takes <- SplitTypes
  MaxJobs = 6
  Budget <- OneOfEach
  Prompt = TRUE
  MaxKinds = 1
INVARIANTS
  ReadIsCovered
PROPERTIES
  MergedBeforePricing
  ReviewedBeforePricing
  ChainRests
  DocumentsSettle
CHECK_DEADLOCK FALSE
