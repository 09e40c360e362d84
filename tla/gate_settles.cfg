SPECIFICATION FairGateSpec
CONSTANTS
  extractor = extractor
  parser = parser
  bid = bid
  NoWorker = NoWorker
  Workers = {extractor, parser}
  Bids = {bid}
  JobCount = 2
  BidOf <- OneBid
  Exclusive <- Extract
  Waits <- Extract
  Parses <- ParsesOnly
  Claimable <- ByDomain
  MaxGen = 4
  MaxAttempts = 2
  UniqueIndex = TRUE
  Budget <- Settling
PROPERTIES ParsesSettle
