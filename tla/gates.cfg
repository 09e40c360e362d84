\* One document, the pass that waits for it and a pass of the same bid that
\* does not, without the unique index.
SPECIFICATION GateSpec
CONSTANTS
  extractor = extractor
  server = server
  bid = bid
  NoWorker = NoWorker
  Workers = {extractor, server}
  Bids = {bid}
  JobCount = 3
  BidOf <- OneBid
  Parses = {1}
  Exclusive = {2, 3}
  Waits = {2}
  Claimable <- ByDomain
  MaxAttempts = 2
  UniqueIndex = FALSE
  MaxGen = 2
  Budget <- OneCrash
INVARIANTS OneSessionPerBid AnnouncedIsDone DoneIsParsed
PROPERTIES StartsSettled
