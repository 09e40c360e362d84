SPECIFICATION FairSpec
CONSTANTS
  w1 = w1
  w2 = w2
  bid = bid
  NoWorker = NoWorker
  Workers = {w1, w2}
  Bids = {bid}
  JobCount = 1
  BidOf <- OneBid
  Exclusive <- EveryJob
  Claimable <- ClaimAll
  Waits = {}
  MaxGen = 9
  MaxAttempts = 2
  UniqueIndex = TRUE
  Budget <- Recovery
INVARIANTS AttemptsBounded ClaimsFenced
PROPERTIES EveryJobEnds EndingsTold
