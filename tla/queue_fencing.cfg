SPECIFICATION Spec
CONSTANTS
  w1 = w1
  w2 = w2
  bid = bid
  NoWorker = NoWorker
  Workers = {w1, w2}
  Bids = {bid}
  JobCount = 2
  BidOf <- OneBid
  Exclusive <- EveryJob
  Claimable <- ClaimAll
  Waits = {1}
  MaxGen = 4
  MaxAttempts = 2
  UniqueIndex = TRUE
  Budget <- Fencing
INVARIANTS ReplacementUndisturbed OneActivePerBid
PROPERTIES ImplementsLease
SYMMETRY Symmetry
