\* The shortest way past a cap: one worker, two jobs of a bid, no failure.
SPECIFICATION Spec
CONSTANTS
  Workers = {1}
  Jobs = {1, 2, 3}
  BidOf <- TwoBids
  TypeOf <- OneType
  Claimable <- Domain
  Costs = {1}
  DayCap = 3
  ProjectCap = 1
  MaxAttempts = 2
  MaxNow = 2
  MaxPasses = 4
PROPERTIES SkipsAtCap
CHECK_DEADLOCK FALSE
