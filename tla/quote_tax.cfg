\* One request that moves the bid's ship-to state between two that reprice.
SPECIFICATION Spec
CONSTANTS
  k = k
  oh = oh
  ny = ny
  Unreadable = Unreadable
  Keys = {k}
  MaxRows = 2
  Costs = {1}
  Rates = {1, 2}
  States = {oh, ny}
  Files <- Outcomes
  r1 = r1
  r2 = r2
  Requests = {r1, r2}
  Passes = {1}
  Edits <- Divided
  Crowd = 1
PROPERTIES ShipToDecides
CHECK_DEADLOCK FALSE
