\* Two requests, two files, three versions; a quiet window of one tick under a
\* ceiling of two.
SPECIFICATION Spec
CONSTANTS
  r1 = r1
  r2 = r2
  Requests = {r1, r2}
  Roles <- EveryPair
  Tries = 2
  MaxVersions = 3
  Reviewed = {1}
  Files = {f1, f2}
  Contents = {c1}
  Nothing = none
  Quiet = 1
  Ceiling = 2
  Backoff = 1
INVARIANTS
  IntakeTypeOK
 
  SealedBySuccessor
PROPERTIES
  ReconcileRespectsSeal
  QuietWindowEnds
