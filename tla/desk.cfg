\* One of six parts moves in each behaviour; the sets the constants are given
\* stand in MCDesk.
SPECIFICATION Spec
CONSTANTS
  d1 = d1
  d2 = d2
  Marks = {d1, d2}
  Files <- Artifacts
  Quote = "lines"
  MaxClaims = 3
  Disturbances <- Disturbed
  MaxDisturbances = 1
  Repeats = 2
  MaxRows = 5
  MaxPasses = 2
  Schedules <- Listed
  Touches <- Edited
  MaxTouches = 2
  Found = {d1}
  Parses <- Read
  MaxRuns = 2
  MaxActs = 2
  Books = {d2}
  PageCount <- Sizes
  WindowPages = 2
  MaxUploads = 2
  MaxClock = 3
  Failures <- Once
  MaxFailures = 1
  Parser = TRUE
  Searched = TRUE
  MaxSessions = 2
  MaxLines = 2
  MaxDrops = 2
INVARIANTS DeskTypeOK SyncedIsOwn ImportedIsLocated ServedIsCurrent ShowsRecording
PROPERTIES IsolatedFromTheDead KeepsDecisions OneOpeningPerDoor SeedKeepsNumbered ParsedIsWhole
CHECK_DEADLOCK FALSE
