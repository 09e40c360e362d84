\* One of six parts moves in each behaviour.  Of the quote: two requests and
\* two passes, two of the four under way at once.  Of the reference data: an
\* edit under another and under a third.  Of what is learnt: three corrections
\* of one line, three drains that read two at most.  Of the settings: three
\* providers, of which two share a field.  Of the proposal: two people who sign
\* it off beside three other acts.  Of the matches: the catalogs indexed once
\* more, the schedule changed twice.
SPECIFICATION OfficeSpec
CONSTANTS
  k = k
  Unreadable = Unreadable
  Keys = {k}
  MaxRows = 2
  Costs = {1}
  Rates = {1, 2}
  oh = oh
  ny = ny
  States = {oh, ny}
  Files <- Outcomes
  r1 = r1
  r2 = r2
  Requests = {r1, r2}
  Passes = {1, 2}
  Edits <- Divided
  Crowd = 2
  Entries = {"bands", "accessories"}
  Terms = {1, 2}
  Seed <- Shipped
  Families = {"margins", "tax"}
  Editors = {1, 2, 3}
  MaxQuotes = 2
  Outages <- Outaged
  Specs = {"line"}
  Items = {1, 2}
  MaxEvents = 3
  Drains = {1, 2, 3}
  Limit = 2
  MaxDeaths = 1
  Modes = {"subscription", "gateway", "ollama"}
  Looked = {"oauthToken", "baseUrl"}
  Fills = {1, 2}
  Environs <- Started
  Saves = {1, 2}
  Mishaps <- Mishap
  Signers = {1, 2}
  Estimators = {"ann", "bob"}
  MaxActs = 3
  MaxCrashes = 1
  Specified = {1, 2}
  MaxCatalog = 2
  MaxSchedule = 3
  MaxPasses = 3
INVARIANTS OfficeTypeOK HistoryAnswers LessonsKept RoutedIsApproved
PROPERTIES TestedIsServed ReusedStands HandWorkSurvives QuotedPriceStands TotalsMatch
SYMMETRY Alike
CHECK_DEADLOCK FALSE
