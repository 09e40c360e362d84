-------------------------------- MODULE Office --------------------------------
(***************************************************************************)
(* What stands behind the estimator's desk: the quote of a bid (Quote),    *)
(* the reference data it is priced with (References), what corrected lines *)
(* teach the matcher (Learning), which Claude a run talks to (Provider),   *)
(* the proposal's hand-off (Proposal) and the matches a pass reuses        *)
(* (MatchCache).  The six share no variable.  Here they stand side by      *)
(* side, each with constants of its own, what is asked of the constants,   *)
(* and the properties that are checked and proved of them.                 *)
(***************************************************************************)
EXTENDS Quote

CONSTANTS
  Entries, Terms, Seed, Families, Editors, MaxQuotes, Outages,      \* References
  Specs, Items, MaxEvents, Drains, Limit, MaxDeaths,                \* Learning
  Modes, Looked, Fills, Environs, Saves, Mishaps,                   \* Provider
  Signers, Estimators, MaxActs, MaxCrashes,                         \* Proposal
  Specified, MaxCatalog, MaxSchedule, MaxPasses                     \* MatchCache

VARIABLES
  family, rStored, past, clock, up, rEdit, quoted, rBudget,
  events, learned, drain, crossed, crashes,
  environ, envfile, pRow, save, faults,
  proposals, totals, lapsed, sign, routed, acts, deaths,
  catalog, answers, schedule, hardware, cache, pass, passes, shaken

R == INSTANCE References WITH
       Keys <- Entries, Values <- Terms, Edits <- Editors, Budget <- Outages,
       stored <- rStored, edit <- rEdit, budget <- rBudget

L == INSTANCE Learning WITH MaxCrashes <- MaxDeaths

P == INSTANCE Provider WITH Values <- Fills, Budget <- Mishaps, row <- pRow

H == INSTANCE Proposal WITH Requests <- Signers

M == INSTANCE MatchCache

-----------------------------------------------------------------------------
(* The constants.                                                          *)

\* The seed is a document of its family.
ASSUME ReferencesAssumption ==
  /\ R!Document(Seed)
  /\ Families \subseteq {"margins", "tax"}
  /\ MaxQuotes \in Nat

\* A drain reads an event at least; an item is a row of the catalog.
ASSUME LearningAssumption ==
  /\ L!Nowhere \notin Items
  /\ Limit \in Nat \ {0}
  /\ MaxEvents \in Nat /\ MaxDeaths \in Nat

\* A field that is given something is not empty.
ASSUME ProviderAssumption ==
  /\ Modes \subseteq DOMAIN P!FIELDS /\ "subscription" \in Modes
  /\ Looked \subseteq DOMAIN P!Variable
  /\ Fills \subseteq Nat \ {P!None}
  /\ Environs \subseteq [P!Variables -> {P!None} \cup Fills]

\* Who signs off has a name.
ASSUME ProposalAssumption ==
  /\ H!Nobody \notin Estimators
  /\ MaxActs \in Nat /\ MaxCrashes \in Nat

\* Something has been indexed, and there is a schedule.
ASSUME MatchCacheAssumption ==
  MaxCatalog \in Nat \ {0} /\ MaxSchedule \in Nat \ {0} /\ MaxPasses \in Nat

-----------------------------------------------------------------------------
(* The properties, beside those of Quote.                                  *)

\* Every part is well typed.
OfficeTypeOK ==
  /\ QuoteTypeOK
  /\ R!ReferencesTypeOK
  /\ L!LearningTypeOK
  /\ P!ProviderTypeOK
  /\ H!ProposalTypeOK
  /\ M!MatchCacheTypeOK

\* What a bid was quoted with can be asked for ever after (References).
HistoryAnswers == R!HistoryAnswers

\* No lesson is lost, and the most recent one stands (Learning).
LessonsKept == L!LessonsKept

\* A bid in a salesperson's queue has an approved proposal (Proposal).
RoutedIsApproved == H!RoutedIsApproved

\* What was tested on the settings screen is what a run is given once it is
\* saved (Provider).
TestedIsServed == P!TestedIsServed

\* What a pass is told to copy was decided on the catalog and the schedule of
\* that moment (MatchCache).
ReusedStands == M!ReusedStands
=============================================================================
