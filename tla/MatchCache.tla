----------------------------- MODULE MatchCache -----------------------------
(***************************************************************************)
(* The matches of a bid that a later pass need not decide again.  After a  *)
(* pass extracted/_matchcache.json is written from hardware_sets.json:     *)
(* each confident match, with the catalog and the door schedule it depends *)
(* on.  Before the next pricing the entries whose dependencies are still   *)
(* those of today are put into its prompt, to be copied as they are.       *)
(*                                                                         *)
(* Passes of a bid follow one another; catalogs are indexed, and the       *)
(* schedule is edited, at any time.                                        *)
(***************************************************************************)
EXTENDS Naturals

CONSTANTS
  Specified,  \* what the openings ask for
  MaxCatalog, \* bound: times the catalogs are indexed
  MaxSchedule,\* bound: versions of the door schedule
  MaxPasses   \* bound: passes

Unknown == 0  \* the watermark of an index that cannot be read

VARIABLES
  catalog,  \* headers_watermark of what is indexed
  answers,  \* the page index answers
  schedule, \* door_schedule.json, by its hash
  hardware, \* hardware_sets.json: the shape it has, and the matches in it
  cache,    \* _matchcache.json
  pass,     \* the pass under way, and what its prompt lets it reuse
  passes,
  shaken    \* history: a match has been stamped with what it was not decided on

vars == <<catalog, answers, schedule, hardware, cache, pass, passes, shaken>>

\* A match: what it was decided on, and whether it was confident.
Match  == [catalog : 1 .. MaxCatalog, schedule : 1 .. MaxSchedule, sure : BOOLEAN]
Open   == [catalog |-> 0, schedule |-> 0, sure |-> FALSE]
Nothing == [s \in Specified |-> Open]
Entry  == [item : Specified, match : Match, catalog : 0 .. MaxCatalog,
           schedule : 1 .. MaxSchedule]
NoPass == [type |-> "none", reused |-> {}]

Init ==
  /\ catalog = 1 /\ answers = TRUE /\ schedule = 1
  /\ hardware = [shape |-> "none", matches |-> Nothing]
  /\ cache = {}
  /\ pass = NoPass
  /\ passes = 0
  /\ shaken = FALSE

catalog_watermark == IF answers THEN catalog ELSE Unknown

-----------------------------------------------------------------------------
(* The cache.                                                              *)

\* Mutant: the schedule decides alone.
ScheduleStands(e) == e.schedule = schedule

StillStands(e) == e.catalog = catalog_watermark /\ e.schedule = schedule

\* Nothing is reused by force, or without proof that the catalog stands.
reusable(force) ==
  IF force \/ catalog_watermark = Unknown THEN {} ELSE {e \in cache : StillStands(e)}

\* _iter_items finds its items under "groups" and "items", or in a bare list.
\* The dependencies are those of the moment, whenever a match was made.
ingest ==
  IF hardware.shape = "none" THEN cache
  ELSE {[item |-> s, match |-> hardware.matches[s], catalog |-> catalog_watermark,
         schedule |-> schedule] :
          s \in {t \in Specified : hardware.shape = "groups" /\ hardware.matches[t].sure}}

-----------------------------------------------------------------------------
(* Passes.                                                                 *)

Starts(type, reused) ==
  /\ pass = NoPass /\ passes < MaxPasses
  /\ passes' = passes + 1
  /\ pass' = [type |-> type, reused |-> reused]

\* build() puts what can be reused into the prompt.
Prices(force) ==
  /\ Starts("match_and_price", reusable(force))
  /\ UNCHANGED <<catalog, answers, schedule, hardware, cache, shaken>>

\* prepare() takes the schedule off the sheets, and writes the legend over
\* hardware_sets.json where it finds one.
Extracts(legend) ==
  /\ Starts("extract_bid_set", {})
  /\ schedule < MaxSchedule /\ schedule' = schedule + 1
  /\ hardware' = IF legend THEN [shape |-> "sets", matches |-> Nothing] ELSE hardware
  /\ UNCHANGED <<catalog, answers, cache, shaken>>

\* The matcher copies what it was told to, decides the rest, and promotes.
Decided(s) ==
  LET copied == {e.match : e \in {r \in pass.reused : r.item = s}}
  IN IF copied # {} THEN copied
     ELSE {[catalog |-> catalog, schedule |-> schedule, sure |-> sure] : sure \in BOOLEAN}

Matches ==
  /\ pass.type = "match_and_price" /\ answers
  /\ \E matches \in [Specified -> Match] :
       /\ \A s \in Specified : matches[s] \in Decided(s)
       /\ hardware' = [shape |-> "groups", matches |-> matches]
  /\ pass' = [pass EXCEPT !.type = "matched"]
  /\ UNCHANGED <<catalog, answers, schedule, cache, passes, shaken>>

\* check_output takes in what is there, whether or not it passes its checks: the
\* matches of an earlier pass too, if this one left them.
Ends ==
  /\ pass # NoPass
  /\ cache' = ingest
  /\ shaken' = (shaken \/ (pass.type # "matched" /\ hardware.shape = "groups"))
  /\ pass' = NoPass
  /\ UNCHANGED <<catalog, answers, schedule, hardware, passes>>

\* The pass fails before its output is looked at, or its claim is lost.
Fails ==
  /\ pass # NoPass
  /\ pass' = NoPass
  /\ UNCHANGED <<catalog, answers, schedule, hardware, cache, passes, shaken>>

-----------------------------------------------------------------------------
(* Around them.                                                            *)

\* Something moves under a pass that decides on it.
Shakes == shaken' = (shaken \/ pass.type \in {"match_and_price", "matched"})

Reindexes ==
  /\ catalog < MaxCatalog
  /\ catalog' = catalog + 1
  /\ Shakes
  /\ UNCHANGED <<answers, schedule, hardware, cache, pass, passes>>

\* An estimator's edit is exported.
Exports ==
  /\ schedule < MaxSchedule
  /\ schedule' = schedule + 1
  /\ Shakes
  /\ UNCHANGED <<catalog, answers, hardware, cache, pass, passes>>

Outage ==
  /\ answers' = ~answers
  /\ UNCHANGED <<catalog, schedule, hardware, cache, pass, passes, shaken>>

Next ==
  \/ \E yes \in BOOLEAN : Prices(yes) \/ Extracts(yes)
  \/ Matches \/ Ends \/ Fails \/ Reindexes \/ Exports \/ Outage

Spec == Init /\ [][Next]_vars

-----------------------------------------------------------------------------
(* Properties.                                                             *)

MatchCacheTypeOK ==
  /\ catalog \in 1 .. MaxCatalog /\ schedule \in 1 .. MaxSchedule
  /\ hardware.shape \in {"none", "groups", "sets"}
  /\ hardware.matches \in [Specified -> Match \cup {Open}]
  /\ cache \subseteq Entry
  /\ pass.reused \subseteq Entry

\* "High-confidence decisions that nothing invalidated are reused; anything below
\* 0.75 is never stored or served": what a prompt has copied was decided, with
\* confidence, on the catalog and the schedule of that moment, through indexing
\* and edits between passes, passes that fail with their matches written, outages
\* at either end, and copies of copies.  Not so once a match was stamped with
\* what it was not decided on (matchcache.py:1-6, 108-164, 167-199).
ReusedStands ==
  [][\A e \in pass'.reused \ pass.reused :
       ~shaken => e.match = [catalog |-> catalog, schedule |-> schedule, sure |-> TRUE]]_vars
=============================================================================
