------------------------------- MODULE Takeoff -------------------------------
(***************************************************************************)
(* extracted/door_schedule.json, the working document of a bid's take-off. *)
(* A run of the extraction seeds it from the drawings in code, lets Claude *)
(* edit a clone of it, copies the clone back, measures where every opening *)
(* sits on its sheet, asks the gate, and imports it.  Between the runs the *)
(* estimator confirms and adds openings, and what the estimator has settled*)
(* is written down over the document before the next run.                  *)
(*                                                                         *)
(* One job of a bid runs at a time, but writing the document down asks     *)
(* nobody.  Openings is about the import; here a row has one mark or none. *)
(***************************************************************************)
EXTENDS Naturals, Sequences, FiniteSets

CONSTANTS
  Marks,      \* door numbers
  Found,      \* those of them on the drawings: their row can be measured
  Parses,     \* bound: what the parser may read off the best page, as marks
  MaxRuns,    \* bound: runs of the extraction
  MaxActs     \* bound: what the estimator does between and during them

NoMark == "none"

VARIABLES
  sheet,    \* what the parser reads, and whether any page may be a schedule
  file,     \* door_schedule.json in the live tree
  clone,    \* the same in the pass's scratch
  db,       \* the bid's openings
  pc,       \* where the run stands
  runs, acts

vars == <<sheet, file, clone, db, pc, runs, acts>>

\* A row of the document or of the database.  by: who it is from; one that a
\* person confirmed or added is a decision and has a number of its own.
\* box and rowBox: where it is said to sit.  page: a page number of a known
\* file, none or one that is not an integer, or one of a file that is no upload.
Boxes == {"none", "real", "invented"}
Row   == [mark : Marks \cup {NoMark}, by : {"sheet", "pass", "person"}, id : 0 .. MaxActs,
          hand : BOOLEAN, box : Boxes, rowBox : Boxes, page : {"whole", "broken", "unfiled"}]

Read(m) == [mark |-> m, by |-> "sheet", id |-> 0, hand |-> FALSE,
            box |-> "real", rowBox |-> "real", page |-> "whole"]
Written(m, box, rowBox, page) == [Read(m) EXCEPT !.by = "pass", !.box = box,
                                                 !.rowBox = rowBox, !.page = page]
Added(m, n) == [Read(m) EXCEPT !.by = "person", !.id = n, !.hand = TRUE,
                               !.box = "none", !.rowBox = "none", !.page = "broken"]

\* Confirmed or added by hand, in the document's own words: Claude may say so
\* of a row of its own.
_is_a_decision(row) == row.by = "person" \/ row.hand

\* The elements of a set of positions, in their order.
Sorted(S) == [n \in 1 .. Cardinality(S) |-> CHOOSE i \in S : Cardinality({j \in S : j <= i}) = n]

\* The shapes of the document: absent, {"openings": rows}, a bare array,
\* {"lines": rows}, or {"openings": [], "lines": rows}.
Shapes  == {"openings", "array", "lines", "both"}
Document == [shape : Shapes \cup {"absent"}, rows : Seq(Row)]
NoFile  == [shape |-> "absent", rows |-> <<>>]
Doc(rs) == [shape |-> "openings", rows |-> rs]

\* What the gate and a reseed take for the openings, and what the importer
\* and the measuring take: "lines" counts for these only when the document
\* has no "openings" at all.
GateRows(f) == f.rows
_normalize_schedule_payload(f) == IF f.shape = "both" THEN <<>> ELSE f.rows

Init ==
  /\ \E parsed \in Parses, flagged \in BOOLEAN :
       sheet = [parsed |-> parsed, candidate |-> parsed # <<>> \/ flagged]
  /\ file = NoFile
  /\ clone = NoFile
  /\ db = <<>>
  /\ pc = "idle"
  /\ runs = 0
  /\ acts = 0

-----------------------------------------------------------------------------
(* The run.                                                                *)

\* Mutant: an earlier row by its mark, whoever settled it.
MergeReadings(parsed, existing) == [i \in 1 .. Len(parsed) |-> Read(parsed[i])]

\* prior: of the rows under a mark, the last; those without a mark are not
\* in it.  A parsed row gives way to a decision, and the decisions no parsed
\* row has the mark of are kept behind them.  _blend: the parser's values are
\* taken over a pass's, and it has read all of a row that there is here.
_merge(parsed, existing) ==
  LET prior     == {i \in DOMAIN existing :
                      existing[i].mark # NoMark
                      /\ \A j \in DOMAIN existing : j > i => existing[j].mark # existing[i].mark}
      decisions == {i \in prior : _is_a_decision(existing[i])}
      Settled(m) == {i \in decisions : existing[i].mark = m}
      merged    == [n \in 1 .. Len(parsed) |->
                      IF Settled(parsed[n]) # {} THEN existing[CHOOSE i \in Settled(parsed[n]) : TRUE]
                      ELSE Read(parsed[n])]
      unseen    == {i \in decisions : \A n \in 1 .. Len(parsed) : parsed[n] # existing[i].mark}
  IN merged \o [n \in 1 .. Cardinality(unseen) |-> existing[Sorted(unseen)[n]]]

\* seed_door_schedule, on the live tree: nothing is written when no page
\* yields a row.
seed_door_schedule ==
  /\ pc = "seed"
  /\ file' = IF sheet.parsed = <<>> THEN file ELSE Doc(_merge(sheet.parsed, GateRows(file)))
  /\ pc' = "clone"
  /\ UNCHANGED <<sheet, clone, db, runs, acts>>

Clones ==
  /\ pc = "clone"
  /\ clone' = file
  /\ pc' = "pass"
  /\ UNCHANGED <<sheet, file, db, runs, acts>>

\* Where Claude may say it saw an opening: a box or a row's box it made up.
Sightings == {<<"invented", "none", "whole">>, <<"none", "invented", "whole">>,
              <<"invented", "none", "broken">>, <<"none", "invented", "unfiled">>}

\* Claude leaves the document, writes it in another shape, empties it, or
\* adds an opening it made up, or one it says was added by hand.
Edits(rows) ==
  {rows, <<>>}
  \cup {Append(rows, Written(m, said[1], said[2], said[3])) : m \in Marks, said \in Sightings}
  \cup {Append(rows, [Written(m, "none", rowBox, "whole") EXCEPT !.hand = TRUE]) :
          m \in Marks, rowBox \in {"none", "invented"}}

Pass ==
  /\ pc = "pass"
  /\ \/ UNCHANGED clone
     \/ \E shape \in Shapes, rows \in Edits(GateRows(clone)) :
          clone' = [shape |-> shape, rows |-> rows]
  /\ pc' = "promote"
  /\ UNCHANGED <<sheet, file, db, runs, acts>>

\* promote copies the clone's document over the live one.
Promotes ==
  /\ pc = "promote"
  /\ file' = IF clone = NoFile THEN file ELSE clone
  /\ clone' = NoFile
  /\ pc' = "measure"
  /\ UNCHANGED <<sheet, db, runs, acts>>

\* Measured on a page of a file, whatever box it had: found there, or left
\* without one.  An opening whose own page is no integer is passed over.
Measured(row, page) ==
  CASE row.page = "broken" -> row
    [] page = "unfiled"    -> [row EXCEPT !.box = "none"]
    [] OTHER -> [row EXCEPT !.box = IF row.mark \in Found THEN "real" ELSE "none"]

\* The files the openings of the document name by a page.
Cited(rows) == {rows[i].page : i \in DOMAIN rows} \ {"broken"}

\* The openings cite pages of different numbers, each measured on its own, or
\* one number, and then all on the file the first of them to name one names.
measure_bboxes ==
  /\ pc = "measure"
  /\ IF _normalize_schedule_payload(file) = <<>>
       THEN UNCHANGED file
       ELSE \E page \in {"own"} \cup Cited(file.rows) :
              file' = [file EXCEPT !.rows =
                [i \in DOMAIN @ |-> Measured(@[i], IF page = "own" THEN @[i].page ELSE page)]]
  /\ pc' = "gate"
  /\ UNCHANGED <<sheet, clone, db, runs, acts>>

\* _normalize_opening: the row's box stands in for one that is missing.
BoxOf(row) == IF row.box # "none" THEN row.box ELSE row.rowBox

\* Mutant: the shape of a box is all that is asked.
WellFormed(row) == row.hand \/ (row.mark # NoMark /\ BoxOf(row) # "none")

\* A box lies on text of its page, when the page and the file can be told.
check_bboxes_are_real(row) ==
  row.page = "whole" /\ BoxOf(row) # "none" => BoxOf(row) = "real"

\* check_extraction of one opening: one added by hand was never on a sheet, any
\* other has a number and a box; and a box there is is real.
Acceptable(row) == WellFormed(row) /\ check_bboxes_are_real(row)

\* _sheetmap_says_a_schedule_exists, or a candidate page.
ScheduleSuspected == sheet.candidate

\* A document without openings is a finding unless a page may hold a schedule.
check_extraction(rows) ==
  IF rows = <<>> THEN ~ScheduleSuspected ELSE \A i \in DOMAIN rows : Acceptable(rows[i])

\* A rejected run is tried again from the seed, or is over.
Gate ==
  /\ pc = "gate"
  /\ IF file # NoFile /\ check_extraction(GateRows(file))
       THEN pc' = "import" /\ UNCHANGED runs
       ELSE \/ pc' = "idle" /\ UNCHANGED runs
            \/ runs < MaxRuns /\ runs' = runs + 1 /\ pc' = "seed"
  /\ UNCHANGED <<sheet, file, clone, db, acts>>

\* distinct_keys: a row's mark, or without one its description, and its
\* number among the rows of that key.
Key(rows, i) ==
  LET Same(j) == rows[j].mark = rows[i].mark /\ (rows[i].mark = NoMark => rows[j].id = rows[i].id)
  IN <<rows[i].mark, IF rows[i].mark = NoMark THEN rows[i].id ELSE 0,
       Cardinality({j \in 1 .. i : Same(j)})>>

\* A decision only has its evidence refreshed; any other opening is as the
\* document has it, and a row of no opening becomes one.
AsRead(row) == [row EXCEPT !.by = "pass", !.id = 0, !.hand = FALSE]

Imported(rows) ==
  LET Hit(k)    == {i \in DOMAIN rows : Key(rows, i) = Key(db, k)}
      Update(k) == IF Hit(k) = {} THEN db[k]
                   ELSE LET row == rows[CHOOSE i \in Hit(k) : TRUE]
                        IN IF _is_a_decision(db[k])
                           THEN [db[k] EXCEPT !.box = row.box, !.rowBox = row.rowBox, !.page = row.page]
                           ELSE AsRead(row)
      fresh     == {i \in DOMAIN rows : \A k \in DOMAIN db : Key(rows, i) # Key(db, k)}
  IN [k \in DOMAIN db |-> Update(k)]
       \o [n \in 1 .. Cardinality(fresh) |-> AsRead(rows[Sorted(fresh)[n]])]

import_extraction ==
  /\ pc = "import"
  /\ db' = Imported(_normalize_schedule_payload(file))
  /\ pc' = "idle"
  /\ UNCHANGED <<sheet, file, clone, runs, acts>>

-----------------------------------------------------------------------------
(* The estimator.                                                          *)

Acts == acts < MaxActs /\ acts' = acts + 1 /\ UNCHANGED <<sheet, clone>>

\* The first extraction of the bid.
Extract ==
  /\ pc = "idle" /\ runs = 0
  /\ runs' = 1
  /\ pc' = "seed"
  /\ UNCHANGED <<sheet, file, clone, db, acts>>

Adds(m) ==
  /\ Acts
  /\ db' = Append(db, Added(m, acts + 1))
  /\ UNCHANGED <<file, pc, runs>>

Confirms(i) ==
  /\ ~_is_a_decision(db[i])
  /\ Acts
  /\ db' = [db EXCEPT ![i].by = "person", ![i].id = acts + 1]
  /\ UNCHANGED <<file, pc, runs>>

\* export_line_items
Exported == Doc(db)

\* rerun_extraction: the openings are written down, and then the run is
\* refused when another job is active.
RerunExtraction ==
  /\ runs > 0 /\ runs < MaxRuns
  /\ file' = Exported
  /\ IF pc = "idle" THEN pc' = "seed" /\ runs' = runs + 1 /\ UNCHANGED acts
                    ELSE acts < MaxActs /\ acts' = acts + 1 /\ UNCHANGED <<pc, runs>>
  /\ UNCHANGED <<sheet, clone, db>>

Next ==
  \/ Extract \/ seed_door_schedule \/ Clones \/ Pass \/ Promotes \/ measure_bboxes
  \/ Gate \/ import_extraction \/ RerunExtraction
  \/ \E m \in Marks \cup {NoMark} : Adds(m)
  \/ \E i \in DOMAIN db : Confirms(i)

Spec == Init /\ [][Next]_vars

-----------------------------------------------------------------------------
(* Properties.                                                             *)

\* An opening of the document, but for the evidence it is shown with.
Carries(rows, row) ==
  \E i \in DOMAIN rows : /\ rows[i].mark = row.mark /\ rows[i].by = row.by
                        /\ rows[i].id = row.id /\ rows[i].hand = row.hand
Numbered(rows, i) == rows[i].mark # NoMark
                     /\ \A j \in DOMAIN rows \ {i} : rows[j].mark # rows[i].mark

TakeoffTypeOK ==
  /\ file \in Document /\ clone \in Document
  /\ db \in Seq(Row)
  /\ pc \in {"idle", "seed", "clone", "pass", "promote", "measure", "gate", "import"}

\* A reseed carries across every opening a person settled whose number is its
\* own, on the parsed page or not, even when the openings are written down
\* under it (pretakeoff.py:102-121).
SeedKeepsNumbered ==
  [][pc = "seed" => \A i \in DOMAIN GateRows(file) :
       GateRows(file)[i].by = "person" /\ Numbered(GateRows(file), i)
         => Carries(GateRows(file'), GateRows(file)[i])]_vars

\* No opening with an integer page of an upload comes out of an import with a
\* box that is not real, whatever the pass wrote, in whatever shape, and
\* whenever the openings were written down over the document, after the gate
\* passed another (geometry.py:21-130, artifacts.py:108-181, :517-571).
ImportedIsLocated ==
  \A i \in DOMAIN db :
    db[i].page = "whole" /\ BoxOf(db[i]) # "none" => BoxOf(db[i]) = "real"
=============================================================================
