----------------------------- MODULE References -----------------------------
(***************************************************************************)
(* One family of reference data: the margin framework, or the table of tax *)
(* rates.  Its document lives in referenceData; every edit loads it,       *)
(* changes an entry and puts the whole back, after archiving what it found *)
(* there.  as_of answers what was in force when a bid was quoted.          *)
(*                                                                         *)
(* An edit runs on a thread of an API process: nothing keeps two apart,    *)
(* and the process may die between any two of its calls.                   *)
(***************************************************************************)
EXTENDS Integers, FiniteSets

CONSTANTS
  Keys,      \* entries of the document
  Values,    \* what an entry may say
  Seed,      \* the JSON seed: keys to values
  Families,  \* of "margins" and "tax", those looked at
  Edits,     \* edits, and boots that seed
  MaxQuotes, \* bound: quotes taken
  Budget     \* bound: crashes, and outages of MongoDB

VARIABLES
  family,
  stored,  \* the document; at is its updatedAt, 0 when there is none
  past,    \* referenceDataRevisions
  clock,
  up,      \* MongoDB answers
  edit,    \* where each edit stands, and what it has read
  quoted,  \* what quotes were priced with, while nobody was editing
  budget

vars == <<family, stored, past, clock, up, edit, quoted, budget>>

NoStamp == 0
NoDoc   == [at |-> NoStamp, data |-> Seed]
Idle    == [at |-> "idle", doc |-> Seed, stamp |-> NoStamp, previous |-> NoDoc]
Quiet   == \A e \in Edits : edit[e].at \in {"idle", "over"}

Init ==
  /\ family \in Families
  /\ stored = NoDoc
  /\ past = {}
  /\ clock = 0
  /\ up = TRUE
  /\ edit = [e \in Edits |-> Idle]
  /\ quoted = {}
  /\ budget = Budget

-----------------------------------------------------------------------------
(* Edits.                                                                  *)

\* get_family_sync without its cache: the seed file stands in for a document
\* that is not there, and for a database that does not answer.
Loaded == IF up /\ stored.at # NoStamp THEN stored.data ELSE Seed

\* Only bands the framework knows are taken.
update_margins(data, entry, v) ==
  IF entry \in DOMAIN data THEN {[data EXCEPT ![entry] = v]} ELSE {}

\* A jurisdiction is added or replaced.
update_tax_rates(data, entry, v) ==
  {[n \in DOMAIN data \cup {entry} |-> IF n = entry THEN v ELSE data[n]]}

delete_family_entry(data, entry) == {[n \in DOMAIN data \ {entry} |-> data[n]]}

Changed(data, entry, v) ==
  IF family = "margins" THEN update_margins(data, entry, v)
  ELSE update_tax_rates(data, entry, v) \cup delete_family_entry(data, entry)

Loads(e) ==
  /\ edit[e].at = "idle"
  /\ \E entry \in Keys, v \in Values : \E data \in Changed(Loaded, entry, v) :
       edit' = [edit EXCEPT ![e] = [@ EXCEPT !.at = "put", !.doc = data]]
  /\ UNCHANGED <<family, stored, past, clock, up, quoted, budget>>

\* A process that starts, and finds no document.
ensure_reference_seed(e) ==
  /\ edit[e].at = "idle"
  /\ up /\ stored.at = NoStamp
  /\ edit' = [edit EXCEPT ![e] = [@ EXCEPT !.at = "put", !.doc = Seed]]
  /\ UNCHANGED <<family, stored, past, clock, up, quoted, budget>>

\* put_family: the new document is stamped before the old one is looked at.
Stamps(e) ==
  /\ edit[e].at = "put"
  /\ clock' = clock + 1
  /\ edit' = [edit EXCEPT ![e] = [@ EXCEPT !.at = "find", !.stamp = clock + 1]]
  /\ UNCHANGED <<family, stored, past, up, quoted, budget>>

\* Mutant: a document that says the same is not worth a revision.
WorthArchiving(e, previous) ==
  previous.at # NoStamp /\ previous.data # edit[e].doc

Archivable(e, previous) == previous.at # NoStamp

Ends(e) == edit' = [edit EXCEPT ![e] = [Idle EXCEPT !.at = "over"]]

Finds(e) ==
  /\ edit[e].at = "find"
  /\ IF up
     THEN edit' = [edit EXCEPT ![e] =
            [@ EXCEPT !.at = IF Archivable(e, stored) THEN "archive" ELSE "replace",
                      !.previous = stored]]
     ELSE Ends(e)
  /\ UNCHANGED <<family, stored, past, clock, up, quoted, budget>>

_archive(e) ==
  /\ edit[e].at = "archive"
  /\ IF up
     THEN /\ past' = past \cup {[from |-> edit[e].previous.at, to |-> edit[e].stamp,
                                 data |-> edit[e].previous.data]}
          /\ edit' = [edit EXCEPT ![e].at = "replace"]
     ELSE Ends(e) /\ UNCHANGED past
  /\ UNCHANGED <<family, stored, clock, up, quoted, budget>>

put_family_sync(e) ==
  /\ edit[e].at = "replace"
  /\ IF up
     THEN /\ stored' = [at |-> edit[e].stamp, data |-> edit[e].doc]
     ELSE UNCHANGED stored
  /\ Ends(e)
  /\ UNCHANGED <<family, past, clock, up, quoted, budget>>

Spend(fault) == budget[fault] > 0 /\ budget' = [budget EXCEPT ![fault] = @ - 1]

Crash(e) ==
  /\ edit[e].at \notin {"idle", "over"}
  /\ Spend("crash")
  /\ Ends(e)
  /\ UNCHANGED <<family, stored, past, clock, up, quoted>>

Outage ==
  /\ IF up THEN Spend("outage") ELSE UNCHANGED budget
  /\ up' = ~up
  /\ UNCHANGED <<family, stored, past, clock, edit, quoted>>

-----------------------------------------------------------------------------
(* History.                                                                *)

\* revisions, oldest first, and the first that spans the moment.
Spanning(t) == {r \in past : r.from <= t /\ t <= r.to}

as_of(t) ==
  IF Spanning(t) = {} THEN Loaded
  ELSE (CHOOSE r \in Spanning(t) : \A s \in Spanning(t) : r.to <= s.to).data

\* A bid is priced with what is stored.
Quotes ==
  /\ up /\ stored.at # NoStamp /\ Quiet
  /\ Cardinality(quoted) < MaxQuotes
  /\ clock' = clock + 1
  /\ quoted' = quoted \cup {[at |-> clock + 1, data |-> stored.data]}
  /\ UNCHANGED <<family, stored, past, up, edit, budget>>

Next ==
  \/ \E e \in Edits : \/ Loads(e) \/ ensure_reference_seed(e) \/ Stamps(e) \/ Finds(e)
                      \/ _archive(e) \/ put_family_sync(e) \/ Crash(e)
  \/ Outage \/ Quotes

Spec == Init /\ [][Next]_vars

-----------------------------------------------------------------------------
(* Properties.                                                             *)

Document(data) == DOMAIN data \subseteq Keys /\ data \in [DOMAIN data -> Values]
Row(doc)       == doc.at \in 0 .. clock /\ Document(doc.data)

ReferencesTypeOK ==
  /\ Row(stored)
  /\ \A r \in past : r.from \in 0 .. clock /\ r.to \in 1 .. clock /\ Document(r.data)
  /\ \A e \in Edits : Document(edit[e].doc) /\ edit[e].stamp \in 0 .. clock
                      /\ Row(edit[e].previous)

\* What a bid was quoted with while nobody was editing can be asked for ever
\* after: through any later edits, one archiving under another, one that died
\* between the archive and the document, one that carries an earlier stamp
\* than the document it replaces (reference_store.py:219-231, 268-278).
HistoryAnswers == up => \A q \in quoted : as_of(q.at) = q.data
=============================================================================
