------------------------------- MODULE Intake -------------------------------
(***************************************************************************)
(* Uploads to one bid.  A request decides whether the bid has room for the *)
(* job it will queue, stores the file, looks for the same bytes on the bid, *)
(* freezes a version when the file is an addendum, and writes the document  *)
(* row and the job in one transaction.  An extract waits for the siblings   *)
(* of the file that queued it: every further upload pushes the start out,  *)
(* up to a ceiling.                                                        *)
(*                                                                         *)
(* The bid's one pipeline job is kept to its type, its status and its two   *)
(* deadlines; JobQueue and BidChain have the rest of it.                   *)
(***************************************************************************)
EXTENDS Versions, FiniteSetsExt

CONSTANTS
  Files,      \* bound: files the raw directory may come to hold
  Contents,   \* the bytes an upload may consist of
  Roles,      \* bound: the kinds each request may be of
  Nothing,    \* no content, no file
  Quiet,      \* ticks an upload delays the extract (DEFAULT_COALESCE_SECONDS)
  Ceiling,    \* ticks after which it starts whatever arrives (COALESCE_MAX_SECONDS)
  Backoff     \* ticks before a retried job is claimed again

\* What a request is: an upload of either kind, or create_version with a
\* document for the addendum pass to read, or without one.
Uploaded == {"plan", "addendum"}
Kinds == Uploaded \cup {"version", "freeze"}

ASSUME IntakeAssumption ==
  /\ Roles \in [Requests -> SUBSET Kinds]
  /\ Quiet \in Nat /\ Ceiling \in Nat /\ Backoff \in Nat
  /\ IsFiniteSet(Files)
  /\ Nothing \notin Files \cup Contents

VARIABLES
  raw,    \* content of each file of uploads/raw
  rows,   \* the document rows
  up,     \* what each request has in hand
  job     \* the newest pipeline job of the bid

vars == <<verVars, raw, rows, up, job>>
docVars == <<raw, rows, up, job>>

Type(kind) == IF kind = "plan" THEN "extract" ELSE "ingest"

\* due: ticks until the job may be claimed; left: until its ceiling.
Job == [type : {"extract", "ingest"},
        status : {"queued", "running", "cancelled", "ended"},
        due : Nat, left : Nat, number : Nat]

Active  == job.status \in {"queued", "running"}
Waiting == job.status = "queued" /\ job.type = "extract"
Rows    == [file : Files, content : Contents]
InHand  == [kind : Kinds, content : Contents \cup {Nothing}, file : Files \cup {Nothing}]
Unused  == {f \in Files : raw[f] = Nothing}
Points  == Steps \cup {"idle", "reserved", "cancel", "stored", "persist", "extend"}

\* A job that is over has no deadline to keep.
Over(status) ==
  [type |-> "extract", status |-> status, due |-> 0, left |-> 0, number |-> 0]

Cleared == [kind |-> "plan", content |-> Nothing, file |-> Nothing]

Init ==
  /\ VersionsInit
  /\ raw = [f \in Files |-> Nothing]
  /\ rows = {}
  /\ up = [r \in Requests |-> Cleared]
  /\ job = Over("ended")

Goto(r, there) == pc' = [pc EXCEPT ![r] = there]

\* The request is answered, or dead: what it had in hand is gone.
Leaves(r) == /\ Goto(r, "idle")
             /\ snap' = [snap EXCEPT ![r] = NoSnap]
             /\ up' = [up EXCEPT ![r] = Cleared]
             /\ UNCHANGED <<ver, asked>>

KeepsVersions  == UNCHANGED <<ver, snap, asked>>

-----------------------------------------------------------------------------
(* reserve: before anything is written.                                    *)

\* The bid is free for this upload, or an addendum finds a run that has not
\* started.  Any other run is a 409.
Reserves(r, kind) ==
  /\ pc[r] = "idle"
  /\ kind # "freeze"
  /\ up' = [up EXCEPT ![r] = [Cleared EXCEPT !.kind = kind]]
  /\ \/ /\ ~Active \/ job.type = Type(kind)
        /\ Goto(r, "reserved")
     \/ /\ Waiting /\ kind # "plan"
        /\ Goto(r, "cancel")
  /\ KeepsVersions /\ UNCHANGED <<raw, rows, job>>

\* The queued run gives way, unless a worker claimed it since it was read.
Supersedes(r) ==
  /\ pc[r] = "cancel"
  /\ IF Waiting
       THEN /\ job' = Over("cancelled")
            /\ Goto(r, "reserved") /\ KeepsVersions /\ UNCHANGED up
       ELSE UNCHANGED job /\ Leaves(r)
  /\ UNCHANGED <<raw, rows>>

-----------------------------------------------------------------------------
(* The file, and the row of the same content there may be already.         *)

\* unique_filename and receive_upload.  A body that is too large, not a PDF,
\* infected or unreadable is removed again: the request ends with no trace.
Receives(r, content) ==
  /\ pc[r] = "reserved" /\ up[r].kind \in Uploaded
  /\ \/ /\ Unused # {}
        /\ LET file == CHOOSE f \in Unused : TRUE
           IN /\ raw' = [raw EXCEPT ![file] = content]
              /\ up' = [up EXCEPT ![r].file = file, ![r].content = content]
        /\ Goto(r, "stored") /\ KeepsVersions
     \/ Leaves(r) /\ UNCHANGED raw
  /\ UNCHANGED <<rows, job>>

Known(content) == \E d \in rows : d.content = content

Unlinks(r) == [raw EXCEPT ![up[r].file] = Nothing]

\* Identical bytes: the new file goes, and an extract that still waits for
\* its siblings waits a little longer.
Duplicate(r) ==
  /\ pc[r] = "stored"
  /\ Known(up[r].content)
  /\ raw' = Unlinks(r)
  /\ IF Waiting /\ up[r].kind = "plan"
       THEN /\ up' = [up EXCEPT ![r] = Cleared]
            /\ Goto(r, "extend") /\ KeepsVersions
       ELSE Leaves(r)
  /\ UNCHANGED <<rows, job>>

\* Mutant: the quiet window without its ceiling.
Uncapped(j) == [j EXCEPT !.due = Quiet]

\* capped_next_attempt, of a job with no ceiling of its own counted from its
\* creation.
capped_next_attempt(j) == [j EXCEPT !.due = Min({Quiet, j.left})]

Extends(r) ==
  /\ pc[r] = "extend"
  /\ job' = IF Waiting THEN capped_next_attempt(job) ELSE job
  /\ Leaves(r)
  /\ UNCHANGED <<raw, rows>>

\* New bytes: on to the transaction, an addendum by way of a snapshot.
Fresh(r) ==
  /\ pc[r] = "stored"
  /\ ~Known(up[r].content)
  /\ IF up[r].kind = "addendum" THEN Room /\ Goto(r, "find") ELSE Goto(r, "persist")
  /\ KeepsVersions /\ UNCHANGED docVars

-----------------------------------------------------------------------------
(* _persist: the row, then enqueue_pipeline, together or not at all.       *)

\* Mutant: no unique index on the content.
AnyContent(r) == TRUE

\* The unique index on (projectId, contentSha).
FreeContent(r) == ~Known(up[r].content)

Ready(r) == /\ up[r].kind \in Uploaded
            /\ pc[r] = IF up[r].kind = "addendum" THEN "frozen" ELSE "persist"

Queued(kind, number) ==
  [type |-> Type(kind), status |-> "queued", number |-> number,
   due  |-> IF kind = "plan" THEN Min({Quiet, Ceiling}) ELSE 0,
   left |-> Ceiling]

Row(r) == [file |-> up[r].file, content |-> up[r].content]

\* A job of the type is there already: the upload joins it, pushing a queued
\* extract out (BidChain has the mark on a running one).  Otherwise a job of
\* its own.
enqueue_pipeline(r) ==
  /\ ~Active \/ job.type = Type(up[r].kind)
  /\ job' = CASE ~Active -> Queued(up[r].kind, IF up[r].kind # "plan"
                                               THEN snap[r].number ELSE 0)
              [] Waiting -> capped_next_attempt(job)
              [] OTHER -> job

Persists(r) ==
  /\ Ready(r)
  /\ FreeContent(r)
  /\ rows' = rows \cup {Row(r)}
  /\ enqueue_pipeline(r)
  /\ Leaves(r)
  /\ UNCHANGED raw

\* The transaction fails - the content was inserted first, another type of
\* job took the bid, the database is away: the file goes, the version stays.
Refused(r) ==
  /\ Ready(r)
  /\ raw' = Unlinks(r)
  /\ Leaves(r)
  /\ UNCHANGED <<rows, job>>

\* The process dies: the file stays and no row knows it.
Crashes(r) ==
  /\ pc[r] # "idle"
  /\ Leaves(r)
  /\ UNCHANGED <<raw, rows, job>>

-----------------------------------------------------------------------------
(* Around the uploads.                                                     *)

\* delete_document: the row goes, the file is retained.
Deletes(d) ==
  /\ rows' = rows \ {d}
  /\ UNCHANGED <<verVars, raw, up, job>>

\* An extract started by hand waits for nobody.
Reruns ==
  /\ ~Active
  /\ job' = [Queued("plan", 0) EXCEPT !.due = 0]
  /\ UNCHANGED <<verVars, raw, rows, up>>

Tick ==
  /\ job.due > 0 \/ job.left > 0
  /\ job' = [job EXCEPT !.due = IF @ > 0 THEN @ - 1 ELSE 0,
                        !.left = IF @ > 0 THEN @ - 1 ELSE 0]
  /\ UNCHANGED <<verVars, raw, rows, up>>

Claims ==
  /\ job.status = "queued" /\ job.due = 0
  /\ job' = [job EXCEPT !.status = "running"]
  /\ UNCHANGED <<verVars, raw, rows, up>>

\* A pass ends, or is put back for another attempt.
Ends ==
  /\ job.status = "running"
  /\ job' \in {Over("ended"),
               [job EXCEPT !.status = "queued", !.due = Backoff]}
  /\ UNCHANGED <<verVars, raw, rows, up>>

\* import_addendum: onto the version the job was queued with.
Diffs ==
  /\ job.status = "running" /\ job.type = "ingest"
  /\ job.number \in 1 .. Len(ver)
  /\ RecordsDiff(job.number)
  /\ UNCHANGED docVars

-----------------------------------------------------------------------------

Freezes(r) ==
  /\ Snapshot(r)
  /\ up' = IF pc'[r] = "idle" THEN [up EXCEPT ![r] = Cleared] ELSE up
  /\ UNCHANGED <<raw, rows, job>>

\* create_version: without a document nothing is reserved ...
AsksFreeze(r) ==
  /\ "freeze" \in Roles[r]
  /\ Asks(r)
  /\ up' = [up EXCEPT ![r] = [Cleared EXCEPT !.kind = "freeze"]]
  /\ UNCHANGED <<raw, rows, job>>

\* ... with one, the addendum pass is, before the snapshot,
AsksPass(r) ==
  /\ pc[r] = "reserved" /\ up[r].kind = "version"
  /\ Room
  /\ Goto(r, "find")
  /\ KeepsVersions /\ UNCHANGED docVars

\* and queued after it.  A 409, then or before, leaves the version.
QueuesPass(r) ==
  /\ pc[r] = "frozen" /\ up[r].kind = "version"
  /\ enqueue_pipeline(r)
  /\ Leaves(r)
  /\ UNCHANGED <<raw, rows>>

Frozen(r) ==
  /\ up[r].kind \in {"freeze", "version"}
  /\ Answers(r)
  /\ up' = [up EXCEPT ![r] = Cleared]
  /\ UNCHANGED <<raw, rows, job>>

Reviews == (\E n \in 1 .. Len(ver) : GuardsReconcile(n) \/ Reconciles(n))
           /\ UNCHANGED docVars

Uploads(r) ==
  \/ \E kind \in Roles[r] : Reserves(r, kind)
  \/ Supersedes(r) \/ Duplicate(r) \/ Extends(r) \/ Fresh(r)
  \/ \E content \in Contents : Receives(r, content)
  \/ Persists(r) \/ Refused(r) \/ Crashes(r)
  \/ AsksFreeze(r) \/ AsksPass(r) \/ Freezes(r) \/ QueuesPass(r) \/ Frozen(r)

Next ==
  \/ \E r \in Requests : Uploads(r)
  \/ \E d \in rows : Deletes(d)
  \/ Reruns \/ Tick \/ Claims \/ Ends \/ Diffs \/ Reviews

\* Time passes, and the workers poll.  Nothing is asked of the uploads.
Fairness == WF_vars(Tick) /\ WF_vars(Claims)

Spec == Init /\ [][Next]_vars /\ Fairness

-----------------------------------------------------------------------------
(* Properties.                                                             *)

\* Shape of the state, the versions' included.  Two uploads of the same bytes
\* never both become documents, though both may look for the content before
\* either inserts it (UploadDocument.py:75-107,
\* intake/infrastructure/collections.py:31-39).
IntakeTypeOK ==
  /\ VersionsTypeOK
  /\ pc \in [Requests -> Points]
  /\ raw \in [Files -> Contents \cup {Nothing}]
  /\ rows \subseteq Rows /\ \A d, e \in rows : d.content = e.content => d = e
  /\ up \in [Requests -> InHand]
  /\ job \in Job

\* A queued extract starts, however many uploads keep arriving: each pushes it
\* out, the ceiling does not move (jobs.py:82-93, 180-203).
QuietWindowEnds == job.status = "queued" ~> job.status # "queued"

=============================================================================
