------------------------------ MODULE Workspace ------------------------------
(***************************************************************************)
(* The scratch directory a Claude pass works in.  A claimed job clones the *)
(* bid's project tree, the pass writes into the clone, and what it wrote   *)
(* is promoted to the live tree file by file before the job is synced and  *)
(* finished.  The scratch is named by the job, the lease by the claim, and *)
(* nothing between the clone and the sync asks for the lease: this module  *)
(* is about the several claims of one job that share one scratch.          *)
(***************************************************************************)
EXTENDS Integers, FiniteSets

CONSTANTS
  MaxRuns,   \* bound: how often the job may be claimed
  Files,     \* allowlisted artifacts of the bid
  Quote,     \* priced/line_items.json, one of Files
  Budget,    \* how often each kind of disturbance may happen
  MaxKinds   \* bound: kinds of disturbance in one behaviour

Runs   == 1 .. MaxRuns
NoRun  == 0
Faults == {"crash", "stall", "export", "unprepared"}

VARIABLES
  live,     \* the artifacts and the audit trail of the live project tree
  scratch,  \* the same of the clone under _scratch/<job id>
  made,     \* FALSE when that clone does not exist
  job,      \* the job's status, and the claim that holds it
  pc,       \* where each claim stands
  base,     \* the artifacts each claim cloned
  wrote,    \* what each claim wrote, by file
  onLive,   \* claims whose prepare failed: their pass runs in the live tree
  rest,     \* what a promote has still to copy
  synced,   \* the artifacts the last sync read into the database
  budget    \* what is left of Budget

vars == <<live, scratch, made, job, pc, base, wrote, onLive, rest, synced, budget>>

-----------------------------------------------------------------------------

\* The content of a file: the claim that wrote it, or one of these.
Given  == 0   \* the estimator's, or an earlier job's
Empty  == -1  \* no lines in it
Absent == -2
Text   == {Absent, Empty, Given} \cup Runs
Tree   == [text: [Files -> Text], trail: SUBSET (Runs \cup {Given})]
Points == {"idle", "prepare", "work", "promote", "copy", "clean", "failed",
           "sync", "gone"}

Bare(trail)  == [text |-> [f \in Files |-> Absent], trail |-> trail]
Lines(text)  == text \notin {Absent, Empty}
HoldsLease(r) == job = [status |-> "running", run |-> r]
Alive(r)     == pc[r] \notin {"idle", "gone"}

Intact(fault) == budget[fault] = Budget[fault]
Spend(fault)  == /\ budget[fault] > 0
                 /\ Cardinality({f \in Faults \ {fault} : ~Intact(f)}) < MaxKinds
                 /\ budget' = [budget EXCEPT ![fault] = @ - 1]
Goto(r, p)   == pc' = [pc EXCEPT ![r] = p]

-----------------------------------------------------------------------------

\* The next claim of the job.  What those that are gone have read and written
\* is history, and forgotten.
Claim(r) ==
  /\ job.status = "queued"
  /\ r = job.run + 1
  /\ job' = [status |-> "running", run |-> r]
  /\ Goto(r, "prepare")
  /\ LET Kept(of) == [q \in Runs |-> IF pc[q] = "gone" THEN Bare({}).text ELSE of[q]]
     IN base' = Kept(base) /\ wrote' = Kept(wrote)
  /\ onLive' = [q \in Runs |-> onLive[q] /\ pc[q] # "gone"]
  /\ rest' = [q \in Runs |-> IF pc[q] = "gone" THEN {} ELSE rest[q]]
  /\ UNCHANGED <<live, scratch, made, synced, budget>>

\* Mutant: prepare() without its rmtree; copytree overlays what is there.
Overlay(r) ==
  /\ pc[r] = "prepare"
  /\ scratch' = [text |-> [f \in Files |-> IF live.text[f] = Absent /\ made
                                           THEN scratch.text[f] ELSE live.text[f]],
                 trail |-> live.trail]
  /\ made' = TRUE
  /\ base' = [base EXCEPT ![r] = live.text]
  /\ Goto(r, "work")
  /\ UNCHANGED <<live, job, wrote, onLive, rest, synced, budget>>

\* prepare: whatever the scratch of this job held is removed, and the live
\* tree is copied in.
prepare(r) ==
  /\ pc[r] = "prepare"
  /\ scratch' = live
  /\ made' = TRUE
  /\ base' = [base EXCEPT ![r] = live.text]
  /\ Goto(r, "work")
  /\ UNCHANGED <<live, job, wrote, onLive, rest, synced, budget>>

\* "sandbox prepare failed; running against the live project tree"
PrepareFails(r) ==
  /\ pc[r] = "prepare"
  /\ Spend("unprepared")
  /\ base' = [base EXCEPT ![r] = live.text]
  /\ onLive' = [onLive EXCEPT ![r] = TRUE]
  /\ Goto(r, "work")
  /\ UNCHANGED <<live, scratch, made, job, wrote, rest, synced>>

\* Claude writes an artifact, an empty quote among them, and the audit hook
\* appends a line to the trail.
Writes(r, f) ==
  /\ pc[r] = "work"
  /\ \E text \in {r} \cup (IF f = Quote THEN {Empty} ELSE {}) :
       LET Into(tree) == [text  |-> [tree.text EXCEPT ![f] = text],
                          trail |-> tree.trail \cup {r}]
       IN /\ wrote' = [wrote EXCEPT ![r][f] = text]
          /\ IF onLive[r]
               THEN live' = Into(live) /\ UNCHANGED <<scratch, made>>
               ELSE /\ scratch' = Into(IF made THEN scratch ELSE Bare({}))
                    /\ made' = TRUE
                    /\ UNCHANGED live
  /\ UNCHANGED <<job, pc, base, onLive, rest, synced, budget>>

\* The pass ends.  Only a successful one is promoted.
Succeeds(r) ==
  /\ pc[r] = "work"
  /\ Goto(r, IF onLive[r] THEN "sync" ELSE "promote")
  /\ UNCHANGED <<live, scratch, made, job, base, wrote, onLive, rest, synced, budget>>

Fails(r) ==
  /\ pc[r] = "work"
  /\ Goto(r, "failed")
  /\ UNCHANGED <<live, scratch, made, job, base, wrote, onLive, rest, synced, budget>>

\* Mutant: the retired status name.
FinishedAsFailed(r, statuses) ==
  IF HoldsLease(r) THEN job' = [job EXCEPT !.status = "failed"] ELSE UNCHANGED job

\* finish() of a failed pass, its scratch removed: retried or dead.  A claim
\* that lost the lease changes nothing.
Finished(r, statuses) ==
  IF HoldsLease(r) THEN \E s \in statuses : job' = [job EXCEPT !.status = s]
                   ELSE UNCHANGED job

Discards(r) ==
  /\ pc[r] = "failed"
  /\ IF onLive[r] THEN UNCHANGED <<scratch, made>>
                  ELSE scratch' = Bare({}) /\ made' = FALSE
  /\ Finished(r, {"queued", "dead"})
  /\ Goto(r, "gone")
  /\ UNCHANGED <<live, base, wrote, onLive, rest, synced, budget>>

\* promote() up to its loop: an empty quote does not go over one with lines.
\* Refused, the job dies and the scratch is left for recovery.
promote(r) ==
  /\ pc[r] = "promote"
  /\ IF made /\ scratch.text[Quote] = Empty /\ Lines(live.text[Quote])
       THEN Finished(r, {"dead"}) /\ Goto(r, "gone") /\ UNCHANGED rest
       ELSE /\ Goto(r, "copy")
            /\ rest' = [rest EXCEPT ![r] = IF made THEN Files ELSE {}]
            /\ UNCHANGED job
  /\ UNCHANGED <<live, scratch, made, base, wrote, onLive, synced, budget>>

\* _append_new_lines: the trail keeps its lines and gains the clone's.
_append_new_lines(tree) == live.trail \cup tree.trail

\* The loop: each artifact the clone has is copied over the live one.
Copies(r, f) ==
  /\ pc[r] = "copy"
  /\ f \in rest[r]
  /\ live' = [text  |-> IF scratch.text[f] = Absent THEN live.text
                        ELSE [live.text EXCEPT ![f] = scratch.text[f]],
              trail |-> IF made THEN _append_new_lines(scratch) ELSE live.trail]
  /\ rest' = [rest EXCEPT ![r] = @ \ {f}]
  /\ UNCHANGED <<scratch, made, job, pc, base, wrote, onLive, synced, budget>>

\* Mutant: the scratch goes while the loop still has files to copy.
CleansEarly(r) ==
  /\ pc[r] = "copy"
  /\ scratch' = Bare({})
  /\ made' = FALSE
  /\ Goto(r, "sync")
  /\ UNCHANGED <<live, job, base, wrote, onLive, rest, synced, budget>>

\* cleanup: the scratch of this job is removed, whoever works in it.
cleanup(r) ==
  /\ pc[r] = "copy"
  /\ rest[r] = {}
  /\ scratch' = Bare({})
  /\ made' = FALSE
  /\ Goto(r, "sync")
  /\ UNCHANGED <<live, job, base, wrote, onLive, rest, synced, budget>>

\* check_output and the import it allows, and finish().
Syncs(r) ==
  /\ pc[r] = "sync"
  /\ IF HoldsLease(r) THEN synced' = live.text ELSE UNCHANGED synced
  /\ Finished(r, {"done"})
  /\ Goto(r, "gone")
  /\ UNCHANGED <<live, scratch, made, base, wrote, onLive, rest, budget>>

-----------------------------------------------------------------------------

\* The worker process dies, and the scratch stays behind.
Crash(r) ==
  /\ Alive(r)
  /\ Spend("crash")
  /\ Goto(r, "gone")
  /\ UNCHANGED <<live, scratch, made, job, base, wrote, onLive, rest, synced>>

\* The reaper takes the job from a claim that is gone, or only silent.
Reap ==
  /\ job.status = "running"
  /\ IF Alive(job.run) THEN Spend("stall") ELSE UNCHANGED budget
  /\ \E s \in {"queued", "dead"} : job' = [job EXCEPT !.status = s]
  /\ UNCHANGED <<live, scratch, made, pc, base, wrote, onLive, rest, synced>>

\* export_quote_lines: continue-to-proposal writes the quote down to disk
\* before it asks whether a pass is running.
Export ==
  /\ Spend("export")
  /\ live' = [live EXCEPT !.text[Quote] = Given]
  /\ UNCHANGED <<scratch, made, job, pc, base, wrote, onLive, rest, synced>>

Init ==
  /\ \E text \in {[f \in Files |-> Absent], [f \in Files |-> Given]} :
       /\ live = [text |-> text, trail |-> {Given}]
       /\ synced = text
  /\ scratch = Bare({})
  /\ made = FALSE
  /\ job = [status |-> "queued", run |-> NoRun]
  /\ pc = [r \in Runs |-> "idle"]
  /\ base = [r \in Runs |-> Bare({}).text]
  /\ wrote = [r \in Runs |-> [f \in Files |-> Absent]]
  /\ onLive = [r \in Runs |-> FALSE]
  /\ rest = [r \in Runs |-> {}]
  /\ budget = Budget

Steps(r) == \/ Claim(r) \/ prepare(r) \/ Succeeds(r) \/ Fails(r) \/ Discards(r)
            \/ promote(r) \/ (\E f \in Files : Copies(r, f)) \/ cleanup(r) \/ Syncs(r)

Next == \/ \E r \in Runs : Steps(r) \/ PrepareFails(r) \/ Crash(r)
        \/ \E r \in Runs, f \in Files : Writes(r, f)
        \/ Reap \/ Export

Spec == Init /\ [][Next]_vars

-----------------------------------------------------------------------------
(* Properties.                                                             *)

WorkspaceTypeOK ==
  /\ live \in Tree /\ scratch \in Tree /\ made \in BOOLEAN
  /\ job \in [status: {"queued", "running", "done", "dead"}, run: Runs \cup {NoRun}]
  /\ pc \in [Runs -> Points]
  /\ base \in [Runs -> [Files -> Text]]
  /\ wrote \in [Runs -> [Files -> Text]]
  /\ onLive \in [Runs -> BOOLEAN]
  /\ rest \in [Runs -> SUBSET Files]
  /\ synced \in [Files -> Text]
  /\ budget \in [Faults -> Nat]

\* What a claim promotes it wrote itself or cloned from the bid: nothing of
\* an earlier claim of the job, crashed half way, comes back from the scratch
\* the two share.  (It does come back when the earlier worker is alive: then
\* both write to one directory, sandbox.py:76-81.)
IsolatedFromTheDead ==
  [][\A r \in Runs, f \in Files :
       Copies(r, f) /\ Intact("stall")
         => scratch.text[f] \in {wrote[r][f], base[r][f]}]_vars

\* The database is given what the job's last claim wrote, all of it, however
\* many claims crashed before it and wherever they crashed.
SyncedIsOwn ==
  job.status = "done" /\ Intact("stall") /\ Intact("export")
    => \A f \in Files : wrote[job.run][f] # Absent => synced[f] = wrote[job.run][f]

=============================================================================
