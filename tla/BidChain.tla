------------------------------- MODULE BidChain -------------------------------
(***************************************************************************)
(* The saga of one bid: uploads that start an extract, the chain that      *)
(* autopilot builds from it (extract, price, propose), the PDFs that land  *)
(* while a pass runs, and chainState, which the board shows.               *)
(*                                                                         *)
(* JobQueue models how a job is claimed, lost and finished; here finish()  *)
(* is one step and the exclusive_active_job index is taken for granted:    *)
(* at most one of the bid's jobs is active.  What this module follows is   *)
(* what happens around those steps, each MongoDB write of a handler or of  *)
(* an after-hook being one action.                                         *)
(***************************************************************************)
EXTENDS Integers, FiniteSets

CONSTANTS
  Workers,   \* worker processes
  NoWorker,  \* workerId: None
  Takes,     \* the job types each worker claims: WORKER_CONTAINER splits them
  Docs,      \* PDFs the estimator may upload
  MaxJobs,   \* bound: jobs ever inserted for this bid
  Budget,    \* how often each kind of disturbance may happen
  Prompt,    \* the few writes of a hook are over before another pass is
  MaxKinds   \* bound: kinds of disturbance in one behaviour

Extracts  == {"extract_bid_set", "rerun_extraction"}
Types     == Extracts \cup {"match_and_price", "build_proposal"}
Jobs      == 1 .. MaxJobs
NoJob     == 0
Faults    == {"manual", "putback", "stall", "crash", "cancel", "retry", "mongo"}

ASSUME ChainAssumption ==
  /\ NoWorker \notin Workers
  /\ Takes \in [Workers -> SUBSET Types]
  /\ MaxJobs \in Nat
  /\ Budget \in [Faults -> Nat]
  /\ Prompt \in BOOLEAN
  /\ MaxKinds \in Nat

VARIABLES
  jobs,    \* the bid's pipeline jobs
  docs,    \* the uploads and the documents they become
  bid,     \* chainState and autopilot on the project document
  disk,    \* the live take-off: the PDFs it covers, and its review verdict
  pc,      \* where each worker stands
  hold,    \* the job a worker claimed, as the claim returned it
  seen,    \* the PDFs in the worker's clone of the project tree
  posts,   \* jobs retried, dead or announced whose chainState is still to be written
  budget   \* what is left of Budget

vars == <<jobs, docs, bid, disk, pc, hold, seen, posts, budget>>

-----------------------------------------------------------------------------

Statuses == {"absent", "queued", "running", "done", "dead", "cancelled"}
States   == {"idle", "extracting", "extraction_done", "extraction_needs_review",
             "pricing", "pricing_failed", "quoting", "quoting_failed",
             "complete", "awaiting_manual_retry"}
DocStates == {"absent", "reserved", "landed", "received", "read", "failed", "refused"}
Points   == {"idle", "start", "gate", "clone", "work", "check", "import", "mark",
             "verdict", "close", "stragglers", "advance", "offer", "insert",
             "announce", "blocked", "unread", "regroup", "bury"}

\* The points of a worker that has written a job's ending.
Hook == {"stragglers", "advance", "offer", "insert", "announce", "blocked",
         "unread", "regroup", "bury"}

NoType == "none"
Job    == [type: Types \cup {NoType}, status: Statuses, owner: Workers \cup {NoWorker},
           gen: Nat, orch: BOOLEAN, late: BOOLEAN, before: SUBSET Docs]
Held   == [job: Jobs \cup {NoJob}, gen: Nat, ok: BOOLEAN]

Absent  == [type |-> NoType, status |-> "absent", owner |-> NoWorker, gen |-> 0,
            orch |-> FALSE, late |-> FALSE, before |-> {}]
NoClaim == [job |-> NoJob, gen |-> 0, ok |-> FALSE]

\* START_STATE and FAIL_STATE.
START_STATE(type) == CASE type \in Extracts         -> "extracting"
                       [] type = "match_and_price"  -> "pricing"
                       [] type = "build_proposal"   -> "quoting"
FAIL_STATE(type)  == CASE type \in Extracts         -> "awaiting_manual_retry"
                       [] type = "match_and_price"  -> "pricing_failed"
                       [] type = "build_proposal"   -> "quoting_failed"
DISABLE_AUTOPILOT == {"pricing_failed", "quoting_failed", "awaiting_manual_retry"}
NEEDS_REVIEW      == "extraction_needs_review"

\* Mutant: the chain knows no state to advance from after pricing.
CanAdvanceOnce(type, state) == type \in Extracts /\ state = "extraction_done"

\* Mutant: a take-off that needs review advances like one that does not.
CanAdvancePastReview(type, state) ==
  \/ type \in Extracts /\ state \in {"extraction_done", NEEDS_REVIEW}
  \/ type = "match_and_price" /\ state = "pricing"

can_advance(type, state) ==
  \/ type \in Extracts /\ state = "extraction_done"
  \/ type = "match_and_price" /\ state = "pricing"

\* ORCHESTRATED_CHAIN; a re-run and the proposal have no successor.
next_in_chain(type) == CASE type = "extract_bid_set" -> "match_and_price"
                         [] type = "match_and_price" -> "build_proposal"
                         [] OTHER                    -> NoType

\* set_state: blind to what chainState was, and off goes autopilot on failure.
set_state(state) ==
  bid' = [state |-> state, auto |-> bid.auto /\ state \notin DISABLE_AUTOPILOT]

OnDisk   == {d \in Docs : docs[d].state \in {"landed", "received", "read", "failed"}}
Active   == {j \in Jobs : jobs[j].status \in {"queued", "running"}}
Clear(t) == \A j \in Active : jobs[j].type = t
Used     == {j \in Jobs : jobs[j].status # "absent"}
NextId    == Cardinality(Used) + 1

Intact(fault) == budget[fault] = Budget[fault]
Spend(fault)  == /\ budget[fault] > 0
                 /\ Cardinality({f \in Faults \ {fault} : ~Intact(f)}) < MaxKinds
                 /\ budget' = [budget EXCEPT ![fault] = @ - 1]
Goto(w, p)   == pc' = [pc EXCEPT ![w] = p]
Leaves(w)    == /\ Goto(w, "idle")
                /\ hold' = [hold EXCEPT ![w] = NoClaim]
                /\ seen' = [seen EXCEPT ![w] = {}]
Mine(w)      == jobs[hold[w].job]
Owns(w)      == Mine(w).owner = w /\ Mine(w).gen = hold[w].gen
HoldsLease(w) == Owns(w) /\ Mine(w).status = "running"
Drives(w, t) == Mine(w).type \in t

\* A job document as enqueue() inserts it.
New(type, orch) == [Absent EXCEPT !.type = type, !.status = "queued", !.orch = orch]

\* Mutant: the late upload joins the running pass without flagging it.
ForgetsStraggler(type, orch, delayed) ==
  IF Active = {} THEN NextId \in Jobs /\ jobs' = [jobs EXCEPT ![NextId] = New(type, orch)]
  ELSE UNCHANGED jobs

\* enqueue: insert, or hand back whatever is active - an extract that runs and
\* is asked for with a delay learns that PDFs are late (_mark_straggler).
enqueue(type, orch, delayed) ==
  \/ /\ Active = {}
     /\ NextId \in Jobs
     /\ jobs' = [jobs EXCEPT ![NextId] = New(type, orch)]
  \/ \E j \in Active :
       jobs' = IF delayed /\ jobs[j].type = type /\ jobs[j].status = "running"
               THEN [jobs EXCEPT ![j].late = TRUE] ELSE jobs

-----------------------------------------------------------------------------
(* Uploads and the estimator.                                              *)

\* upload_document up to reserve(): autopilot is read here and used later.
Reserves(d) ==
  /\ docs[d].state = "absent"
  /\ Clear("extract_bid_set")
  /\ docs' = [docs EXCEPT ![d] = [state |-> "reserved", auto |-> bid.auto]]
  /\ UNCHANGED <<jobs, bid, disk, pc, hold, seen, posts, budget>>

\* The file is in uploads/raw and uploadedAt is stamped.
Lands(d) ==
  /\ docs[d].state = "reserved"
  /\ docs' = [docs EXCEPT ![d].state = "landed"]
  /\ UNCHANGED <<jobs, bid, disk, pc, hold, seen, posts, budget>>

\* Mutant: without a replica set the row stays when the job is refused.
InsertsOutsideTransaction(d) ==
  /\ docs[d].state = "landed"
  /\ docs' = [docs EXCEPT ![d].state = "received"]
  /\ IF Clear("extract_bid_set")
       THEN enqueue("extract_bid_set", docs[d].auto, TRUE) ELSE UNCHANGED jobs
  /\ UNCHANGED <<bid, disk, pc, hold, seen, posts, budget>>

\* _persist: the document and its extract in one transaction ...
Inserts(d) ==
  /\ docs[d].state = "landed"
  /\ Clear("extract_bid_set")
  /\ docs' = [docs EXCEPT ![d].state = "received"]
  /\ enqueue("extract_bid_set", docs[d].auto, TRUE)
  /\ UNCHANGED <<bid, disk, pc, hold, seen, posts, budget>>

\* ... or neither, and the file is unlinked (PipelineJobActive).
Refused(d) ==
  /\ docs[d].state = "landed"
  /\ ~Clear("extract_bid_set")
  /\ docs' = [docs EXCEPT ![d].state = "refused"]
  /\ UNCHANGED <<jobs, bid, disk, pc, hold, seen, posts, budget>>

\* enqueue_pipeline from ContinueToQuote, RerunExtraction, ContinueToProposal.
Manual(type) ==
  /\ type # "extract_bid_set"
  /\ Spend("manual")
  /\ Clear(type)
  /\ enqueue(type, FALSE, FALSE)
  /\ UNCHANGED <<docs, bid, disk, pc, hold, seen, posts>>

\* StartAutopilot: enqueue_exclusive with orchestrate, and no delay.
StartAutopilot ==
  /\ Spend("manual")
  /\ Clear("extract_bid_set")
  /\ enqueue("extract_bid_set", TRUE, FALSE)
  /\ UNCHANGED <<docs, bid, disk, pc, hold, seen, posts>>

\* UpdateProject: the estimator switches autopilot.
SwitchAutopilot ==
  /\ Spend("manual")
  /\ bid' = [bid EXCEPT !.auto = ~@]
  /\ UNCHANGED <<jobs, docs, disk, pc, hold, seen, posts>>

\* CancelJob writes the job; the saga is not told.
Cancels(j) ==
  /\ Spend("cancel")
  /\ j \in Active
  /\ jobs' = [jobs EXCEPT ![j].status = "cancelled"]
  /\ UNCHANGED <<docs, bid, disk, pc, hold, seen, posts>>

\* RetryJob: back on the queue, and then JOB_REQUEUED is published.
Retries(j) ==
  /\ Spend("retry")
  /\ jobs[j].status = "dead"
  /\ Active = {}
  /\ jobs' = [jobs EXCEPT ![j].status = "queued", ![j].owner = NoWorker]
  /\ posts' = posts \cup {[job |-> j, state |-> START_STATE(jobs[j].type)]}
  /\ UNCHANGED <<docs, bid, disk, pc, hold, seen>>

\* on_job_requeued and the reaper's dead_letter: set_state, when they get to it.
Posts(p) ==
  /\ p \in posts
  /\ set_state(p.state)
  /\ posts' = posts \ {p}
  /\ UNCHANGED <<jobs, docs, disk, pc, hold, seen, budget>>

-----------------------------------------------------------------------------
(* A worker's pass.                                                        *)

\* claim_job: startedAt is now, so every file stamped so far is before it.
Claims(w, j) ==
  /\ pc[w] = "idle"
  /\ jobs[j].status = "queued"
  /\ jobs[j].type \in Takes[w]
  /\ jobs' = [jobs EXCEPT ![j].status = "running", ![j].owner = w,
                          ![j].gen = @ + 1, ![j].before = OnDisk]
  /\ hold' = [hold EXCEPT ![w] = [job |-> j, gen |-> jobs[j].gen + 1, ok |-> FALSE]]
  /\ Goto(w, "start")
  /\ UNCHANGED <<docs, bid, disk, seen, posts, budget>>

\* run_pass: START_STATE, before any gate is asked.
Starts(w) ==
  /\ pc[w] = "start"
  /\ set_state(START_STATE(Mine(w).type))
  /\ Goto(w, "gate")
  /\ UNCHANGED <<jobs, docs, disk, hold, seen, posts, budget>>

\* A deferral (parse gate), a retryable failure or a shutdown: the job goes
\* back on the queue while the claim is held, and nothing follows.
PutsBack(w) ==
  /\ pc[w] \in {"gate", "work"}
  /\ HoldsLease(w)
  /\ Spend("putback")
  /\ jobs' = [jobs EXCEPT ![hold[w].job].status = "queued", ![hold[w].job].owner = NoWorker]
  /\ Leaves(w)
  /\ UNCHANGED <<docs, bid, disk, posts>>

\* prepare() of a build refuses an unready delivery, that of an extract a bid
\* set over the page cap: the job is finished, permanently, before its pass.
Declines(w) ==
  /\ pc[w] = "gate"
  /\ ~Drives(w, {"match_and_price"})
  /\ Goto(w, "close")
  /\ UNCHANGED <<jobs, docs, bid, disk, hold, seen, posts, budget>>

\* The gates are open and the project tree is cloned.
Clones(w) ==
  /\ pc[w] = "gate"
  /\ seen' = [seen EXCEPT ![w] = OnDisk]
  /\ Goto(w, "work")
  /\ UNCHANGED <<jobs, docs, bid, disk, hold, posts, budget>>

\* The pass fails for good.
Fails(w) ==
  /\ pc[w] = "work"
  /\ Goto(w, "close")
  /\ UNCHANGED <<jobs, docs, bid, disk, hold, seen, posts, budget>>

\* The pass succeeds and is promoted; an extract leaves a take-off and, with
\* it, the verdict extraction_review_verdict() will read from disk.
Promotes(w) ==
  /\ pc[w] = "work"
  /\ Prompt => posts = {} /\ \A v \in Workers : pc[v] \notin Hook
  /\ IF Drives(w, Extracts)
       THEN \E review \in BOOLEAN : disk' = [covers |-> seen[w], review |-> review]
       ELSE UNCHANGED disk
  /\ Goto(w, "check")
  /\ UNCHANGED <<jobs, docs, bid, hold, seen, posts, budget>>

\* check_output: without the lease the output is discarded.
Checks(w) ==
  /\ pc[w] = "check"
  /\ IF ~HoldsLease(w) THEN Leaves(w)
     ELSE /\ Goto(w, IF Drives(w, Extracts) THEN "mark" ELSE "verdict")
          /\ UNCHANGED <<hold, seen>>
  /\ UNCHANGED <<jobs, docs, bid, disk, posts, budget>>

\* Mutant: every received document is marked, whenever it was uploaded.
MarksAll(w, state) ==
  docs' = [d \in Docs |-> IF docs[d].state = "received"
                          THEN [docs[d] EXCEPT !.state = state] ELSE docs[d]]

\* mark_received: the received documents uploaded no later than startedAt.
mark_received(w, state) ==
  docs' = [d \in Docs |-> IF docs[d].state = "received" /\ d \in Mine(w).before
                          THEN [docs[d] EXCEPT !.state = state] ELSE docs[d]]

Marks(w) ==
  /\ pc[w] = "mark"
  /\ mark_received(w, "read")
  /\ Goto(w, "verdict")
  /\ UNCHANGED <<jobs, bid, disk, hold, seen, posts, budget>>

\* The end of sync_results: the state that success leaves the bid in.  A
\* priced bid keeps "pricing", rewritten when every line is still manual.
Verdict(w) ==
  /\ pc[w] = "verdict"
  /\ \/ /\ Drives(w, Extracts)
        /\ set_state(IF disk.review THEN NEEDS_REVIEW ELSE "extraction_done")
     \/ Drives(w, {"match_and_price"}) /\ (set_state("pricing") \/ UNCHANGED bid)
     \/ Drives(w, {"build_proposal"}) /\ set_state("complete")
  /\ hold' = [hold EXCEPT ![w].ok = TRUE]
  /\ Goto(w, "close")
  /\ UNCHANGED <<jobs, docs, disk, seen, posts, budget>>

\* finish(): a cancelled or lost job is left alone, any other gets its ending
\* and its after-hook runs.
Finishes(w) ==
  /\ pc[w] = "close"
  /\ IF ~HoldsLease(w) THEN Leaves(w) /\ UNCHANGED jobs
     ELSE /\ jobs' = [jobs EXCEPT ![hold[w].job].status =
                                    IF hold[w].ok THEN "done" ELSE "dead"]
          /\ Goto(w, CASE hold[w].ok /\ Drives(w, Extracts) -> "stragglers"
                       [] hold[w].ok                        -> "advance"
                       [] Drives(w, Extracts)               -> "unread"
                       [] OTHER                             -> "bury")
          /\ UNCHANGED <<hold, seen>>
  /\ UNCHANGED <<docs, bid, disk, posts, budget>>

-----------------------------------------------------------------------------
(* After a done job: late PDFs first, and then autopilot's next step.      *)

Stragglers(w) ==
  \/ Mine(w).late
  \/ \E d \in Docs \ Mine(w).before : docs[d].state = "received"

\* _queue_straggler_reextract after a done extract.  Whatever enqueue() hands
\* back counts as the merge pass; if it raises, the chain goes on.
QueuesMerge(w) ==
  /\ pc[w] = "stragglers"
  /\ \/ /\ ~Stragglers(w)
        /\ Goto(w, "advance")
        /\ UNCHANGED <<jobs, hold, seen, budget>>
     \/ /\ Stragglers(w)
        /\ enqueue("extract_bid_set", Mine(w).orch, TRUE)
        /\ Leaves(w)
        /\ UNCHANGED budget
     \/ /\ Stragglers(w)
        /\ Spend("mongo")
        /\ Goto(w, "advance")
        /\ UNCHANGED <<jobs, hold, seen>>
  /\ UNCHANGED <<docs, bid, disk, posts>>

\* maybe_continue_chain up to its reading of the bid.
Advances(w) ==
  /\ pc[w] = "advance"
  /\ IF /\ Mine(w).orch
        /\ next_in_chain(Mine(w).type) # NoType
        /\ bid.auto
        /\ can_advance(Mine(w).type, bid.state)
       THEN Goto(w, "offer") /\ UNCHANGED <<hold, seen>>
       ELSE Leaves(w)
  /\ UNCHANGED <<jobs, docs, bid, disk, posts, budget>>

\* enqueue_exclusive reads the active job: one of another type is refused.
Offers(w) ==
  /\ pc[w] = "offer"
  /\ IF Clear(next_in_chain(Mine(w).type)) THEN Goto(w, "insert") ELSE Goto(w, "blocked")
  /\ UNCHANGED <<jobs, docs, bid, disk, hold, seen, posts, budget>>

\* enqueue(): the next job, or whatever has become active since.  A failure of
\* the database leaves only a note on the bid (_note_autopilot_break).
QueuesNext(w) ==
  /\ pc[w] = "insert"
  /\ \/ /\ enqueue(next_in_chain(Mine(w).type), TRUE, FALSE)
        /\ Goto(w, "announce")
        /\ UNCHANGED <<hold, seen, budget>>
     \/ /\ Spend("mongo")
        /\ Leaves(w)
        /\ UNCHANGED jobs
  /\ UNCHANGED <<docs, bid, disk, posts>>

\* Another write of the saga, and the worker is free.
Writes(w, p, state) ==
  /\ pc[w] = p
  /\ set_state(state)
  /\ Leaves(w)
  /\ UNCHANGED <<jobs, docs, disk, posts, budget>>

\* START_STATE of the job just queued, which may have been claimed by now.
Announces(w) == Writes(w, "announce", START_STATE(next_in_chain(Mine(w).type)))

Blocks(w)    == Writes(w, "blocked", "awaiting_manual_retry")

-----------------------------------------------------------------------------
(* After a dead job.                                                       *)

\* A dead extract: the documents it was reading have failed.
MarksFailed(w) ==
  /\ pc[w] = "unread"
  /\ mark_received(w, "failed")
  /\ Goto(w, "regroup")
  /\ UNCHANGED <<jobs, bid, disk, hold, seen, posts, budget>>

\* PDFs that came later still get their pass.
Regroups(w) ==
  /\ pc[w] = "regroup"
  /\ IF Stragglers(w) THEN enqueue("extract_bid_set", Mine(w).orch, TRUE) ELSE UNCHANGED jobs
  /\ Goto(w, "bury")
  /\ UNCHANGED <<docs, bid, disk, hold, seen, posts, budget>>

Buries(w) == Writes(w, "bury", FAIL_STATE(Mine(w).type))

-----------------------------------------------------------------------------
(* Crashes and the reaper.                                                 *)

\* The worker process dies, and starts again with nothing in hand.
Crashes(w) ==
  /\ pc[w] # "idle"
  /\ Spend("crash")
  /\ Leaves(w)
  /\ UNCHANGED <<jobs, docs, bid, disk, posts>>

InHand(j) == \E w \in Workers : hold[w].job = j /\ hold[w].gen = jobs[j].gen

\* reap_stale: a job whose worker is gone - or only silent, a stall - returns
\* to the queue, or dies for want of attempts; its hook never runs, and of the
\* bid only chainState is told.
Reaps(j) ==
  /\ jobs[j].status = "running"
  /\ IF InHand(j) THEN Spend("stall") ELSE UNCHANGED budget
  /\ \/ /\ jobs' = [jobs EXCEPT ![j].status = "queued", ![j].owner = NoWorker]
        /\ UNCHANGED posts
     \/ /\ jobs' = [jobs EXCEPT ![j].status = "dead"]
        /\ posts' = posts \cup {[job |-> j, state |-> FAIL_STATE(jobs[j].type)]}
  /\ UNCHANGED <<docs, bid, disk, pc, hold, seen>>

-----------------------------------------------------------------------------

Init ==
  /\ jobs = [j \in Jobs |-> Absent]
  /\ docs = [d \in Docs |-> [state |-> "absent", auto |-> FALSE]]
  /\ bid \in [state : {"idle"}, auto : BOOLEAN]
  /\ disk = [covers |-> {}, review |-> FALSE]
  /\ pc = [w \in Workers |-> "idle"]
  /\ hold = [w \in Workers |-> NoClaim]
  /\ seen = [w \in Workers |-> {}]
  /\ posts = {}
  /\ budget = Budget

Upload(d) == Reserves(d) \/ Lands(d) \/ Inserts(d) \/ Refused(d)

Pass(w) == \/ Starts(w) \/ Clones(w) \/ Promotes(w) \/ Checks(w) \/ Marks(w)
           \/ Verdict(w) \/ Finishes(w) \/ QueuesMerge(w) \/ Advances(w)
           \/ Offers(w) \/ QueuesNext(w) \/ Announces(w) \/ Blocks(w)
           \/ MarksFailed(w) \/ Regroups(w) \/ Buries(w)

TakesUp(w) == \E j \in Jobs : Claims(w, j)

Estimator == \/ \E type \in Types : Manual(type)
             \/ StartAutopilot
             \/ SwitchAutopilot
             \/ \E j \in Jobs : Cancels(j) \/ Retries(j)

Next == \/ \E d \in Docs : Upload(d)
        \/ \E w \in Workers : \/ TakesUp(w) \/ Pass(w) \/ PutsBack(w)
                              \/ Declines(w) \/ Fails(w) \/ Crashes(w)
        \/ \E j \in Jobs : Reaps(j)
        \/ \E p \in posts : Posts(p)
        \/ Estimator

\* The worker polls and its coroutine runs on; a crashed worker's job is
\* reaped; requests under way are answered.  Nothing makes the estimator act.
Fairness == /\ \A w \in Workers : WF_vars(TakesUp(w)) /\ WF_vars(Pass(w))
            /\ \A j \in Jobs : WF_vars(~InHand(j) /\ Reaps(j))
            /\ \A d \in Docs : WF_vars(Inserts(d) \/ Refused(d))
            /\ WF_vars(\E p \in posts : Posts(p))

Spec == Init /\ [][Next]_vars /\ Fairness

-----------------------------------------------------------------------------
(* Properties.                                                             *)

\* The shape of the state.
TypeOK ==
  /\ jobs \in [Jobs -> Job]
  /\ docs \in [Docs -> [state: DocStates, auto: BOOLEAN]]
  /\ bid \in [state: States, auto: BOOLEAN]
  /\ disk \in [covers: SUBSET Docs, review: BOOLEAN]
  /\ pc \in [Workers -> Points]
  /\ hold \in [Workers -> Held]
  /\ seen \in [Workers -> SUBSET Docs]
  /\ posts \subseteq [job: Jobs, state: States]
  /\ budget \in [Faults -> Nat]

\* A document shown as read is one the take-off on disk covers: mark_received
\* goes by startedAt, the take-off by the clone made later, and a merge pass
\* must not lose what an earlier pass read.  (A stalled worker can: it
\* promotes its older clone without asking for the lease.)  The shape of the
\* state is part of it.
ReadIsCovered ==
  /\ TypeOK
  /\ Intact("stall") => \A d \in Docs : docs[d].state = "read" => d \in disk.covers

ChainInserts(w, type) == /\ QueuesNext(w)
                         /\ NextId \in Jobs /\ jobs'[NextId].type = type
                         /\ jobs[NextId].type = NoType

\* Autopilot never starts pricing while a document of the bid, read or still
\* to be read, is missing from the take-off: a PDF that lands mid-pass is
\* merged first.  (Not so once its extract is cancelled, or once the merge
\* pass could not be queued: that exception is swallowed.)
MergedBeforePricing ==
  [][\A w \in Workers :
       ChainInserts(w, "match_and_price") /\ Intact("cancel") /\ Intact("mongo")
         => \A d \in Docs : docs[d].state \in {"received", "read"} => d \in disk.covers]_vars

\* Autopilot never starts pricing over a take-off that needs review, whatever
\* the order in which passes, merges, retries and crashes wrote chainState.
ReviewedBeforePricing ==
  [][\A w \in Workers :
       ChainInserts(w, "match_and_price") /\ Intact("stall") => ~disk.review]_vars

Broken(faults) == \E f \in faults : ~Intact(f)

Rested == \/ bid.state \in {"complete", NEEDS_REVIEW} \cup DISABLE_AUTOPILOT
          \/ ~bid.auto

\* The chain never stops silently: an orchestrated job of a bid on autopilot
\* leads to a finished draft or to a state that asks for the estimator, as
\* long as the estimator lets it run, no hook is lost to a crash and no enqueue
\* fails.
ChainRests ==
  (\E j \in Active : jobs[j].orch) ~> 
    Rested \/ Broken({"manual", "cancel", "crash", "mongo"})

\* Every uploaded document is read or failed in the end, whatever was running
\* when it landed, unless its pass was cancelled, lost or never queued.
DocumentsSettle ==
  \A d \in Docs :
    docs[d].state = "received"
      ~> \/ docs[d].state \in {"read", "failed"}
         \/ Broken({"manual", "cancel", "crash", "stall", "mongo"})
=============================================================================
