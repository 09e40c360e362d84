------------------------------- MODULE JobQueue -------------------------------
(***************************************************************************)
(* The job queue of ops: the documents of the jobs collection, the worker  *)
(* processes that claim, run, finish and reap them, and the estimator's    *)
(* cancel, supersede and retry.                                            *)
(*                                                                         *)
(* Each action is one MongoDB operation, because that is the unit another  *)
(* process can interleave with: finish() reads the job, then writes it,    *)
(* then calls a hook, and those are three actions here.                    *)
(*                                                                         *)
(* Time is abstract.  A backoff or delay is a job that is not due until    *)
(* ComesDue; a heartbeat older than stale_after_for() is one GoesStale     *)
(* has reached.  What the environment may do wrong is drawn from a budget, *)
(* so that a behaviour holds finitely many faults.                         *)
(***************************************************************************)
EXTENDS Integers, FiniteSets

CONSTANTS
  JobCount,     \* how many jobs may ever be inserted; ids follow createdAt
  Workers,      \* worker processes, WORKER_CONCURRENCY = 1
  NoWorker,     \* workerId: None
  Bids,         \* projects
  BidOf,        \* the project of each job
  Exclusive,    \* jobs whose type is in EXCLUSIVE_JOB_TYPES: Claude passes
  Waits,        \* jobs that must pass a further gate: parse, or catalog parse
  Claimable,    \* the jobs of CLAIMABLE_TYPES, for each worker
  MaxAttempts,  \* WORKER_MAX_ATTEMPTS
  UniqueIndex,  \* FALSE while exclusive_active_job is dropped for a rebuild
  MaxGen,       \* bound: a job of this generation does not come due any more
  Budget        \* how often each kind of disturbance may happen

Jobs   == 1 .. JobCount
NoJob  == 0
Faults == {"upload", "cancel", "retry", "crash", "stall", "stop", "mongo"}

ASSUME QueueAssumption ==
  /\ JobCount \in Nat
  /\ NoWorker \notin Workers
  /\ BidOf \in [Jobs -> Bids]
  /\ Exclusive \subseteq Jobs
  /\ Waits \subseteq Exclusive
  /\ Claimable \in [Workers -> SUBSET Jobs]
  /\ MaxAttempts \in Nat \ {0}
  /\ UniqueIndex \in BOOLEAN
  /\ MaxGen \in Nat
  /\ Budget \in [Faults -> Nat]

VARIABLES
  doc,         \* the jobs collection
  pc,          \* where each worker process stands
  run,         \* the document a worker claimed, as find_one_and_update returned it
  call,        \* the arguments of the finish() call under way
  todo,        \* what a reaper read and has not yet dealt with
  stopping,    \* _stop: SIGTERM has been received
  cancelling,  \* cancel requests that passed their status check
  told,        \* endings announced to the after-hooks and to dead_letter
  budget       \* what is left of Budget

vars == <<doc, pc, run, call, todo, stopping, cancelling, told, budget>>

-----------------------------------------------------------------------------

Statuses == {"absent", "queued", "running", "done", "dead", "cancelled"}
Beats    == {"none", "fresh", "stale"}

JobDoc == [status: Statuses, worker: Workers \cup {NoWorker}, gen: Nat,
           attempts: Int, beat: Beats, due: BOOLEAN]
Claims == [job: Jobs \cup {NoJob}, gen: Nat, attempts: Int]
Kinds  == {"none", "ok", "fail", "permanent", "cancelled"}
Calls  == [kind: Kinds, rescue: BOOLEAN]
Ending == [job: Jobs, status: Statuses]

\* The points of the worker loop at which it holds a claimed job in hand.
Holding == {"gateRead", "waitRead", "gateDefer", "work", "shutRead",
            "shutWrite", "finRead", "finCancel", "finWrite", "after"}
Points  == Holding \cup {"down", "idle", "sweep", "reap", "bury"}

NoDoc   == [status |-> "absent", worker |-> NoWorker, gen |-> 0,
            attempts |-> 0, beat |-> "none", due |-> FALSE]
NoClaim == [job |-> NoJob, gen |-> 0, attempts |-> 0]
NoCall  == [kind |-> "none", rescue |-> FALSE]
Rescue  == [kind |-> "fail", rescue |-> TRUE]

Active(j) == doc[j].status \in {"queued", "running"}

\* The other jobs that exclude j: EXCLUSIVE types on the same bid.
Rivals(j) ==
  IF j \in Exclusive THEN {k \in Exclusive \ {j} : BidOf[k] = BidOf[j]} ELSE {}

\* Mutant: the partial index covers running jobs only.
IndexAllowsQueued(j) == UniqueIndex => \A k \in Rivals(j) : doc[k].status # "running"

\* exclusive_active_job lets a write make j active (else DuplicateKeyError).
IndexAllows(j) == UniqueIndex => \A k \in Rivals(j) : ~Active(k)

\* owns_job: workerId and claimGeneration still match; status is not asked.
Owns(w) == /\ doc[run[w].job].worker = w
           /\ doc[run[w].job].gen = run[w].gen

\* holds_lease: the same, and the job is still running.
HoldsLease(w) == Owns(w) /\ doc[run[w].job].status = "running"

\* Mutant: one attempt too many.
RetryableOnceMore(w) == call[w].kind = "fail" /\ run[w].attempts <= MaxAttempts

Retryable(w) == call[w].kind = "fail" /\ run[w].attempts < MaxAttempts

\* The status finish() decides on.
EndStatus(w) ==
  IF call[w].kind = "ok" THEN "done"
  ELSE IF Retryable(w) THEN "queued" ELSE "dead"

\* A job back on the queue, free of its worker.
Returned(d, attempts, due) ==
  [d EXCEPT !.status = "queued", !.attempts = attempts, !.worker = NoWorker,
            !.beat = "none", !.due = due]

Goto(w, point) == pc' = [pc EXCEPT ![w] = point]

\* The claimed job goes out of scope.
Forgets(w) == /\ run' = [run EXCEPT ![w] = NoClaim]
              /\ call' = [call EXCEPT ![w] = NoCall]
Leaves(w)  == Goto(w, "idle") /\ Forgets(w)

Put(j, d)      == doc' = [doc EXCEPT ![j] = d]
Spend(fault)   == /\ budget[fault] > 0
                  /\ budget' = [budget EXCEPT ![fault] = @ - 1]

Local == <<run, call, todo, stopping>>  \* a worker's memory
Bid   == <<cancelling, told, budget>>   \* everything beyond the queue itself

-----------------------------------------------------------------------------
(* The queue and the clock.                                                *)

\* enqueue: insert_one, or hand back the active job when the index refuses.
Enqueue(j) ==
  /\ doc[j].status = "absent"
  /\ IndexAllows(j)
  /\ \E due \in BOOLEAN : Put(j, [NoDoc EXCEPT !.status = "queued", !.due = due])
  /\ UNCHANGED <<pc, Local, Bid>>

\* extend_queued_coalesce: a further upload pushes a queued run out, never past
\* coalesceUntil - so only so often.
Extend(j) ==
  /\ j \in Exclusive /\ doc[j].status = "queued"
  /\ Spend("upload")
  /\ Put(j, [doc[j] EXCEPT !.due = FALSE])
  /\ UNCHANGED <<pc, Local, cancelling, told>>

\* nextAttemptAt passes.
ComesDue(j) ==
  /\ doc[j].status = "queued" /\ ~doc[j].due
  /\ doc[j].gen < MaxGen
  /\ Put(j, [doc[j] EXCEPT !.due = TRUE])
  /\ UNCHANGED <<pc, Local, Bid>>

Attended(j) == \E w \in Workers : /\ pc[w] \in Holding
                                  /\ run[w].job = j /\ Owns(w)

\* stale_after_for() passes without a beat.  With nobody behind the claim that
\* only takes time; with a live worker behind it, it takes a stall.
GoesStale(j) ==
  /\ doc[j].status = "running" /\ doc[j].beat = "fresh"
  /\ Put(j, [doc[j] EXCEPT !.beat = "stale"])
  /\ IF Attended(j) THEN Spend("stall") ELSE UNCHANGED budget
  /\ UNCHANGED <<pc, Local, cancelling, told>>

-----------------------------------------------------------------------------
(* The worker loop: claim, or reap when there is nothing to claim.         *)

Candidates(w) ==
  {j \in Claimable[w] : doc[j].status = "queued" /\ doc[j].due}

\* Mutant: a claim does not advance the fencing token.
ClaimedSameGen(w, j) ==
  [doc[j] EXCEPT !.status = "running", !.beat = "fresh", !.worker = w,
                 !.attempts = @ + 1]

Claimed(w, j) ==
  [doc[j] EXCEPT !.status = "running", !.beat = "fresh", !.worker = w,
                 !.gen = @ + 1, !.attempts = @ + 1]

\* claim: the oldest due job of this worker's domain, atomically.
Claim(w) ==
  /\ pc[w] = "idle" /\ ~stopping[w]
  /\ \E j \in Candidates(w) :
       /\ \A k \in Candidates(w) : j <= k
       /\ Put(j, Claimed(w, j))
       /\ run' = [run EXCEPT ![w] = [job |-> j, gen |-> Claimed(w, j).gen,
                                     attempts |-> Claimed(w, j).attempts]]
       /\ Goto(w, IF j \in Exclusive THEN "gateRead" ELSE "work")
  /\ UNCHANGED <<call, todo, stopping, Bid>>

NothingDue(w) ==
  /\ pc[w] = "idle" /\ ~stopping[w]
  /\ Candidates(w) = {}
  /\ Goto(w, "sweep")
  /\ UNCHANGED <<doc, Local, Bid>>

Exits(w) ==
  /\ pc[w] = "idle" /\ stopping[w]
  /\ Goto(w, "down")
  /\ stopping' = [stopping EXCEPT ![w] = FALSE]
  /\ UNCHANGED <<doc, run, call, todo, Bid>>

\* Mutants: heartbeats are not looked at; a stale one is overlooked.
AnyRunning == {j \in Jobs : doc[j].status = "running"}
NeverBeaten == {j \in Jobs : doc[j].status = "running" /\ doc[j].beat = "none"}

\* reap_abandoned, the find: running jobs with a stale heartbeat or none.
Abandoned == {j \in Jobs : doc[j].status = "running" /\ doc[j].beat # "fresh"}

Sweep(w) ==
  /\ pc[w] = "sweep"
  /\ todo' = [todo EXCEPT ![w] =
       {[job |-> j, gen |-> doc[j].gen, attempts |-> doc[j].attempts] : j \in Abandoned}]
  /\ Goto(w, IF Abandoned = {} THEN "idle" ELSE "reap")
  /\ UNCHANGED <<doc, run, call, stopping, Bid>>

NextReap(rest) == IF rest = {} THEN "idle" ELSE "reap"

\* reap_abandoned, one update: guarded on the generation the find read, not on
\* the heartbeat, so a job that has beaten since is reaped all the same.
Reap(w) ==
  /\ pc[w] = "reap"
  /\ \E r \in todo[w] :
       LET fenced == doc[r.job].status = "running" /\ doc[r.job].gen = r.gen
           retry  == r.attempts < MaxAttempts
       IN /\ todo' = [todo EXCEPT ![w] = @ \ {r}]
          /\ \/ /\ fenced /\ retry
                /\ Put(r.job, [Returned(doc[r.job], doc[r.job].attempts, TRUE)
                                 EXCEPT !.gen = @ + 1])
                /\ Goto(w, NextReap(todo[w] \ {r}))
                /\ UNCHANGED run
             \/ /\ fenced /\ ~retry
                /\ Put(r.job, [doc[r.job] EXCEPT !.status = "dead", !.beat = "none",
                                 !.worker = NoWorker, !.gen = @ + 1])
                /\ Goto(w, "bury")
                /\ run' = [run EXCEPT ![w] = r]
             \/ /\ ~fenced
                /\ Goto(w, NextReap(todo[w] \ {r}))
                /\ UNCHANGED <<doc, run>>
  /\ UNCHANGED <<call, stopping, Bid>>

Announce(w, status) ==
  told' = told \cup {[job |-> run[w].job, status |-> status]}

\* Mutant: the reaper tells nobody.
BuryQuietly(w) ==
  /\ pc[w] = "bury"
  /\ Goto(w, NextReap(todo[w]))
  /\ Forgets(w)
  /\ UNCHANGED <<doc, todo, stopping, Bid>>

\* dead_letter after a reap; the type's own after-hook is not called.
Bury(w) ==
  /\ pc[w] = "bury"
  /\ Announce(w, "dead")
  /\ Goto(w, NextReap(todo[w]))
  /\ Forgets(w)
  /\ UNCHANGED <<doc, todo, stopping, cancelling, budget>>

-----------------------------------------------------------------------------
(* Running a claimed job.                                                  *)

\* Mutant: a job waits only for older ones.
OlderRivals(j) == {k \in Rivals(j) : doc[k].status = "running" /\ k < j}

RunningRivals(j) == {k \in Rivals(j) : doc[k].status = "running"}

\* defer_if_bid_busy, the find.
GateRead(w) ==
  /\ pc[w] = "gateRead"
  /\ Goto(w, IF RunningRivals(run[w].job) # {} THEN "gateDefer"
             ELSE IF run[w].job \in Waits THEN "waitRead" ELSE "work")
  /\ UNCHANGED <<doc, Local, Bid>>

\* defer_if_parsing and defer_if_catalog_parsing, the finds.  What they look at
\* is not the queue's: see ParseGate.
WaitRead(w) ==
  /\ pc[w] = "waitRead"
  /\ \E point \in {"gateDefer", "work"} : Goto(w, point)
  /\ UNCHANGED <<doc, Local, Bid>>

\* The update of every gate: back on the queue, the attempt refunded.
GateDefer(w) ==
  /\ pc[w] = "gateDefer"
  /\ IF HoldsLease(w)
       THEN LET d == doc[run[w].job]
            IN Put(run[w].job, Returned(d, d.attempts - 1, FALSE))
       ELSE UNCHANGED doc
  /\ Leaves(w)
  /\ UNCHANGED <<todo, stopping, Bid>>

\* heartbeat_once.
Beat(w) ==
  /\ pc[w] = "work"
  /\ Owns(w)
  /\ doc[run[w].job].beat # "fresh"
  /\ Put(run[w].job, [doc[run[w].job] EXCEPT !.beat = "fresh"])
  /\ UNCHANGED <<pc, Local, Bid>>

Ends(w, kind, rescue, point) ==
  /\ pc[w] = "work"
  /\ call' = [call EXCEPT ![w] = [kind |-> kind, rescue |-> rescue]]
  /\ Goto(w, point)
  /\ UNCHANGED <<doc, run, todo, stopping, Bid>>

\* The work succeeds, and so does its sync.
Succeeds(w) == Ends(w, "ok", FALSE, "finRead")

\* It fails, in the pass, in its sync, or for good (an exception in `permanent`).
Fails(w) == \E kind \in {"fail", "permanent"} : Ends(w, kind, FALSE, "finRead")

\* The handler itself raises, and run_claimed finishes the job for it.
Raises(w) == Ends(w, "fail", TRUE, "finRead")

\* watch_cancel or a poll reads "cancelled": whoever's claim it is by now.
SeesCancel(w) ==
  /\ pc[w] = "work"
  /\ doc[run[w].job].status = "cancelled"
  /\ Ends(w, "cancelled", FALSE, "finRead")

\* SIGTERM stops a Claude pass through the cancel event, so that it reports
\* "cancelled by estimator"; a pass that failed just then goes the same way.
Interrupted(w) ==
  /\ pc[w] = "work"
  /\ stopping[w] /\ run[w].job \in Exclusive
  /\ \E kind \in {"cancelled", "fail", "permanent"} : Ends(w, kind, FALSE, "shutRead")

\* requeue_for_shutdown, the find; False falls through to finish().
ShutRead(w) ==
  /\ pc[w] = "shutRead"
  /\ Goto(w, IF Owns(w) /\ doc[run[w].job].status # "cancelled"
             THEN "shutWrite" ELSE "finRead")
  /\ UNCHANGED <<doc, Local, Bid>>

\* A write that would make the job active again raises when a rival is active.
Clashes(w) == Owns(w) /\ ~Active(run[w].job) /\ ~IndexAllows(run[w].job)

\* run_claimed rescues the first exception with a finish() of its own.
Escapes(w) ==
  IF call[w].rescue
    THEN Leaves(w)
    ELSE /\ Goto(w, "finRead")
         /\ call' = [call EXCEPT ![w] = Rescue]
         /\ UNCHANGED run

\* requeue_for_shutdown, the update: guarded on the claim, not on the status.
ShutWrite(w) ==
  /\ pc[w] = "shutWrite"
  /\ \/ Clashes(w) /\ Escapes(w) /\ UNCHANGED doc
     \/ /\ ~Clashes(w)
        /\ IF Owns(w)
             THEN LET d == doc[run[w].job]
                  IN Put(run[w].job, Returned(d, d.attempts - 1, TRUE))
             ELSE UNCHANGED doc
        /\ Leaves(w)
  /\ UNCHANGED <<todo, stopping, Bid>>

-----------------------------------------------------------------------------
(* finish().                                                               *)

\* The find, and the three ways out of finish() that depend on it.
FinRead(w) ==
  /\ pc[w] = "finRead"
  /\ LET cancelled == doc[run[w].job].status = "cancelled" IN
       \/ /\ cancelled \/ (call[w].kind # "cancelled" /\ ~Owns(w))
          /\ Leaves(w)
       \/ /\ ~cancelled /\ call[w].kind = "cancelled"
          /\ Goto(w, "finCancel")
          /\ UNCHANGED <<run, call>>
       \/ /\ ~cancelled /\ call[w].kind # "cancelled" /\ Owns(w)
          /\ Goto(w, "finWrite")
          /\ UNCHANGED <<run, call>>
  /\ UNCHANGED <<doc, todo, stopping, Bid>>

\* error == "cancelled by estimator": an update filtered on _id alone.
FinCancel(w) ==
  /\ pc[w] = "finCancel"
  /\ Put(run[w].job, [doc[run[w].job] EXCEPT !.status = "cancelled"])
  /\ Leaves(w)
  /\ UNCHANGED <<todo, stopping, Bid>>

\* Mutant: the update is filtered on _id alone.
FinUpdateById(w) ==
  Put(run[w].job, [doc[run[w].job] EXCEPT !.status = EndStatus(w),
                     !.beat = "none", !.due = ~Retryable(w)])

\* The update finish() makes, guarded on the claim.
FinUpdate(w) ==
  IF Owns(w)
    THEN Put(run[w].job, [doc[run[w].job] EXCEPT !.status = EndStatus(w),
                            !.beat = "none", !.due = ~Retryable(w)])
    ELSE UNCHANGED doc

\* Its result is not looked at: what follows, follows whether or not it matched.
FinWrite(w) ==
  /\ pc[w] = "finWrite"
  /\ LET raises == EndStatus(w) = "queued" /\ Clashes(w) IN
       \/ raises /\ Escapes(w) /\ UNCHANGED doc
       \/ /\ ~raises
          /\ FinUpdate(w)
          /\ Goto(w, "after")
          /\ UNCHANGED <<run, call>>
  /\ UNCHANGED <<todo, stopping, Bid>>

\* The after-hook of the job's type, unless the job will run again.
After(w) ==
  /\ pc[w] = "after"
  /\ IF Retryable(w) THEN UNCHANGED told ELSE Announce(w, EndStatus(w))
  /\ Leaves(w)
  /\ UNCHANGED <<doc, todo, stopping, cancelling, budget>>

\* MongoDB fails finish() or its hook: run_claimed calls finish() once more,
\* and when that fails too the job is left as it is.
MongoFails(w) ==
  /\ \/ pc[w] \in {"finRead", "finCancel", "finWrite"}
     \/ pc[w] = "after" /\ ~Retryable(w)
  /\ Spend("mongo")
  /\ Escapes(w)
  /\ UNCHANGED <<doc, todo, stopping, cancelling, told>>

-----------------------------------------------------------------------------
(* Processes come and go.                                                  *)

Crash(w) ==
  /\ pc[w] # "down"
  /\ Spend("crash")
  /\ Goto(w, "down")
  /\ Forgets(w)
  /\ todo' = [todo EXCEPT ![w] = {}]
  /\ stopping' = [stopping EXCEPT ![w] = FALSE]
  /\ UNCHANGED <<doc, cancelling, told>>

\* The container restarts; the loop reaps once before it claims.
Restart(w) ==
  /\ pc[w] = "down"
  /\ Goto(w, "sweep")
  /\ UNCHANGED <<doc, Local, Bid>>

\* SIGTERM.
Stop(w) ==
  /\ pc[w] # "down" /\ ~stopping[w]
  /\ Spend("stop")
  /\ stopping' = [stopping EXCEPT ![w] = TRUE]
  /\ UNCHANGED <<doc, pc, run, call, todo, cancelling, told>>

-----------------------------------------------------------------------------
(* The estimator.                                                          *)

\* cancel_job, the find and its 409.
CancelRead(j) ==
  /\ Active(j) /\ j \notin cancelling
  /\ Spend("cancel")
  /\ cancelling' = cancelling \cup {j}
  /\ UNCHANGED <<doc, pc, Local, told>>

\* cancel_job, the update: whatever the job has become since.
CancelWrite(j) ==
  /\ j \in cancelling
  /\ Put(j, [doc[j] EXCEPT !.status = "cancelled"])
  /\ cancelling' = cancelling \ {j}
  /\ UNCHANGED <<pc, Local, told, budget>>

\* reserve: an addendum takes the slot of a job that is still queued.
Supersede(j) ==
  /\ j \in Exclusive /\ doc[j].status = "queued"
  /\ Spend("cancel")
  /\ Put(j, [doc[j] EXCEPT !.status = "cancelled"])
  /\ UNCHANGED <<pc, Local, cancelling, told>>

\* cancel_active_for_project: a bid is deleted with whatever is active on it.
CancelActive(j) ==
  /\ Active(j)
  /\ Spend("cancel")
  /\ Put(j, [doc[j] EXCEPT !.status = "cancelled"])
  /\ UNCHANGED <<pc, Local, cancelling, told>>

\* retry: a dead job back on the queue unless a rival is active.
Retry(j) ==
  /\ doc[j].status = "dead"
  /\ IndexAllows(j)
  /\ Spend("retry")
  /\ Put(j, Returned(doc[j], 0, TRUE))
  /\ UNCHANGED <<pc, Local, cancelling, told>>

-----------------------------------------------------------------------------

Init ==
  /\ doc = [j \in Jobs |-> NoDoc]
  /\ pc = [w \in Workers |-> "down"]
  /\ run = [w \in Workers |-> NoClaim]
  /\ call = [w \in Workers |-> NoCall]
  /\ todo = [w \in Workers |-> {}]
  /\ stopping = [w \in Workers |-> FALSE]
  /\ cancelling = {}
  /\ told = {}
  /\ budget = Budget

\* What a worker process does of its own accord.
Loop(w) ==
  \/ Claim(w) \/ NothingDue(w) \/ Exits(w) \/ Sweep(w) \/ Reap(w) \/ Bury(w)
  \/ GateRead(w) \/ WaitRead(w) \/ GateDefer(w)
  \/ Succeeds(w) \/ Fails(w) \/ Raises(w) \/ SeesCancel(w) \/ Interrupted(w)
  \/ ShutRead(w) \/ ShutWrite(w)
  \/ FinRead(w) \/ FinCancel(w) \/ FinWrite(w) \/ After(w)

Disturb(w) == Crash(w) \/ Stop(w) \/ MongoFails(w)

Estimator(j) ==
  \/ Enqueue(j) \/ Extend(j) \/ Retry(j)
  \/ CancelRead(j) \/ CancelWrite(j) \/ Supersede(j) \/ CancelActive(j)

Clock(j) == ComesDue(j) \/ GoesStale(j)

Next ==
  \/ \E w \in Workers : Loop(w) \/ Beat(w) \/ Restart(w) \/ Disturb(w)
  \/ \E j \in Jobs : Estimator(j) \/ Clock(j)

Spec == Init /\ [][Next]_vars

\* Every pass is bounded by a timeout and every container is restarted
\* (restart: unless-stopped), so workers keep moving; time passes; a request
\* that has begun is completed.  Nobody has to enqueue, cancel or retry.
Fairness ==
  /\ \A w \in Workers : WF_vars(Loop(w)) /\ WF_vars(Restart(w))
  /\ \A j \in Jobs : WF_vars(ComesDue(j)) /\ WF_vars(CancelWrite(j))
                     /\ WF_vars(~Attended(j) /\ GoesStale(j))

FairSpec == Spec /\ Fairness

-----------------------------------------------------------------------------
(* Safety.                                                                 *)

InHand == \A w \in Workers : pc[w] \in Holding \cup {"bury"} => run[w].job \in Jobs

\* Every variable has its type, and whoever runs or buries a job has one.
TypeOK ==
  /\ doc \in [Jobs -> JobDoc]
  /\ pc \in [Workers -> Points]
  /\ run \in [Workers -> Claims]
  /\ InHand
  /\ call \in [Workers -> Calls]
  /\ todo \in [Workers -> SUBSET [job: Jobs, gen: Nat, attempts: Int]]
  /\ stopping \in [Workers -> BOOLEAN]
  /\ cancelling \subseteq Jobs
  /\ told \subseteq Ending
  /\ budget \in [Faults -> Nat]

\* However claims, reaps, deferrals, shutdowns, late finishes and operator
\* retries interleave, a job is never queued with its attempts spent, never
\* refunded an attempt it did not spend, and never claimed more than
\* WORKER_MAX_ATTEMPTS times without an operator asking for it.
AttemptsBounded ==
  \A j \in Jobs : /\ doc[j].attempts \in 0 .. MaxAttempts
                  /\ doc[j].status = "queued" => doc[j].attempts < MaxAttempts

\* claimGeneration is a fencing token: two workers that both believe they run
\* a job hold different generations of it, and a worker still holding the
\* job's current generation has the newest claim there is.
ClaimsFenced ==
  \A v, w \in Workers :
     (v # w /\ pc[v] \in Holding /\ pc[w] \in Holding /\ run[v].job = run[w].job)
       => /\ run[v].gen # run[w].gen
          /\ Owns(w) => run[v].gen < run[w].gen

\* exclusive_active_job: no interleaving of retries, requeues, late finishes
\* and inserts leaves two active pipeline jobs on one bid.
OneActivePerBid ==
  UniqueIndex => \A j, k \in Jobs : k \in Rivals(j) => ~(Active(j) /\ Active(k))

\* defer_if_bid_busy: two workers never work on one bid at the same time, even
\* with the unique index away, as long as no heartbeat is lost and no run is
\* cancelled under its worker.
OneSessionPerBid ==
  \A v, w \in Workers :
     (v # w /\ pc[v] = "work" /\ pc[w] = "work")
       => run[v].job # run[w].job /\ run[w].job \notin Rivals(run[v].job)

\* finish() calls the hook only for an ending: a job announced as done is done,
\* not queued or running again.
AnnouncedIsDone ==
  \A e \in told : e.status = "done" => doc[e.job].status = "done"

\* worker.md: a worker that was declared dead and then wakes up cannot write
\* over its replacement's work.  While a worker runs a job and still holds the
\* newest claim on it, the job stays "running": no late finish, shutdown or
\* hook of an older claim takes it away.
ReplacementUndisturbed ==
  \A w \in Workers :
    (/\ pc[w] \in {"gateRead", "waitRead", "gateDefer", "work"}
     /\ doc[run[w].job].worker = w /\ doc[run[w].job].gen = run[w].gen)
      => doc[run[w].job].status = "running"

-----------------------------------------------------------------------------
(* The inductive invariant behind AttemptsBounded, ClaimsFenced and          *)
(* OneActivePerBid.                                                          *)

\* A claim in hand is not ahead of its job, and was itself a legal attempt.
ClaimsBehind ==
  \A w \in Workers : pc[w] \in Holding =>
    /\ run[w].gen <= doc[run[w].job].gen
    /\ run[w].attempts \in 1 .. MaxAttempts

\* Two claims in hand on one job are different claims.
ClaimsDistinct ==
  \A v, w \in Workers :
    (v # w /\ pc[v] \in Holding /\ pc[w] \in Holding /\ run[v].job = run[w].job)
      => run[v].gen # run[w].gen

\* While a claim is the newest, the job's attempts are the claim's.
OwnersCount ==
  \A w \in Workers : (pc[w] \in Holding /\ Owns(w))
                       => doc[run[w].job].attempts = run[w].attempts

\* What a reaper read is not ahead of the job, and still holds where it may act.
SweepsBehind ==
  \A w \in Workers : \A r \in todo[w] :
    /\ r.gen <= doc[r.job].gen
    /\ (doc[r.job].status = "running" /\ doc[r.job].gen = r.gen)
         => doc[r.job].attempts = r.attempts

\* A job not yet inserted has no history.
AbsentBlank == \A j \in Jobs : doc[j].status = "absent" => doc[j] = NoDoc

IInv ==
  /\ TypeOK /\ AbsentBlank /\ AttemptsBounded /\ OneActivePerBid
  /\ ClaimsBehind /\ ClaimsDistinct /\ OwnersCount /\ SweepsBehind

-----------------------------------------------------------------------------
(* The queue implements leases (ClaimLease): a session is a worker with a    *)
(* claimed job in hand.                                                      *)

Lease == INSTANCE ClaimLease WITH
  status  <- [j \in Jobs |-> doc[j].status],
  gen     <- [j \in Jobs |-> doc[j].gen],
  session <- [w \in Workers |-> IF pc[w] \in Holding
                                 THEN <<run[w].job, run[w].gen>> ELSE <<>>]

\* Whatever crashes, stalls, deferrals and operator retries happen, a job
\* changes status only by a grant, by the newest claim's own settlement, by a
\* revocation that fences the claim first, or by an operator's retry.
ImplementsLease == Lease!Spec

-----------------------------------------------------------------------------
(* Liveness, under FairSpec.                                               *)

\* Every queued or running job comes to an end, whatever finitely many crashes,
\* stops, cancels and MongoDB failures do to it: a job left "running" by a dead
\* worker, or by a finish() that failed twice, is reaped and run again.
EveryJobEnds ==
  \A j \in Jobs : Active(j) ~> ~Active(j)

Unharmed == \A f \in {"crash", "mongo"} : budget[f] = Budget[f]

\* A job that is done or dead is announced - to its after-hook, or to
\* dead_letter by the reaper - unless it is put back on the queue first or the
\* hook is lost to a crash or a MongoDB failure, which nothing repairs.
EndingsTold ==
  \A j \in Jobs, s \in {"done", "dead"} :
    (doc[j].status = s /\ Unharmed)
      ~> ([job |-> j, status |-> s] \in told \/ doc[j].status # s \/ ~Unharmed)

=============================================================================
