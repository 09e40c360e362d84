---------------------------- MODULE BidChainProofs ----------------------------
(***************************************************************************)
(* The saga of one bid keeps its take-off, its documents and its chain     *)
(* together, for any number of workers, PDFs, jobs and disturbances.       *)
(*                                                                         *)
(* None of the three properties is inductive.  That a document marked read *)
(* is covered by the take-off needs what the pass's clone holds from the   *)
(* claim on; that pricing waits for every PDF needs the extract that a late*)
(* PDF has queued; that it waits for the review needs who may write        *)
(* chainState.  All of it rests on there being one extract pass at a time. *)
(***************************************************************************)
EXTENDS BidChain, FiniteSetTheorems, TLAPS

\* The compose file runs one worker container with WORKER_CONCURRENCY 1 that
\* claims extracts.
OneExtractor ==
  \A v, w \in Workers :
    (Takes[v] \cap Extracts # {} /\ Takes[w] \cap Extracts # {}) => v = w

-----------------------------------------------------------------------------
(* The inductive invariant: the jobs.                                      *)

\* A job not yet inserted is blank, any other has a type.
Blank ==
  \A j \in Jobs : IF jobs[j].status = "absent" THEN jobs[j] = Absent
                                               ELSE jobs[j].type \in Types

\* Ids are given out in order, so that NextId is always free.
InOrder == \E n \in 0 .. MaxJobs : Used = 1 .. n

OneActive == \A j, k \in Active : j = k

Registry == jobs \in [Jobs -> Job] /\ Blank /\ InOrder /\ OneActive

Within == \A f \in Faults : budget[f] <= Budget[f]

\* A worker with a pass in hand has a job of a type it claims.
Claimed ==
  \A w \in Workers : pc[w] # "idle" =>
    /\ hold[w].job \in Jobs
    /\ Mine(w).status # "absent"
    /\ Mine(w).type \in Takes[w]

\* Some points belong to an extract, some to a job that has a successor.
Placed ==
  \A w \in Workers :
    /\ pc[w] \in {"mark", "stragglers", "unread", "regroup"} => Drives(w, Extracts)
    /\ pc[w] \in {"offer", "insert", "announce"} => next_in_chain(Mine(w).type) # NoType

Shape == TypeOK /\ Blank /\ InOrder /\ OneActive /\ Within /\ Claimed /\ Placed

\* The points between a claim and the ending of the job.
PassPoints == {"start", "gate", "work", "check", "mark", "verdict", "close"}

\* startedAt comes after the uploadedAt of every file it is later compared to.
Before ==
  \A j \in Jobs : \A d \in jobs[j].before : docs[d].state \notin {"absent", "reserved"}

\* Nobody loses a lease but to the estimator or to a stall.
Leased ==
  Intact("stall") /\ Intact("cancel") =>
    \A w \in Workers : pc[w] \in PassPoints => HoldsLease(w)

Base == Shape /\ Before /\ Leased

-----------------------------------------------------------------------------
(* The inductive invariant: the take-off.                                  *)

Undisputed == OneExtractor \/ (Intact("stall") /\ Intact("cancel"))

ClonePoints == {"work", "check", "mark"}

\* The clone holds what the claim found on disk ...
Cloned ==
  \A w \in Workers : pc[w] \in ClonePoints /\ Mine(w).type \in Extracts =>
    \A d \in Mine(w).before : docs[d].state = "refused" \/ d \in seen[w]

\* ... and every document that was read before.
Keeps ==
  \A w \in Workers : pc[w] = "work" /\ Mine(w).type \in Extracts =>
    \A d \in Docs : docs[d].state = "read" => d \in seen[w]

\* Between promotion and mark_received the take-off is this pass's.
Promoted ==
  \A w \in Workers : pc[w] \in {"check", "mark"} /\ Mine(w).type \in Extracts =>
    disk.covers = seen[w]

Covered == \A d \in Docs : docs[d].state = "read" => d \in disk.covers

Coverage == Undisputed => Cloned /\ Keeps /\ Promoted /\ Covered

-----------------------------------------------------------------------------
(* The inductive invariant: the chain.                                     *)

LatePoints  == {"verdict", "close", "stragglers", "advance", "offer", "insert"}
ChainPoints == {"advance", "offer", "insert"}

\* What has not come to its verdict is not known to be good.
Unjudged ==
  \A w \in Workers : pc[w] \in PassPoints \ {"close"} => ~hold[w].ok

\* The chain goes on after a done job only, and done is for good.
Ended ==
  \A w \in Workers :
    pc[w] \in {"stragglers", "advance", "offer", "insert", "announce", "blocked"}
      => Mine(w).status = "done"

\* The only extract under way is the one in hand.
Sole ==
  \A w \in Workers : pc[w] # "idle" /\ Mine(w).type \in Extracts =>
    \A j \in Jobs : jobs[j].type \in Extracts /\ jobs[j].status = "running" => j = hold[w].job

\* From its promotion to the end of its hook the take-off is the extract's own.
StillCloned ==
  \A w \in Workers :
    (pc[w] \in LatePoints /\ Mine(w).type \in Extracts /\ (pc[w] = "close" => hold[w].ok)) =>
      /\ disk.covers = seen[w]
      /\ \A d \in Mine(w).before : docs[d].state = "refused" \/ d \in seen[w]

\* A PDF that lands after the hook looked for stragglers has queued an extract,
\* which nobody can claim before the hook is over.
Gathered ==
  \A w \in Workers :
    (pc[w] \in ChainPoints /\ Mine(w).type \in Extracts /\ Intact("cancel") /\ Intact("mongo")) =>
      \/ \A d \in Docs : docs[d].state = "received" => d \in disk.covers
      \/ \E j \in Active : jobs[j].type \in Extracts

\* No delayed write to chainState says extraction_done.
PlainPosts == \A p \in posts : p.state # "extraction_done"

ReviewPoints == {"gate", "work", "check", "mark", "verdict"}

\* chainState says extraction_done only of a take-off that needs no review.
DoneIsReviewed == bid.state = "extraction_done" => ~disk.review

\* Until its verdict an extract keeps chainState away from extraction_done.
NoVerdictYet ==
  \A w \in Workers : pc[w] \in ReviewPoints /\ Mine(w).type \in Extracts
    => bid.state # "extraction_done"

\* Past maybe_continue_chain's look at chainState, the take-off stays as it is.
AdvancedReviewed ==
  \A w \in Workers : pc[w] \in {"offer", "insert"} /\ Mine(w).type \in Extracts => ~disk.review

Reviewing == DoneIsReviewed /\ NoVerdictYet /\ AdvancedReviewed

IInv ==
  /\ Shape /\ Before /\ Leased /\ Coverage
  /\ Unjudged /\ Ended /\ PlainPosts
  /\ OneExtractor => Sole /\ StillCloned /\ Gathered /\ Reviewing

-----------------------------------------------------------------------------
(* The jobs: what a job may become, and what each step writes.             *)

LEMMA StateTypes ==
  ASSUME NEW t \in Types
  PROVE  /\ START_STATE(t) \in States \ {"extraction_done"}
         /\ FAIL_STATE(t) \in States \ {"extraction_done"}
         /\ next_in_chain(t) \in Types \cup {NoType}
  BY DEF Types, Extracts, START_STATE, FAIL_STATE, next_in_chain, States, NoType

LEMMA AbsentType == Absent \in Job
  BY DEF Absent, Job, Statuses, NoType

LEMMA NewType ==
  ASSUME NEW t \in Types, NEW o \in BOOLEAN
  PROVE  /\ New(t, o) \in Job
         /\ New(t, o).type = t /\ New(t, o).status = "queued"
         /\ New(t, o).before = {} /\ New(t, o).orch = o
  BY DEF New, Absent, Job, Statuses, NoType

\* The next id is that of the first job not yet inserted.
LEMMA NextIsFree ==
  ASSUME Registry, NextId \in Jobs
  PROVE  jobs[NextId] = Absent /\ Used \cup {NextId} = 1 .. NextId
<1>1. PICK n \in 0 .. MaxJobs : Used = 1 .. n
  BY DEF Registry, InOrder
<1>2. NextId = n + 1
  <2>1. n \in Nat
    BY <1>1, ChainAssumption
  <2>2. Cardinality(1 .. n) = n
    BY <2>1, FS_Interval
  <2> QED
    BY <1>1, <2>2 DEF NextId
<1>3. NextId \notin Used
  BY <1>1, <1>2
<1>4. jobs[NextId].status = "absent"
  BY <1>3 DEF Used
<1> QED
  BY <1>1, <1>2, <1>4, ChainAssumption DEF Registry, Blank

\* A job is not the other's: what a step leaves of a job that was inserted.
Kept(j) == /\ jobs'[j].type = jobs[j].type /\ jobs'[j].status # "absent"
           /\ jobs'[j].orch = jobs[j].orch

Same(j) == /\ Kept(j) /\ jobs'[j].status = jobs[j].status /\ jobs'[j].owner = jobs[j].owner
           /\ jobs'[j].gen = jobs[j].gen /\ jobs'[j].before = jobs[j].before

Inserted(t, o) == /\ Active = {} /\ NextId \in Jobs /\ jobs[NextId] = Absent
                  /\ jobs' = [jobs EXCEPT ![NextId] = New(t, o)]

LEMMA AmendKeeps ==
  ASSUME Registry, NEW j \in Used, NEW d \in Job,
         d.type = jobs[j].type, d.status # "absent", d.orch = jobs[j].orch,
         d.status \in {"queued", "running"} => j \in Active \/ Active = {},
         jobs' = [jobs EXCEPT ![j] = d]
  PROVE  Registry' /\ \A k \in Used : Kept(k)
<1>0. j \in Jobs /\ jobs[j].status # "absent"
  BY DEF Used
<1>1. jobs' \in [Jobs -> Job]
  BY DEF Registry, Used
<1>2. Blank' /\ Used' = Used
  BY <1>0 DEF Registry, Blank, Used
<1>3. OneActive'
  BY <1>0 DEF Registry, OneActive, Active
<1> QED
  BY <1>0, <1>1, <1>2, <1>3 DEF Registry, InOrder, Kept, Used

LEMMA EnqueueKeeps ==
  ASSUME Registry, NEW t \in Types, NEW o \in BOOLEAN, NEW l \in BOOLEAN,
         enqueue(t, o, l)
  PROVE  /\ Registry' /\ \A k \in Used : Kept(k)
         /\ Inserted(t, o) \/ \A k \in Jobs : Same(k) \/ (jobs[k] = Absent /\ jobs'[k] = Absent)
<1>1. CASE Active = {} /\ NextId \in Jobs /\ jobs' = [jobs EXCEPT ![NextId] = New(t, o)]
  <2>1. jobs[NextId] = Absent /\ Used \cup {NextId} = 1 .. NextId
    BY <1>1, NextIsFree
  <2>2. Inserted(t, o)
    BY <1>1, <2>1 DEF Inserted
  <2>3. /\ New(t, o) \in Job /\ New(t, o).type = t /\ New(t, o).status = "queued"
    BY NewType
  <2>4. Blank' /\ jobs' \in [Jobs -> Job] /\ Used' = Used \cup {NextId}
    BY <1>1, <2>3 DEF Registry, Blank, Used
  <2>5. InOrder'
    BY <1>1, <2>1, <2>4, ChainAssumption DEF InOrder, Jobs
  <2>6. OneActive'
    BY <1>1, <2>3 DEF Registry, OneActive, Active
  <2>7. \A k \in Used : Kept(k)
    BY <1>1, <2>1 DEF Used, Kept, Absent
  <2> QED
    BY <2>2, <2>4, <2>5, <2>6, <2>7 DEF Registry
<1>2. CASE \E j \in Active :
             jobs' = IF l /\ jobs[j].type = t /\ jobs[j].status = "running"
                     THEN [jobs EXCEPT ![j].late = TRUE] ELSE jobs
  <2>1. PICK j \in Active :
             jobs' = IF l /\ jobs[j].type = t /\ jobs[j].status = "running"
                     THEN [jobs EXCEPT ![j].late = TRUE] ELSE jobs
    BY <1>2
  <2>2. j \in Used
    BY DEF Active, Used
  <2>3. [jobs[j] EXCEPT !.late = TRUE] \in Job
    BY <2>2 DEF Registry, Used, Job
  <2>4. \/ jobs' = jobs 
        \/ jobs' = [jobs EXCEPT ![j] = [jobs[j] EXCEPT !.late = TRUE]]
    BY <2>1
  <2>5. \A k \in Jobs : Same(k) \/ (jobs[k] = Absent /\ jobs'[k] = Absent)
    BY <2>2, <2>3, <2>4 DEF Same, Kept, Registry, Blank, Used, Job
  <2>6. CASE jobs' = jobs
    <3>1. Registry'
      BY <2>6 DEF Registry, Blank, InOrder, OneActive, Used, Active
    <3>2. \A k \in Used : Kept(k)
      BY <2>6 DEF Kept, Used
    <3> QED
      BY <2>5, <3>1, <3>2
  <2>7. CASE jobs' = [jobs EXCEPT ![j] = [jobs[j] EXCEPT !.late = TRUE]]
    <3> DEFINE d == [jobs[j] EXCEPT !.late = TRUE]
    <3>1. d.type = jobs[j].type /\ d.status = jobs[j].status /\ d.orch = jobs[j].orch
      BY <2>2 DEF Job, Registry, Used
    <3>2. d.status # "absent"
      BY <2>2, <3>1 DEF Used
    <3> HIDE DEF d
    <3>3. Registry' /\ \A k \in Used : Kept(k)
      BY <2>2, <2>3, <2>7, <3>1, <3>2, AmendKeeps DEF d
    <3> QED
      BY <2>5, <3>3
  <2> QED
    BY <2>4, <2>5, <2>6, <2>7
<1> QED
  BY <1>1, <1>2 DEF enqueue

\* The steps that write the jobs, and what they write.
Enqueues == \E t \in Types, o, l \in BOOLEAN : enqueue(t, o, l)

Amends(j) ==
  \E d \in Job : /\ d.type = jobs[j].type /\ d.status # "absent" /\ d.orch = jobs[j].orch
                 /\ d.status \in {"queued", "running"} => j \in Active \/ Active = {}
                 /\ jobs' = [jobs EXCEPT ![j] = d]

LEMMA InHandIsUsed ==
  ASSUME Shape, NEW w \in Workers, pc[w] # "idle"
  PROVE  /\ hold[w].job \in Used /\ Mine(w) \in Job /\ Mine(w).type \in Types
         /\ hold[w] \in Held
<1>1. hold[w].job \in Jobs /\ Mine(w).status # "absent"
  BY DEF Shape, Claimed
<1> QED
  BY <1>1 DEF Shape, TypeOK, Used, Blank, Mine

LEMMA AmendedType ==
  ASSUME NEW d \in Job, NEW s \in Statuses, NEW v \in Workers \cup {NoWorker}, NEW g \in Nat,
         NEW b \in SUBSET Docs
  PROVE  /\ [d EXCEPT !.status = s] \in Job
         /\ [d EXCEPT !.status = s, !.owner = v] \in Job
         /\ [d EXCEPT !.status = s, !.owner = v, !.gen = g, !.before = b] \in Job
  BY Zenon DEF Job

LEMMA AmendsOne ==
  ASSUME Shape, NEW j \in Used,
         \/ \E w \in Workers : Claims(w, j)
         \/ \E w \in Workers : hold[w].job = j /\ PutsBack(w)
         \/ \E w \in Workers : hold[w].job = j /\ Finishes(w) /\ HoldsLease(w)
         \/ Cancels(j) \/ Retries(j) \/ Reaps(j)
  PROVE  Amends(j)
<1>0. j \in Jobs /\ jobs[j] \in Job
  BY DEF Used, Shape, TypeOK
<1>1. ASSUME NEW w \in Workers, Claims(w, j) PROVE Amends(j)
  <2> DEFINE d == [jobs[j] EXCEPT !.status = "running", !.owner = w, !.gen = @ + 1,
                                  !.before = OnDisk]
  <2>1. "running" \in Statuses /\ jobs[j].gen + 1 \in Nat /\ OnDisk \in SUBSET Docs
    BY <1>0 DEF Statuses, Job, OnDisk
  <2>2. d \in Job
    BY <1>0, <2>1, AmendedType
  <2>3. d.type = jobs[j].type /\ d.status = "running" /\ d.orch = jobs[j].orch
    BY <1>0 DEF Job
  <2>4. jobs' = [jobs EXCEPT ![j] = d] /\ j \in Active
    BY <1>0, <1>1 DEF Claims, Shape, TypeOK, Active
  <2> HIDE DEF d
  <2> QED
    BY <2>2, <2>3, <2>4 DEF Amends
<1>2. ASSUME NEW d \in Job, d.type = jobs[j].type, d.orch = jobs[j].orch,
             d.status \in {"queued", "done", "dead", "cancelled"},
             jobs' = [jobs EXCEPT ![j] = d],
             d.status = "queued" => j \in Active \/ Active = {}
      PROVE  Amends(j)
  BY <1>2 DEF Amends
<1>3. ASSUME NEW w \in Workers, hold[w].job = j, PutsBack(w) PROVE Amends(j)
  <2> DEFINE d == [jobs[j] EXCEPT !.status = "queued", !.owner = NoWorker]
  <2>1. d \in Job
    BY <1>0, AmendedType DEF Statuses
  <2>2. d.type = jobs[j].type /\ d.status = "queued" /\ d.orch = jobs[j].orch
    BY <1>0 DEF Job
  <2>3. jobs' = [jobs EXCEPT ![j] = d] /\ j \in Active
    BY <1>0, <1>3 DEF PutsBack, Shape, TypeOK, HoldsLease, Mine, Active
  <2> HIDE DEF d
  <2> QED
    BY <1>2, <2>1, <2>2, <2>3
<1>4. ASSUME NEW w \in Workers, hold[w].job = j, Finishes(w), HoldsLease(w) PROVE Amends(j)
  <2> DEFINE s == IF hold[w].ok THEN "done" ELSE "dead"
             d == [jobs[j] EXCEPT !.status = s]
  <2>1. d \in Job
    BY <1>0, AmendedType DEF Statuses
  <2>2. d.type = jobs[j].type /\ d.status \in {"done", "dead"} /\ d.orch = jobs[j].orch
    BY <1>0 DEF Job
  <2>3. jobs' = [jobs EXCEPT ![j] = d]
    BY <1>0, <1>4 DEF Finishes, Shape, TypeOK
  <2> HIDE DEF d
  <2> QED
    BY <1>2, <2>1, <2>2, <2>3
<1>5. CASE Cancels(j)
  <2> DEFINE d == [jobs[j] EXCEPT !.status = "cancelled"]
  <2>1. d \in Job
    BY <1>0, AmendedType DEF Statuses
  <2>2. d.type = jobs[j].type /\ d.status = "cancelled" /\ d.orch = jobs[j].orch
    BY <1>0 DEF Job
  <2>3. jobs' = [jobs EXCEPT ![j] = d]
    BY <1>0, <1>5 DEF Cancels, Shape, TypeOK
  <2> HIDE DEF d
  <2> QED
    BY <1>2, <2>1, <2>2, <2>3
<1>6. CASE Retries(j)
  <2> DEFINE d == [jobs[j] EXCEPT !.status = "queued", !.owner = NoWorker]
  <2>1. d \in Job
    BY <1>0, AmendedType DEF Statuses
  <2>2. d.type = jobs[j].type /\ d.status = "queued" /\ d.orch = jobs[j].orch
    BY <1>0 DEF Job
  <2>3. jobs' = [jobs EXCEPT ![j] = d] /\ Active = {}
    BY <1>0, <1>6 DEF Retries, Shape, TypeOK
  <2> HIDE DEF d
  <2> QED
    BY <1>2, <2>1, <2>2, <2>3
<1>7. CASE Reaps(j)
  <2> DEFINE d == [jobs[j] EXCEPT !.status = "queued", !.owner = NoWorker]
             e == [jobs[j] EXCEPT !.status = "dead"]
  <2>1. d \in Job /\ e \in Job
    BY <1>0, AmendedType DEF Statuses
  <2>2. /\ d.type = jobs[j].type /\ d.status = "queued" /\ d.orch = jobs[j].orch
        /\ e.type = jobs[j].type /\ e.status = "dead" /\ e.orch = jobs[j].orch
    BY <1>0 DEF Job
  <2>3. (jobs' = [jobs EXCEPT ![j] = d] \/ jobs' = [jobs EXCEPT ![j] = e]) /\ j \in Active
    BY <1>0, <1>7 DEF Reaps, Shape, TypeOK, Active
  <2> HIDE DEF d, e
  <2> QED
    BY <1>2, <2>1, <2>2, <2>3
<1> QED
  BY <1>1, <1>3, <1>4, <1>5, <1>6, <1>7

LEMMA TypesOf == /\ Extracts \subseteq Types /\ "match_and_price" \in Types
                 /\ "build_proposal" \in Types
                 /\ "extract_bid_set" \in Extracts
  BY DEF Types, Extracts

LEMMA JobsStep ==
  ASSUME Shape, Next
  PROVE  jobs' = jobs \/ Enqueues \/ \E j \in Used : Amends(j)
<1>1. ASSUME NEW d \in Docs, Upload(d) PROVE jobs' = jobs \/ Enqueues
  <2>1. docs[d].auto \in BOOLEAN
    BY DEF Shape, TypeOK
  <2> QED
    BY <1>1, <2>1, TypesOf DEF Upload, Reserves, Lands, Inserts, Refused, Enqueues
<1>2. ASSUME NEW w \in Workers, TakesUp(w) PROVE \E j \in Used : Amends(j)
  <2>1. PICK j \in Jobs : Claims(w, j)
    BY <1>2 DEF TakesUp
  <2>2. j \in Used
    BY <2>1 DEF Claims, Used
  <2> QED
    BY <2>1, <2>2, AmendsOne
<1>3. ASSUME NEW w \in Workers, Pass(w) PROVE jobs' = jobs \/ Enqueues \/ \E j \in Used : Amends(j)
  <2>1. CASE \/ Starts(w) \/ Clones(w) \/ Promotes(w) \/ Checks(w) \/ Marks(w) \/ Verdict(w)
             \/ Advances(w) \/ Offers(w) \/ Announces(w) \/ Blocks(w) \/ MarksFailed(w) \/ Buries(w)
    BY <2>1 DEF Starts, Clones, Promotes, Checks, Marks, Verdict, Advances, Offers, Announces,
                Blocks, MarksFailed, Buries, Writes
  <2>2. CASE Finishes(w)
    <3>1. hold[w].job \in Used
      BY <2>2, InHandIsUsed DEF Finishes
    <3> QED
      BY <2>2, <3>1, AmendsOne DEF Finishes
  <2>3. CASE QueuesMerge(w) \/ QueuesNext(w) \/ Regroups(w)
    <3>1. /\ Mine(w).orch \in BOOLEAN /\ Mine(w).type \in Types
      BY <2>3, InHandIsUsed DEF QueuesMerge, QueuesNext, Regroups, Job
    <3>2. QueuesNext(w) => next_in_chain(Mine(w).type) \in Types
      BY <3>1, StateTypes DEF QueuesNext, Shape, Placed
    <3> QED
      BY <2>3, <3>1, <3>2, TypesOf DEF QueuesMerge, QueuesNext, Regroups, Enqueues
  <2> QED
    BY <1>3, <2>1, <2>2, <2>3 DEF Pass
<1>4. ASSUME NEW w \in Workers, PutsBack(w) \/ Declines(w) \/ Fails(w) \/ Crashes(w)
      PROVE  jobs' = jobs \/ \E j \in Used : Amends(j)
  <2>1. CASE PutsBack(w)
    <3>1. hold[w].job \in Used
      BY <2>1, InHandIsUsed DEF PutsBack
    <3> QED
      BY <2>1, <3>1, AmendsOne
  <2> QED
    BY <1>4, <2>1 DEF Declines, Fails, Crashes
<1>5. ASSUME NEW j \in Jobs, Cancels(j) \/ Retries(j) \/ Reaps(j) PROVE \E k \in Used : Amends(k)
  <2>1. j \in Used
    BY <1>5 DEF Cancels, Retries, Reaps, Active, Used
  <2> QED
    BY <1>5, <2>1, AmendsOne
<1>6. CASE \/ \E type \in Types : Manual(type)
           \/ StartAutopilot \/ SwitchAutopilot \/ \E p \in posts : Posts(p)
  BY <1>6, TypesOf DEF Manual, StartAutopilot, SwitchAutopilot, Posts, Enqueues
<1> QED
  BY <1>1, <1>2, <1>3, <1>4, <1>5, <1>6 DEF Next, Estimator

LEMMA RegistryStep ==
  ASSUME Shape, Next
  PROVE  Registry' /\ \A k \in Used : Kept(k)
<1>0. Registry
  BY DEF Shape, TypeOK, Registry
<1>1. CASE jobs' = jobs
  BY <1>0, <1>1 DEF Registry, Blank, InOrder, OneActive, Used, Active, Kept
<1>2. CASE Enqueues
  BY <1>0, <1>2, EnqueueKeeps DEF Enqueues
<1>3. ASSUME NEW j \in Used, Amends(j) PROVE Registry' /\ \A k \in Used : Kept(k)
  BY <1>0, <1>3, AmendKeeps DEF Amends
<1> QED
  BY <1>1, <1>2, <1>3, JobsStep

\* What a step does to the budget.
LEMMA SpendKeeps ==
  ASSUME Shape, NEW f \in Faults, Spend(f)
  PROVE  budget' \in [Faults -> Nat] /\ Within' /\ ~Intact(f)'
         /\ \A g \in Faults : Intact(g)' => Intact(g)
<1>1. /\ budget \in [Faults -> Nat] /\ Budget \in [Faults -> Nat]
      /\ \A g \in Faults : budget[g] <= Budget[g]
      /\ budget[f] > 0 /\ budget' = [budget EXCEPT ![f] = @ - 1]
  BY ChainAssumption DEF Shape, TypeOK, Spend, Within
<1>2. budget' \in [Faults -> Nat]
  BY <1>1
<1>3. /\ budget'[f] = budget[f] - 1
      /\ \A g \in Faults \ {f} : budget'[g] = budget[g]
  BY <1>1
<1>4. Within' /\ ~Intact(f)'
  BY <1>1, <1>3 DEF Within, Intact
<1> QED
  BY <1>1, <1>2, <1>3, <1>4 DEF Intact

LEMMA BudgetStep ==
  ASSUME Shape, Next
  PROVE  budget' \in [Faults -> Nat] /\ Within' /\ \A g \in Faults : Intact(g)' => Intact(g)
<1>1. CASE budget' = budget
  BY <1>1 DEF Shape, TypeOK, Within, Intact
<1>2. CASE \E f \in Faults : Spend(f)
  BY <1>2, SpendKeeps
<1>3. budget' = budget \/ \E f \in Faults : Spend(f)
  <2>0. Faults = {"manual", "putback", "stall", "crash", "cancel", "retry", "mongo"}
    BY DEF Faults
  <2>1. ASSUME NEW d \in Docs, Upload(d) PROVE budget' = budget
    BY <2>1 DEF Upload, Reserves, Lands, Inserts, Refused
  <2>2. ASSUME NEW w \in Workers, NEW j \in Jobs, Claims(w, j) PROVE budget' = budget
    BY <2>2 DEF Claims
  <2>3. ASSUME NEW w \in Workers, Pass(w) PROVE budget' = budget \/ Spend("mongo")
    BY <2>3 DEF Pass, Starts, Clones, Promotes, Checks, Marks, Verdict, Advances, Offers,
       Announces, Blocks, MarksFailed, Buries, Writes, Finishes, QueuesMerge, QueuesNext, Regroups
  <2>4. ASSUME NEW w \in Workers, PutsBack(w) \/ Declines(w) \/ Fails(w) \/ Crashes(w)
        PROVE  budget' = budget \/ Spend("putback") \/ Spend("crash")
    BY <2>4 DEF PutsBack, Declines, Fails, Crashes
  <2>5. ASSUME NEW j \in Jobs, Cancels(j) \/ Retries(j) \/ Reaps(j)
        PROVE  budget' = budget \/ Spend("cancel") \/ Spend("retry") \/ Spend("stall")
    BY <2>5 DEF Cancels, Retries, Reaps
  <2>6. CASE \/ \E type \in Types : Manual(type)
             \/ StartAutopilot \/ SwitchAutopilot \/ \E p \in posts : Posts(p)
    BY <2>0, <2>6 DEF Manual, StartAutopilot, SwitchAutopilot, Posts
  <2> QED
    BY <2>0, <2>1, <2>2, <2>3, <2>4, <2>5, <2>6 DEF Next, Estimator, TakesUp
<1> QED
  BY <1>1, <1>2, <1>3

-----------------------------------------------------------------------------
(* What a step does to the documents.                                      *)

LEMMA UploadTypes ==
  ASSUME Shape, NEW d \in Docs, Upload(d)
  PROVE  docs' \in [Docs -> [state: DocStates, auto: BOOLEAN]]
<1>1. docs[d] \in [state: DocStates, auto: BOOLEAN] /\ bid.auto \in BOOLEAN
  BY DEF Shape, TypeOK
<1>2. ASSUME NEW s \in DocStates, docs' = [docs EXCEPT ![d].state = s]
      PROVE  docs' \in [Docs -> [state: DocStates, auto: BOOLEAN]]
  BY <1>2 DEF Shape, TypeOK
<1>3. CASE Reserves(d)
  BY <1>1, <1>3 DEF Reserves, Shape, TypeOK, DocStates
<1> QED
  BY <1>2, <1>3 DEF Upload, Lands, Inserts, Refused, DocStates

LEMMA MarkTypes ==
  ASSUME Shape, NEW w \in Workers, NEW s \in DocStates, mark_received(w, s)
  PROVE  docs' \in [Docs -> [state: DocStates, auto: BOOLEAN]]
  BY DEF mark_received, Shape, TypeOK

LEMMA ClaimsTypes ==
  ASSUME Shape, NEW w \in Workers, NEW j \in Jobs, Claims(w, j)
  PROVE  /\ pc' \in [Workers -> Points] /\ hold' \in [Workers -> Held]
         /\ UNCHANGED <<docs, bid, disk, seen, posts>>
<1>1. jobs[j].gen + 1 \in Nat
  BY DEF Shape, TypeOK, Job
<1> QED
  BY <1>1 DEF Claims, Shape, TypeOK, Goto, Points, Held

LEMMA LeavesTypes ==
  ASSUME Shape, NEW w \in Workers, Leaves(w)
  PROVE  /\ pc' \in [Workers -> Points] /\ hold' \in [Workers -> Held]
         /\ seen' \in [Workers -> SUBSET Docs]
  BY DEF Shape, TypeOK, Leaves, Goto, Points, Held, NoClaim, NoJob

LEMMA GotoTypes ==
  ASSUME Shape, NEW w \in Workers, NEW p \in Points, Goto(w, p), UNCHANGED <<hold, seen>>
  PROVE  /\ pc' \in [Workers -> Points] /\ hold' \in [Workers -> Held]
         /\ seen' \in [Workers -> SUBSET Docs]
  BY DEF Shape, TypeOK, Goto

LEMMA StateWritten ==
  ASSUME Shape, NEW s \in States, set_state(s)
  PROVE  bid' \in [state: States, auto: BOOLEAN]
  BY DEF Shape, TypeOK, set_state

LEMMA PassTypes ==
  ASSUME Shape, NEW w \in Workers, Pass(w)
  PROVE  /\ docs' \in [Docs -> [state: DocStates, auto: BOOLEAN]]
         /\ bid' \in [state: States, auto: BOOLEAN]
         /\ disk' \in [covers: SUBSET Docs, review: BOOLEAN]
         /\ pc' \in [Workers -> Points] /\ hold' \in [Workers -> Held]
         /\ seen' \in [Workers -> SUBSET Docs]
         /\ posts' = posts
<1> DEFINE P == /\ docs' \in [Docs -> [state: DocStates, auto: BOOLEAN]]
                /\ bid' \in [state: States, auto: BOOLEAN]
                /\ disk' \in [covers: SUBSET Docs, review: BOOLEAN]
                /\ pc' \in [Workers -> Points] /\ hold' \in [Workers -> Held]
                /\ seen' \in [Workers -> SUBSET Docs]
                /\ posts' = posts
<1>0. /\ docs \in [Docs -> [state: DocStates, auto: BOOLEAN]]
      /\ bid \in [state: States, auto: BOOLEAN]
      /\ disk \in [covers: SUBSET Docs, review: BOOLEAN]
      /\ pc \in [Workers -> Points] /\ hold \in [Workers -> Held]
      /\ seen \in [Workers -> SUBSET Docs]
  BY DEF Shape, TypeOK
<1>T. pc[w] # "idle" => /\ START_STATE(Mine(w).type) \in States
                        /\ FAIL_STATE(Mine(w).type) \in States
  BY InHandIsUsed, StateTypes
<1>1. CASE Starts(w)
  BY <1>0, <1>1, <1>T, GotoTypes, StateWritten DEF Starts, Points
<1>2. CASE Clones(w)
  BY <1>0, <1>2 DEF Clones, Goto, Points, OnDisk
<1>3. CASE Promotes(w)
  <2>1. seen[w] \in SUBSET Docs
    BY <1>0
  <2> QED
    BY <1>0, <1>3, <2>1, GotoTypes DEF Promotes, Points
<1>4. CASE Checks(w)
  BY <1>0, <1>4, GotoTypes, LeavesTypes DEF Checks, Points
<1>5. CASE Marks(w)
  BY <1>0, <1>5, GotoTypes, MarkTypes DEF Marks, Points, DocStates
<1>6. CASE Verdict(w)
  <2>1. /\ pc' \in [Workers -> Points] /\ hold' \in [Workers -> Held]
        /\ UNCHANGED <<docs, disk, seen, posts>>
    BY <1>0, <1>6 DEF Verdict, Goto, Points, Held
  <2>2. {"extraction_done", NEEDS_REVIEW, "pricing", "complete"} \subseteq States
    BY DEF States, NEEDS_REVIEW
  <2>3. bid' \in [state: States, auto: BOOLEAN]
    BY <1>0, <1>6, <2>2, StateWritten DEF Verdict
  <2> QED
    BY <1>0, <2>1, <2>3
<1>7. CASE Finishes(w)
  BY <1>0, <1>7, GotoTypes, LeavesTypes DEF Finishes, Points
<1>8. CASE QueuesMerge(w) \/ QueuesNext(w) \/ Advances(w) \/ Offers(w)
  BY <1>0, <1>8, GotoTypes, LeavesTypes DEF QueuesMerge, QueuesNext, Advances, Offers, Points
<1>9. CASE Announces(w) \/ Blocks(w) \/ Buries(w)
  <2>1. Announces(w) => START_STATE(next_in_chain(Mine(w).type)) \in States
    BY InHandIsUsed, StateTypes DEF Announces, Writes, Shape, Placed
  <2>2. "awaiting_manual_retry" \in States
    BY DEF States
  <2> QED
    BY <1>0, <1>9, <1>T, <2>1, <2>2, LeavesTypes, StateWritten DEF Announces, Blocks, Buries, Writes
<1>10. CASE MarksFailed(w) \/ Regroups(w)
  BY <1>0, <1>10, GotoTypes, MarkTypes DEF MarksFailed, Regroups, Points, DocStates
<1> QED
  BY <1>1, <1>2, <1>3, <1>4, <1>5, <1>6, <1>7, <1>8, <1>9, <1>10 DEF Pass

LEMMA TypeStep ==
  ASSUME Shape, Next
  PROVE  TypeOK'
<1>0. jobs' \in [Jobs -> Job] /\ budget' \in [Faults -> Nat]
  BY RegistryStep, BudgetStep DEF Registry
<1>1. ASSUME NEW d \in Docs, Upload(d) PROVE TypeOK'
  <2>1. UNCHANGED <<bid, disk, pc, hold, seen, posts>>
    BY <1>1 DEF Upload, Reserves, Lands, Inserts, Refused
  <2> QED
    BY <1>0, <1>1, <2>1, UploadTypes DEF Shape, TypeOK
<1>2. ASSUME NEW w \in Workers, TakesUp(w) PROVE TypeOK'
  BY <1>0, <1>2, ClaimsTypes DEF TakesUp, Shape, TypeOK
<1>3. ASSUME NEW w \in Workers, Pass(w) PROVE TypeOK'
  BY <1>0, <1>3, PassTypes DEF Shape, TypeOK
<1>4. ASSUME NEW w \in Workers, PutsBack(w) \/ Crashes(w) PROVE TypeOK'
  BY <1>0, <1>4, LeavesTypes DEF PutsBack, Crashes, Shape, TypeOK
<1>5. ASSUME NEW w \in Workers, Declines(w) \/ Fails(w) PROVE TypeOK'
  BY <1>0, <1>5, GotoTypes DEF Declines, Fails, Shape, TypeOK, Points
<1>6. ASSUME NEW j \in Jobs, Cancels(j) \/ Retries(j) \/ Reaps(j) PROVE TypeOK'
  <2>1. UNCHANGED <<docs, bid, disk, pc, hold, seen>>
    BY <1>6 DEF Cancels, Retries, Reaps
  <2>2. posts' = posts \/ (/\ jobs[j].status # "absent"
                           /\ \E s \in {START_STATE(jobs[j].type), FAIL_STATE(jobs[j].type)} :
                                 posts' = posts \cup {[job |-> j, state |-> s]})
    BY <1>6 DEF Cancels, Retries, Reaps
  <2>3. jobs[j].status # "absent" => jobs[j].type \in Types
    BY DEF Shape, Blank
  <2>4. posts' \subseteq [job: Jobs, state: States]
    BY <2>2, <2>3, StateTypes DEF Shape, TypeOK
  <2> QED
    BY <1>0, <2>1, <2>4 DEF Shape, TypeOK
<1>7. CASE \/ \E type \in Types : Manual(type)
           \/ StartAutopilot \/ SwitchAutopilot
  <2>1. UNCHANGED <<docs, disk, pc, hold, seen, posts>> /\ bid' \in [state: States, auto: BOOLEAN]
    BY <1>7 DEF Manual, StartAutopilot, SwitchAutopilot, Shape, TypeOK
  <2> QED
    BY <1>0, <2>1 DEF Shape, TypeOK
<1>8. ASSUME NEW p \in posts, Posts(p) PROVE TypeOK'
  <2>1. p.state \in States
    BY DEF Shape, TypeOK
  <2> QED
    BY <1>0, <1>8, <2>1, StateWritten DEF Posts, Shape, TypeOK
<1> QED
  BY <1>1, <1>2, <1>3, <1>4, <1>5, <1>6, <1>7, <1>8 DEF Next, Estimator

-----------------------------------------------------------------------------
(* What a step does to a worker.                                           *)

Rests(v) == pc'[v] = pc[v] /\ hold'[v] = hold[v] /\ seen'[v] = seen[v]

\* Its own action; PutsBack, Crashes and all that end a claim leave it idle.
Acts(v) == Pass(v) \/ Declines(v) \/ Fails(v)

LEMMA Others ==
  ASSUME Shape, NEW w \in Workers, TakesUp(w) \/ Acts(w) \/ PutsBack(w) \/ Crashes(w)
  PROVE  \A v \in Workers \ {w} : Rests(v)
<1>0. /\ pc \in [Workers -> Points] /\ hold \in [Workers -> Held]
      /\ seen \in [Workers -> SUBSET Docs]
  BY DEF Shape, TypeOK
<1>1. ASSUME NEW p \in Points, Goto(w, p)
      PROVE  \A v \in Workers \ {w} : pc'[v] = pc[v]
  BY <1>0, <1>1 DEF Goto
<1>2. Leaves(w) => \A v \in Workers \ {w} : Rests(v)
  BY <1>0 DEF Leaves, Goto, Rests
<1>3. CASE TakesUp(w)
  BY <1>0, <1>3 DEF TakesUp, Claims, Rests, Goto
<1>4. CASE PutsBack(w) \/ Crashes(w)
  BY <1>2, <1>4 DEF PutsBack, Crashes
<1>5. CASE Declines(w) \/ Fails(w) \/ Starts(w) \/ Promotes(w) \/ Marks(w) \/ Offers(w)
           \/ MarksFailed(w) \/ Regroups(w)
  BY <1>0, <1>5 DEF Declines, Fails, Starts, Promotes, Marks, Offers, MarksFailed, Regroups,
                    Goto, Rests
<1>6. CASE Clones(w) \/ Verdict(w)
  BY <1>0, <1>6 DEF Clones, Verdict, Goto, Rests
<1>7. CASE Checks(w) \/ Finishes(w) \/ QueuesMerge(w) \/ Advances(w) \/ QueuesNext(w)
  BY <1>0, <1>2, <1>7 DEF Checks, Finishes, QueuesMerge, Advances, QueuesNext, Goto, Rests
<1>8. CASE Announces(w) \/ Blocks(w) \/ Buries(w)
  BY <1>2, <1>8 DEF Announces, Blocks, Buries, Writes
<1> QED
  BY <1>3, <1>4, <1>5, <1>6, <1>7, <1>8 DEF Acts, Pass

LEMMA OwnStep ==
  ASSUME Shape, Next, NEW v \in Workers
  PROVE  Rests(v) \/ pc'[v] = "idle" \/ TakesUp(v) \/ Acts(v)
<1>1. ASSUME UNCHANGED <<pc, hold, seen>> PROVE Rests(v)
  BY <1>1 DEF Rests
<1>2. ASSUME NEW d \in Docs, Upload(d) PROVE Rests(v)
  BY <1>1, <1>2 DEF Upload, Reserves, Lands, Inserts, Refused
<1>3. ASSUME NEW w \in Workers, TakesUp(w) \/ Acts(w) \/ PutsBack(w) \/ Crashes(w)
      PROVE  Rests(v) \/ pc'[v] = "idle" \/ TakesUp(v) \/ Acts(v)
  <2>1. CASE v # w
    BY <1>3, <2>1, Others
  <2>2. CASE v = w /\ (PutsBack(w) \/ Crashes(w))
    BY <2>2 DEF PutsBack, Crashes, Leaves, Goto, Shape, TypeOK
  <2> QED
    BY <1>3, <2>1, <2>2
<1>4. ASSUME NEW j \in Jobs, Cancels(j) \/ Retries(j) \/ Reaps(j) PROVE Rests(v)
  BY <1>1, <1>4 DEF Cancels, Retries, Reaps
<1>5. CASE \/ \E type \in Types : Manual(type)
           \/ StartAutopilot \/ SwitchAutopilot \/ \E p \in posts : Posts(p)
  BY <1>1, <1>5 DEF Manual, StartAutopilot, SwitchAutopilot, Posts
<1> QED
  BY <1>2, <1>3, <1>4, <1>5 DEF Next, Estimator, Acts

\* The way a worker goes through a pass and its hook.
Route == {<<"start", "gate">>, <<"gate", "close">>, <<"gate", "work">>, <<"work", "close">>,
          <<"work", "check">>, <<"check", "mark">>, <<"check", "verdict">>, <<"mark", "verdict">>,
          <<"verdict", "close">>, <<"close", "stragglers">>, <<"close", "advance">>,
          <<"close", "unread">>, <<"close", "bury">>, <<"stragglers", "advance">>,
          <<"advance", "offer">>, <<"offer", "insert">>, <<"offer", "blocked">>,
          <<"insert", "announce">>, <<"unread", "regroup">>, <<"regroup", "bury">>}

LEMMA PassRoute ==
  ASSUME Shape, NEW v \in Workers, Acts(v), pc'[v] # "idle"
  PROVE  /\ <<pc[v], pc'[v]>> \in Route
         /\ hold'[v].job = hold[v].job /\ hold'[v].gen = hold[v].gen
         /\ pc[v] # "verdict" => hold'[v] = hold[v]
         /\ pc[v] # "gate" => seen'[v] = seen[v]
<1>0. /\ pc \in [Workers -> Points] /\ hold \in [Workers -> Held]
      /\ seen \in [Workers -> SUBSET Docs]
  BY DEF Shape, TypeOK
<1>1. ~Leaves(v)
  BY <1>0 DEF Leaves, Goto
<1>2. CASE Declines(v) \/ Fails(v) \/ Starts(v) \/ Promotes(v) \/ Marks(v) \/ Offers(v)
           \/ MarksFailed(v) \/ Regroups(v)
  BY <1>0, <1>2 DEF Declines, Fails, Starts, Promotes, Marks, Offers, MarksFailed, Regroups,
                    Goto, Route
<1>3. CASE Clones(v) \/ Verdict(v)
  BY <1>0, <1>3 DEF Clones, Verdict, Goto, Route, Held
<1>4. CASE Checks(v) \/ Finishes(v) \/ QueuesMerge(v) \/ Advances(v) \/ QueuesNext(v)
  BY <1>0, <1>1, <1>4 DEF Checks, Finishes, QueuesMerge, Advances, QueuesNext, Goto, Route
<1>5. CASE Announces(v) \/ Blocks(v) \/ Buries(v)
  BY <1>1, <1>5 DEF Announces, Blocks, Buries, Writes
<1> QED
  BY <1>2, <1>3, <1>4, <1>5 DEF Acts, Pass

LEMMA ShapeStep ==
  ASSUME Shape, Next
  PROVE  Shape'
<1>1. TypeOK' /\ Blank' /\ InOrder' /\ OneActive' /\ Within'
  BY TypeStep, RegistryStep, BudgetStep DEF Registry
<1>2. ASSUME NEW v \in Workers, pc'[v] # "idle", hold'[v].job = hold[v].job, pc[v] # "idle"
      PROVE  /\ hold'[v].job \in Jobs /\ Mine(v)'.status # "absent"
             /\ Mine(v)'.type = Mine(v).type /\ Mine(v).type \in Takes[v]
  BY <1>2, InHandIsUsed, RegistryStep DEF Shape, Claimed, Kept, Mine
<1>3. ASSUME NEW v \in Workers, TakesUp(v)
      PROVE  /\ hold'[v].job \in Jobs /\ Mine(v)'.status # "absent"
             /\ Mine(v)'.type \in Takes[v] /\ pc'[v] = "start"
  <2>1. PICK j \in Jobs : Claims(v, j)
    BY <1>3 DEF TakesUp
  <2>2. /\ hold'[v].job = j /\ pc'[v] = "start" /\ j \in Used /\ jobs[j].type \in Takes[v]
    BY <2>1 DEF Claims, Goto, Shape, TypeOK, Used
  <2> QED
    BY <2>2, RegistryStep DEF Kept, Mine
<1>4. Claimed'
  <2> SUFFICES ASSUME NEW v \in Workers, pc'[v] # "idle"
               PROVE  /\ hold'[v].job \in Jobs /\ Mine(v)'.status # "absent"
                      /\ Mine(v)'.type \in Takes[v]
    BY DEF Claimed
  <2>1. CASE Rests(v)
    BY <1>2, <2>1 DEF Rests
  <2>2. CASE TakesUp(v)
    BY <1>3, <2>2
  <2>3. CASE Acts(v)
    BY <1>2, <2>3, PassRoute DEF Route
  <2> QED
    BY <2>1, <2>2, <2>3, OwnStep
<1>5. Placed'
  <2> SUFFICES ASSUME NEW v \in Workers, pc'[v] # "idle"
               PROVE  /\ pc'[v] \in {"mark", "stragglers", "unread", "regroup"} =>
                            Mine(v)'.type \in Extracts
                      /\ pc'[v] \in {"offer", "insert", "announce"} =>
                            next_in_chain(Mine(v)'.type) # NoType
    BY DEF Placed, Drives, Mine
  <2>1. CASE Rests(v)
    BY <1>2, <2>1 DEF Rests, Shape, Placed, Drives
  <2>2. CASE TakesUp(v)
    BY <1>3, <2>2
  <2>3. CASE Acts(v)
    <3>1. Mine(v)'.type = Mine(v).type /\ <<pc[v], pc'[v]>> \in Route
      BY <1>2, <2>3, PassRoute DEF Route
    <3>2. CASE pc[v] \in {"stragglers", "unread", "offer", "insert", "gate",
                            "start", "work", "mark", "verdict", "regroup"}
      BY <3>1, <3>2 DEF Shape, Placed, Drives, Route
    <3>3. CASE pc[v] \in {"check", "close", "advance"}
      <4>1. Checks(v) \/ Finishes(v) \/ Advances(v)
        BY <2>3, <3>3 DEF Acts, Pass, Declines, Fails, Starts, Clones, Promotes, Marks, Verdict,
            QueuesMerge, Offers, QueuesNext, Announces, Blocks, Writes, MarksFailed, Regroups, Buries
      <4> QED
        BY <3>1, <4>1 DEF Checks, Finishes, Advances, Leaves, Goto, Shape, TypeOK, Drives
    <3> QED
      BY <3>1, <3>2, <3>3 DEF Route
  <2> QED
    BY <2>1, <2>2, <2>3, OwnStep
<1> QED
  BY <1>1, <1>4, <1>5 DEF Shape

-----------------------------------------------------------------------------
(* What a step does to one job, one document, the take-off and chainState.  *)

LEMMA Fate ==
  ASSUME Shape, Next, NEW j \in Used
  PROVE  \/ Same(j)
         \/ \E w \in Workers : Claims(w, j)
         \/ \E w \in Workers : hold[w].job = j /\ HoldsLease(w) /\ (PutsBack(w) \/ Finishes(w))
         \/ Cancels(j) \/ Retries(j) \/ Reaps(j)
<1>0. j \in Jobs /\ jobs \in [Jobs -> Job] /\ jobs[j].status # "absent" /\ Registry
  BY DEF Used, Shape, TypeOK, Registry
<1>1. CASE jobs'[j] = jobs[j]
  BY <1>0, <1>1 DEF Same, Kept
<1>2. CASE Enqueues
  <2>1. PICK t \in Types, o, l \in BOOLEAN : enqueue(t, o, l)
    BY <1>2 DEF Enqueues
  <2>2. CASE Inserted(t, o)
    BY <1>0, <1>1, <2>2 DEF Inserted, Absent
  <2>3. CASE \A k \in Jobs : Same(k) \/ (jobs[k] = Absent /\ jobs'[k] = Absent)
    BY <1>0, <2>3 DEF Absent
  <2> QED
    BY <1>0, <2>1, <2>2, <2>3, EnqueueKeeps
<1>3. ASSUME NEW w \in Workers, TakesUp(w) \/ Acts(w) \/ PutsBack(w) \/ Crashes(w),
             jobs'[j] # jobs[j], ~Enqueues
      PROVE  \/ Claims(w, j)
             \/ hold[w].job = j /\ HoldsLease(w) /\ (PutsBack(w) \/ Finishes(w))
  <2>1. CASE TakesUp(w)
    BY <1>0, <1>3, <2>1 DEF TakesUp, Claims
  <2>2. CASE PutsBack(w) \/ Finishes(w)
    BY <1>0, <1>3, <2>2 DEF PutsBack, Finishes
  <2>3. CASE Crashes(w) \/ Declines(w) \/ Fails(w)
    BY <1>3, <2>3 DEF Crashes, Declines, Fails
  <2>4. CASE \/ Starts(w) \/ Clones(w) \/ Promotes(w) \/ Checks(w) \/ Marks(w) \/ Verdict(w)
             \/ Advances(w) \/ Offers(w) \/ Announces(w) \/ Blocks(w) \/ MarksFailed(w) \/ Buries(w)
    BY <1>3, <2>4 DEF Starts, Clones, Promotes, Checks, Marks, Verdict, Advances, Offers, Announces,
                Blocks, MarksFailed, Buries, Writes
  <2>5. CASE QueuesMerge(w) \/ QueuesNext(w) \/ Regroups(w)
    <3>1. /\ Mine(w).orch \in BOOLEAN /\ Mine(w).type \in Types
      BY <2>5, InHandIsUsed DEF QueuesMerge, QueuesNext, Regroups, Job
    <3>2. QueuesNext(w) => next_in_chain(Mine(w).type) \in Types
      BY <3>1, StateTypes DEF QueuesNext, Shape, Placed
    <3> QED
      BY <1>3, <2>5, <3>1, <3>2, TypesOf DEF QueuesMerge, QueuesNext, Regroups, Enqueues
  <2> QED
    BY <1>3, <2>1, <2>2, <2>3, <2>4, <2>5 DEF Acts, Pass
<1>4. ASSUME NEW k \in Jobs, Cancels(k) \/ Retries(k) \/ Reaps(k), jobs'[j] # jobs[j]
      PROVE  Cancels(j) \/ Retries(j) \/ Reaps(j)
  BY <1>0, <1>4 DEF Cancels, Retries, Reaps
<1>5. CASE (\E d \in Docs : Upload(d)) \/ (\E type \in Types : Manual(type))
           \/ StartAutopilot \/ SwitchAutopilot \/ \E p \in posts : Posts(p)
  <2>1. \A d \in Docs : docs[d].auto \in BOOLEAN
    BY DEF Shape, TypeOK
  <2> QED
    BY <1>1, <1>2, <1>5, <2>1, TypesOf DEF Manual, StartAutopilot, SwitchAutopilot, Posts, Enqueues,
       Upload, Reserves, Lands, Inserts, Refused
<1> QED
  BY <1>1, <1>2, <1>3, <1>4, <1>5 DEF Next, Estimator, Acts

LEMMA Born ==
  ASSUME Shape, Next, NEW j \in Jobs \ Used
  PROVE  jobs'[j].status \in {"absent", "queued"} /\ jobs'[j].before = {}
<1>0. jobs \in [Jobs -> Job] /\ jobs[j] = Absent /\ Registry
  BY DEF Used, Shape, TypeOK, Registry, Blank
<1>1. CASE jobs' = jobs
  BY <1>0, <1>1 DEF Absent
<1>2. CASE Enqueues
  <2>1. PICK t \in Types, o, l \in BOOLEAN : enqueue(t, o, l)
    BY <1>2 DEF Enqueues
  <2>2. CASE Inserted(t, o)
    BY <1>0, <2>2, NewType DEF Inserted, Absent
  <2>3. CASE \A k \in Jobs : Same(k) \/ (jobs[k] = Absent /\ jobs'[k] = Absent)
    BY <1>0, <2>3 DEF Absent, Same
  <2> QED
    BY <1>0, <2>1, <2>2, <2>3, EnqueueKeeps
<1>3. ASSUME NEW k \in Used, Amends(k) PROVE jobs'[j] = jobs[j]
  BY <1>0, <1>3 DEF Amends, Used
<1> QED
  BY <1>0, <1>1, <1>2, <1>3, JobsStep DEF Absent

LEMMA DocsStep ==
  ASSUME Shape, Next, NEW d \in Docs
  PROVE  \/ docs'[d].state = docs[d].state
         \/ docs[d].state = "absent" /\ docs'[d].state = "reserved"
         \/ docs[d].state = "reserved" /\ docs'[d].state = "landed"
         \/ Inserts(d) /\ docs'[d].state = "received" /\ docs[d].state = "landed"
         \/ docs[d].state = "landed" /\ docs'[d].state = "refused"
         \/ docs[d].state = "received" /\ docs'[d].state = "failed"
         \/ /\ docs[d].state = "received" /\ docs'[d].state = "read"
            /\ \E w \in Workers : Marks(w) /\ d \in Mine(w).before
<1>0. docs \in [Docs -> [state: DocStates, auto: BOOLEAN]]
  BY DEF Shape, TypeOK
<1>1. ASSUME NEW c \in Docs, Upload(c)
      PROVE  \/ docs'[d].state = docs[d].state
             \/ docs[d].state = "absent" /\ docs'[d].state = "reserved"
             \/ docs[d].state = "reserved" /\ docs'[d].state = "landed"
             \/ Inserts(d) /\ docs'[d].state = "received" /\ docs[d].state = "landed"
             \/ docs[d].state = "landed" /\ docs'[d].state = "refused"
  <2>1. CASE Reserves(c)
    BY <1>0, <2>1 DEF Reserves
  <2>2. CASE Lands(c)
    BY <1>0, <2>2 DEF Lands
  <2>3. CASE Inserts(c)
    BY <1>0, <2>3 DEF Inserts
  <2>4. CASE Refused(c)
    BY <1>0, <2>4 DEF Refused
  <2> QED
    BY <1>1, <2>1, <2>2, <2>3, <2>4 DEF Upload
<1>2. ASSUME NEW w \in Workers, Pass(w)
      PROVE  docs' = docs \/ Marks(w) \/ MarksFailed(w)
  BY <1>2 DEF Pass, Starts, Clones, Promotes, Checks, Verdict, Advances, Offers,
       Announces, Blocks, Buries, Writes, Finishes, QueuesMerge, QueuesNext, Regroups
<1>3. ASSUME NEW w \in Workers, Marks(w) \/ MarksFailed(w)
      PROVE  \/ docs'[d].state = docs[d].state
             \/ docs[d].state = "received" /\ docs'[d].state = "failed"
             \/ /\ docs[d].state = "received" /\ docs'[d].state = "read"
                /\ Marks(w) /\ d \in Mine(w).before
  BY <1>0, <1>3 DEF Marks, MarksFailed, mark_received
<1>4. ASSUME NEW w \in Workers, TakesUp(w) \/ Declines(w) \/ Fails(w) \/ PutsBack(w) \/ Crashes(w)
      PROVE  docs' = docs
  BY <1>4 DEF TakesUp, Claims, Declines, Fails, PutsBack, Crashes
<1>5. CASE \/ \E j \in Jobs : Cancels(j) \/ Retries(j) \/ Reaps(j)
           \/ \E type \in Types : Manual(type)
           \/ StartAutopilot \/ SwitchAutopilot \/ \E p \in posts : Posts(p)
  BY <1>5 DEF Cancels, Retries, Reaps, Manual, StartAutopilot, SwitchAutopilot, Posts
<1> QED
  BY <1>1, <1>2, <1>3, <1>4, <1>5 DEF Next, Estimator

\* Only an extract's promotion replaces the take-off.
LEMMA DiskStep ==
  ASSUME Shape, Next
  PROVE  disk' = disk \/ \E w \in Workers : /\ Promotes(w) /\ Drives(w, Extracts)
                                            /\ disk'.covers = seen[w]
<1>1. ASSUME NEW w \in Workers, Promotes(w)
      PROVE  disk' = disk \/ (Drives(w, Extracts) /\ disk'.covers = seen[w])
  BY <1>1 DEF Promotes
<1>2. ASSUME NEW w \in Workers, Pass(w)
      PROVE  disk' = disk \/ Promotes(w)
  BY <1>2 DEF Pass, Starts, Clones, Marks, MarksFailed, Checks, Verdict, Advances, Offers,
       Announces, Blocks, Buries, Writes, Finishes, QueuesMerge, QueuesNext, Regroups
<1>3. ASSUME NEW w \in Workers, TakesUp(w) \/ Declines(w) \/ Fails(w) \/ PutsBack(w) \/ Crashes(w)
      PROVE  disk' = disk
  BY <1>3 DEF TakesUp, Claims, Declines, Fails, PutsBack, Crashes
<1>4. CASE \/ \E j \in Jobs : Cancels(j) \/ Retries(j) \/ Reaps(j)
           \/ \E type \in Types : Manual(type)
           \/ StartAutopilot \/ SwitchAutopilot \/ \E p \in posts : Posts(p)
  BY <1>4 DEF Cancels, Retries, Reaps, Manual, StartAutopilot, SwitchAutopilot, Posts
<1>5. ASSUME NEW d \in Docs, Upload(d) PROVE disk' = disk
  BY <1>5 DEF Upload, Reserves, Lands, Inserts, Refused
<1> QED
  BY <1>1, <1>2, <1>3, <1>4, <1>5 DEF Next, Estimator

\* The action behind each point a worker comes to.
LEMMA Arrives ==
  ASSUME Shape, NEW v \in Workers, Acts(v)
  PROVE  /\ pc'[v] = "gate" => Starts(v)
         /\ pc'[v] = "work" => Clones(v)
         /\ pc'[v] = "check" => Promotes(v)
         /\ pc'[v] = "mark" => Checks(v)
         /\ pc'[v] = "verdict" => Marks(v) \/ Checks(v)
         /\ pc'[v] \in {"stragglers", "unread"} => Finishes(v)
         /\ pc'[v] = "advance" => Finishes(v) \/ QueuesMerge(v)
         /\ pc'[v] = "offer" => Advances(v)
<1>0. /\ pc \in [Workers -> Points] /\ hold \in [Workers -> Held]
  BY DEF Shape, TypeOK
<1>1. CASE Declines(v) \/ Fails(v) \/ Starts(v) \/ Promotes(v) \/ Marks(v) \/ Offers(v)
           \/ MarksFailed(v) \/ Regroups(v)
  BY <1>0, <1>1 DEF Declines, Fails, Starts, Promotes, Marks, Offers, MarksFailed, Regroups, Goto
<1>2. CASE Clones(v) \/ Verdict(v)
  BY <1>0, <1>2 DEF Clones, Verdict, Goto
<1>3. CASE Checks(v) \/ Finishes(v) \/ QueuesMerge(v) \/ Advances(v) \/ QueuesNext(v)
  BY <1>0, <1>3 DEF Checks, Finishes, QueuesMerge, Advances, QueuesNext, Goto, Leaves
<1>4. CASE Announces(v) \/ Blocks(v) \/ Buries(v)
  BY <1>0, <1>4 DEF Announces, Blocks, Buries, Writes, Leaves, Goto
<1> QED
  BY <1>1, <1>2, <1>3, <1>4 DEF Acts, Pass

-----------------------------------------------------------------------------
(* The claims: what a pass was claimed with, and who holds the lease.      *)

LEMMA BeforeKept ==
  ASSUME Shape, Next, NEW j \in Jobs
  PROVE  \/ jobs'[j].before = jobs[j].before
         \/ jobs'[j].before = {}
         \/ \E w \in Workers : Claims(w, j) /\ jobs'[j].before = OnDisk /\ docs' = docs
<1>0. jobs[j] \in Job /\ jobs \in [Jobs -> Job]
  BY DEF Shape, TypeOK
<1>1. CASE j \notin Used
  BY <1>1, Born
<1>2. CASE j \in Used
  <2>1. CASE Same(j)
    BY <2>1 DEF Same
  <2>2. ASSUME NEW w \in Workers, Claims(w, j)
        PROVE  jobs'[j].before = OnDisk /\ docs' = docs
    BY <1>0, <2>2 DEF Claims, Job
  <2>3. CASE \/ \E w \in Workers : hold[w].job = j /\ HoldsLease(w) /\ (PutsBack(w) \/ Finishes(w))
             \/ Cancels(j) \/ Retries(j) \/ Reaps(j)
    <3>1. ASSUME NEW w \in Workers, hold[w].job = j, HoldsLease(w), PutsBack(w) \/ Finishes(w)
          PROVE  jobs'[j].before = jobs[j].before
      BY <1>0, <3>1 DEF PutsBack, Finishes, Job
    <3>2. CASE Cancels(j) \/ Retries(j) \/ Reaps(j)
      BY <1>0, <3>2 DEF Cancels, Retries, Reaps, Job
    <3> QED
      BY <2>3, <3>1, <3>2
  <2>4. CASE \E w \in Workers : Claims(w, j)
    BY <2>2, <2>4
  <2>5. \/ Same(j)
        \/ \E w \in Workers : Claims(w, j)
        \/ \E w \in Workers : hold[w].job = j /\ HoldsLease(w) /\ (PutsBack(w) \/ Finishes(w))
        \/ Cancels(j) \/ Retries(j) \/ Reaps(j)
    BY <1>2, Fate
  <2> QED
    BY <2>1, <2>3, <2>4, <2>5
<1> QED
  BY <1>1, <1>2

LEMMA BeforeStep == ASSUME Base, Next PROVE Before'
<1> SUFFICES ASSUME NEW j \in Jobs, NEW d \in jobs'[j].before
             PROVE  docs'[d].state \notin {"absent", "reserved"}
  BY DEF Before
<1>0. jobs' \in [Jobs -> Job]
  BY RegistryStep DEF Base, Registry
<1>1. d \in Docs
  BY <1>0 DEF Job
<1>2. CASE d \in jobs[j].before
  BY <1>1, <1>2, DocsStep DEF Base, Before
<1>3. CASE d \in OnDisk /\ docs' = docs
  BY <1>3 DEF OnDisk
<1> QED
  BY <1>2, <1>3, BeforeKept DEF Base

LEMMA LeasedStep == ASSUME Base, Next PROVE Leased'
<1> SUFFICES ASSUME Intact("stall")', Intact("cancel")', NEW v \in Workers, pc'[v] \in PassPoints
             PROVE  HoldsLease(v)'
  BY DEF Leased
<1>0. jobs \in [Jobs -> Job] /\ hold \in [Workers -> Held] /\ pc \in [Workers -> Points] /\ Shape
  BY DEF Base, Shape, TypeOK
<1>1. Intact("stall") /\ Intact("cancel") /\ "stall" \in Faults /\ "cancel" \in Faults
  BY BudgetStep DEF Base, Faults
<1>2. CASE TakesUp(v)
  <2>1. PICK j \in Jobs : Claims(v, j)
    BY <1>2 DEF TakesUp
  <2> QED
    BY <1>0, <2>1 DEF Claims, HoldsLease, Owns, Mine, Job
<1>3. CASE Rests(v) \/ Acts(v)
  <2> DEFINE j == hold[v].job
  <2>0. pc'[v] # "idle"
    BY DEF PassPoints
  <2>1. hold'[v].job = j /\ hold'[v].gen = hold[v].gen /\ pc[v] \in PassPoints
    BY <1>0, <1>3, <2>0, PassRoute DEF Rests, PassPoints, Route
  <2>2. HoldsLease(v) /\ j \in Used
    BY <1>0, <1>1, <2>1, InHandIsUsed DEF Base, Leased, PassPoints
  <2>3. /\ jobs[j].owner = v /\ jobs[j].gen = hold[v].gen /\ jobs[j].status = "running"
    BY <2>2 DEF HoldsLease, Owns, Mine
  <2>4. ~\E w \in Workers : Claims(w, j)
    BY <2>3 DEF Claims
  <2>5. ~\E w \in Workers : hold[w].job = j /\ HoldsLease(w) /\ (PutsBack(w) \/ Finishes(w))
    <3> SUFFICES ASSUME NEW w \in Workers, hold[w].job = j, HoldsLease(w), PutsBack(w) \/ Finishes(w)
                 PROVE FALSE
      OBVIOUS
    <3>1. w = v
      BY <2>3 DEF HoldsLease, Owns, Mine
    <3>2. pc'[v] \notin PassPoints
      BY <1>0, <3>1 DEF PutsBack, Finishes, Leaves, Goto, PassPoints
    <3> QED
      BY <3>2
  <2>6. ~Cancels(j) /\ ~Retries(j)
    BY <1>0, <1>1, <2>3, SpendKeeps DEF Cancels, Retries
  <2>7. ~Reaps(j)
    <3>1. InHand(j)
      BY <2>3 DEF InHand
    <3> QED
      BY <1>0, <1>1, <3>1, SpendKeeps DEF Reaps
  <2>8. Same(j)
    BY <1>0, <2>2, <2>4, <2>5, <2>6, <2>7, Fate
  <2> QED
    BY <2>1, <2>3, <2>8 DEF Same, HoldsLease, Owns, Mine
<1> QED
  BY <1>0, <1>2, <1>3, OwnStep DEF PassPoints

\* With one extractor, or nobody's lease taken away, there is one extract pass.
LEMMA OnePass ==
  ASSUME Base, Undisputed, NEW v \in Workers, NEW w \in Workers,
         pc[v] \in PassPoints, pc[w] \in PassPoints,
         Mine(v).type \in Extracts, Mine(w).type \in Extracts
  PROVE  v = w
<1>0. pc[v] # "idle" /\ pc[w] # "idle"
  BY DEF PassPoints
<1>1. CASE OneExtractor
  <2>1. Mine(v).type \in Takes[v] /\ Mine(w).type \in Takes[w]
    BY <1>0 DEF Base, Shape, Claimed
  <2> QED
    BY <1>1, <2>1 DEF OneExtractor
<1>2. CASE Intact("stall") /\ Intact("cancel")
  <2>1. HoldsLease(v) /\ HoldsLease(w)
    BY <1>2 DEF Base, Leased
  <2>2. hold[v].job \in Active /\ hold[w].job \in Active
    BY <1>0, <2>1, InHandIsUsed DEF HoldsLease, Mine, Active, Base, Used
  <2> QED
    BY <2>1, <2>2 DEF HoldsLease, Owns, Mine, Base, Shape, OneActive
<1> QED
  BY <1>1, <1>2 DEF Undisputed

\* While an extract is in its pass, nobody else claims its job.
LEMMA NotReclaimed ==
  ASSUME Base, Undisputed, NEW v \in Workers, NEW w \in Workers,
         pc[v] \in PassPoints, Mine(v).type \in Extracts, Claims(w, hold[v].job)
  PROVE  FALSE
<1>0. pc[v] # "idle" /\ pc[w] = "idle"
  BY DEF PassPoints, Claims
<1>1. CASE OneExtractor
  <2>1. Mine(v).type \in Takes[v] /\ Mine(v).type \in Takes[w]
    BY <1>0 DEF Base, Shape, Claimed, Claims, Mine
  <2> QED
    BY <1>0, <1>1, <2>1 DEF OneExtractor
<1>2. CASE Intact("stall") /\ Intact("cancel")
  BY <1>2 DEF Base, Leased, HoldsLease, Claims, Mine
<1> QED
  BY <1>1, <1>2 DEF Undisputed

\* A worker that stays in its pass keeps its job, whose type never changes.
LEMMA TypeStays ==
  ASSUME Shape, Next, NEW v \in Workers, pc'[v] # "idle", ~TakesUp(v)
  PROVE  /\ pc[v] # "idle" /\ hold'[v].job = hold[v].job
         /\ hold[v].job \in Used /\ Mine(v)'.type = Mine(v).type
         /\ (Rests(v) \/ Acts(v))
<1>1. pc[v] # "idle" /\ hold'[v].job = hold[v].job /\ (Rests(v) \/ Acts(v))
  BY OwnStep, PassRoute DEF Rests, Route
<1> QED
  BY <1>1, InHandIsUsed, RegistryStep DEF Kept, Mine

LEMMA TakesUpStarts ==
  ASSUME Shape, NEW v \in Workers, TakesUp(v)
  PROVE  pc'[v] = "start"
  BY DEF TakesUp, Claims, Goto, Shape, TypeOK

LEMMA CoverageStep == ASSUME Base, Coverage, Next PROVE Coverage'
<1> SUFFICES ASSUME Undisputed' PROVE (Cloned /\ Keeps /\ Promoted /\ Covered)'
  BY DEF Coverage
<1>0. /\ docs \in [Docs -> [state: DocStates, auto: BOOLEAN]] /\ pc \in [Workers -> Points]
      /\ jobs \in [Jobs -> Job] /\ seen \in [Workers -> SUBSET Docs] /\ Shape
  BY DEF Base, Shape, TypeOK
<1>1. Undisputed /\ Cloned /\ Keeps /\ Promoted /\ Covered
  <2>1. "stall" \in Faults /\ "cancel" \in Faults
    BY DEF Faults
  <2> QED
    BY <1>0, <2>1, BudgetStep DEF Undisputed, Coverage, OneExtractor
<1>2. ASSUME NEW w \in Workers, Marks(w)
      PROVE  pc[w] = "mark" /\ Mine(w).type \in Extracts /\ disk' = disk
  BY <1>0, <1>2 DEF Marks, Shape, Placed, Drives
<1>3. Cloned'
  <2> SUFFICES ASSUME NEW v \in Workers, pc'[v] \in ClonePoints, Mine(v)'.type \in Extracts,
                      NEW d \in Mine(v)'.before, docs'[d].state # "refused"
               PROVE  d \in seen'[v]
    BY DEF Cloned
  <2>0. pc'[v] # "idle" /\ ~TakesUp(v)
    BY <1>0, TakesUpStarts DEF ClonePoints
  <2>1. /\ hold'[v].job = hold[v].job /\ hold[v].job \in Used /\ Mine(v).type \in Extracts
        /\ (Rests(v) \/ Acts(v))
    BY <1>0, <2>0, TypeStays
  <2>2. \/ pc[v] \in ClonePoints /\ seen'[v] = seen[v]
        \/ pc[v] = "gate" /\ Clones(v)
    BY <1>0, <2>0, <2>1, PassRoute, Arrives DEF Rests, Route, ClonePoints
  <2>3. d \in Mine(v).before
    <3>1. ~\E w \in Workers : Claims(w, hold[v].job)
      BY <1>0, <1>1, <2>1, <2>2, NotReclaimed DEF ClonePoints, PassPoints
    <3> QED
      BY <1>0, <2>1, <3>1, BeforeKept DEF Used, Mine
  <2>4. d \in Docs
    BY <1>0, <2>1, <2>3 DEF Used, Job, Mine
  <2>5. CASE pc[v] \in ClonePoints /\ seen'[v] = seen[v]
    BY <1>0, <1>1, <2>1, <2>3, <2>4, <2>5, DocsStep DEF Cloned
  <2>6. CASE Clones(v)
    <3>1. seen'[v] = OnDisk /\ docs' = docs
      BY <1>0, <2>6 DEF Clones
    <3>2. docs[d].state \notin {"absent", "reserved"}
      BY <2>1, <2>3 DEF Base, Before, Mine, Used
    <3> QED
      BY <1>0, <2>4, <3>1, <3>2 DEF OnDisk, DocStates
  <2> QED
    BY <2>2, <2>5, <2>6
<1>4. Keeps'
  <2> SUFFICES ASSUME NEW v \in Workers, pc'[v] = "work", Mine(v)'.type \in Extracts,
                      NEW d \in Docs, docs'[d].state = "read"
               PROVE  d \in seen'[v]
    BY DEF Keeps
  <2>0. pc'[v] # "idle" /\ ~TakesUp(v)
    BY <1>0, TakesUpStarts
  <2>1. Mine(v).type \in Extracts /\ (Rests(v) \/ Acts(v))
    BY <1>0, <2>0, TypeStays
  <2>2. \/ pc[v] = "work" /\ seen'[v] = seen[v]
        \/ pc[v] = "gate" /\ Clones(v)
    BY <1>0, <2>0, <2>1, PassRoute, Arrives DEF Rests, Route
  <2>3. docs[d].state = "read"
    <3>1. ASSUME NEW w \in Workers, Marks(w) PROVE FALSE
      BY <1>1, <1>2, <2>1, <2>2, <3>1, OnePass DEF PassPoints
    <3> QED
      BY <1>0, <3>1, DocsStep
  <2> QED
    BY <1>0, <1>1, <2>1, <2>2, <2>3 DEF Keeps, Clones, OnDisk
<1>5. Promoted'
  <2> SUFFICES ASSUME NEW v \in Workers, pc'[v] \in {"check", "mark"}, Mine(v)'.type \in Extracts
               PROVE  disk'.covers = seen'[v]
    BY DEF Promoted
  <2>0. pc'[v] # "idle" /\ ~TakesUp(v)
    BY <1>0, TakesUpStarts
  <2>1. Mine(v).type \in Extracts /\ (Rests(v) \/ Acts(v))
    BY <1>0, <2>0, TypeStays
  <2>2. /\ seen'[v] = seen[v]
        /\ pc[v] \in {"check", "mark"} \/ (pc[v] = "work" /\ Promotes(v))
    BY <1>0, <2>0, <2>1, PassRoute, Arrives DEF Rests, Route
  <2>3. CASE Promotes(v)
    BY <2>1, <2>2, <2>3 DEF Promotes, Drives
  <2>4. CASE pc[v] \in {"check", "mark"}
    <3>1. ASSUME NEW w \in Workers, Promotes(w), Drives(w, Extracts) PROVE FALSE
      BY <1>1, <2>1, <2>4, <3>1, OnePass DEF PassPoints, Promotes, Drives
    <3> QED
      BY <1>0, <1>1, <2>1, <2>2, <2>4, <3>1, DiskStep DEF Promoted
  <2> QED
    BY <2>2, <2>3, <2>4
<1>6. Covered'
  <2> SUFFICES ASSUME NEW d \in Docs, docs'[d].state = "read" PROVE d \in disk'.covers
    BY DEF Covered
  <2>1. CASE docs[d].state = "read"
    <3>1. ASSUME NEW w \in Workers, Promotes(w), Drives(w, Extracts), disk'.covers = seen[w]
          PROVE  d \in disk'.covers
      BY <1>1, <2>1, <3>1 DEF Keeps, Promotes, Drives
    <3> QED
      BY <1>0, <1>1, <2>1, <3>1, DiskStep DEF Covered
  <2>2. ASSUME NEW w \in Workers, Marks(w), d \in Mine(w).before, docs[d].state = "received"
        PROVE  d \in disk'.covers
    BY <1>1, <1>2, <2>2 DEF Cloned, Promoted, ClonePoints
  <2> QED
    BY <1>0, <2>1, <2>2, DocsStep
<1> QED
  BY <1>3, <1>4, <1>5, <1>6

-----------------------------------------------------------------------------
(* The chain: what autopilot finds when a done extract is followed up.     *)

LEMMA UnjudgedStep == ASSUME Shape, Unjudged, Next PROVE Unjudged'
<1> SUFFICES ASSUME NEW v \in Workers, pc'[v] \in PassPoints \ {"close"} PROVE ~hold'[v].ok
  BY DEF Unjudged
<1>0. pc'[v] # "idle"
  BY DEF PassPoints
<1>1. CASE TakesUp(v)
  BY <1>1 DEF TakesUp, Claims, Shape, TypeOK
<1>2. CASE ~TakesUp(v)
  <2>1. Rests(v) \/ Acts(v)
    BY <1>0, <1>2, TypeStays
  <2> QED
    BY <1>0, <2>1, PassRoute DEF Rests, Route, PassPoints, Unjudged
<1> QED
  BY <1>1, <1>2

\* A done job is done for good: nothing retries, reaps or claims it.
LEMMA DoneStays ==
  ASSUME Shape, Next, NEW j \in Used, jobs[j].status = "done"
  PROVE  jobs'[j].status = "done" /\ Same(j)
BY Fate DEF Same, Claims, HoldsLease, Mine, Cancels, Retries, Reaps, Active, Used

LEMMA EndedStep == ASSUME Shape, Ended, Next PROVE Ended'
<1> SUFFICES ASSUME NEW v \in Workers,
                    pc'[v] \in {"stragglers", "advance", "offer", "insert", "announce", "blocked"}
             PROVE  Mine(v)'.status = "done"
  BY DEF Ended
<1>0. pc'[v] # "idle" /\ ~TakesUp(v)
  BY TakesUpStarts
<1>1. /\ hold'[v].job = hold[v].job /\ hold[v].job \in Used
      /\ (Rests(v) \/ Acts(v))
  BY <1>0, TypeStays
<1>2. CASE Mine(v).status = "done"
  BY <1>1, <1>2, DoneStays DEF Mine
<1>3. CASE Finishes(v)
  <2>1. hold[v].ok /\ HoldsLease(v)
    BY <1>0, <1>3 DEF Finishes, Goto, Leaves, Shape, TypeOK
  <2>2. jobs' = [jobs EXCEPT ![hold[v].job].status = "done"]
    BY <1>3, <2>1 DEF Finishes
  <2>3. jobs'[hold[v].job].status = "done"
    BY <1>1, <2>2 DEF Shape, TypeOK, Used, Job
  <2> QED
    BY <1>1, <2>3 DEF Mine
<1>4. Mine(v).status = "done" \/ Finishes(v)
  <2>1. CASE Rests(v)
    BY <2>1 DEF Rests, Ended
  <2>2. CASE Acts(v)
    <3>1. <<pc[v], pc'[v]>> \in Route
      BY <1>0, <2>2, PassRoute
    <3>2. CASE pc[v] = "close"
      BY <2>2, <3>1, <3>2, Arrives DEF Route, QueuesMerge
    <3> QED
      BY <3>1, <3>2 DEF Route, Ended
  <2> QED
    BY <1>1, <2>1, <2>2
<1> QED
  BY <1>2, <1>3, <1>4

\* With one extractor nobody else has, takes up or promotes an extract.
LEMMA OneHand ==
  ASSUME Shape, OneExtractor, NEW v \in Workers, pc[v] # "idle", Mine(v).type \in Extracts,
         NEW w \in Workers
  PROVE  /\ pc[w] # "idle" /\ Mine(w).type \in Extracts => w = v
         /\ \A j \in Jobs : jobs[j].type \in Extracts => ~Claims(w, j)
BY DEF Shape, Claimed, OneExtractor, Claims, Extracts

LEMMA SoleStep == ASSUME Shape, Sole, OneExtractor, Next PROVE Sole'
<1> SUFFICES ASSUME NEW v \in Workers, pc'[v] # "idle", Mine(v)'.type \in Extracts,
                    NEW j \in Jobs, jobs'[j].type \in Extracts, jobs'[j].status = "running"
             PROVE  j = hold'[v].job
  BY DEF Sole
<1>1. CASE TakesUp(v)
  <2>1. PICK k \in Jobs : Claims(v, k)
    BY <1>1 DEF TakesUp
  <2>2. hold'[v].job = k /\ jobs'[k].status = "running"
    BY <2>1 DEF Claims, Shape, TypeOK
  <2>3. OneActive'
    BY RegistryStep DEF Registry
  <2>4. k \in Active' /\ j \in Active'
    BY <2>2 DEF Active
  <2> QED
    BY <2>2, <2>3, <2>4 DEF OneActive
<1>2. CASE ~TakesUp(v)
  <2>1. /\ pc[v] # "idle" /\ hold'[v].job = hold[v].job /\ Mine(v).type \in Extracts
    BY <1>2, TypeStays
  <2>2. j \in Used
    BY Born
  <2>3. jobs[j].type \in Extracts
    BY <2>2, RegistryStep DEF Kept
  <2>4. \A w \in Workers : ~Claims(w, j)
    BY <2>1, <2>3, OneHand
  <2>5. CASE Same(j)
    BY <2>1, <2>3, <2>5 DEF Same, Sole
  <2>6. CASE \E w \in Workers : hold[w].job = j /\ HoldsLease(w) /\ (PutsBack(w) \/ Finishes(w))
    BY <2>1, <2>3, <2>6 DEF HoldsLease, Mine, Sole
  <2>7. CASE Cancels(j) \/ Retries(j) \/ Reaps(j)
    <3>1. jobs'[j].status # "running"
      BY <2>7 DEF Cancels, Retries, Reaps, Shape, TypeOK, Job
    <3> QED
      BY <3>1
  <2>8. \/ Same(j)
        \/ \E w \in Workers : Claims(w, j)
        \/ \E w \in Workers : hold[w].job = j /\ HoldsLease(w) /\ (PutsBack(w) \/ Finishes(w))
        \/ Cancels(j) \/ Retries(j) \/ Reaps(j)
    BY <2>2, Fate
  <2> QED
    BY <2>4, <2>5, <2>6, <2>7, <2>8
<1> QED
  BY <1>1, <1>2

\* While an extract is past its promotion, with one extractor, the take-off
\* and what its claim found on disk stay as they are.
LEMMA DiskStays ==
  ASSUME Shape, OneExtractor, Next, NEW v \in Workers, pc[v] \notin {"idle", "work"},
         Mine(v).type \in Extracts
  PROVE  disk' = disk
<1>1. ASSUME NEW w \in Workers, Promotes(w), Drives(w, Extracts) PROVE FALSE
  BY <1>1, OneHand DEF Promotes, Drives
<1> QED
  BY <1>1, DiskStep

LEMMA BeforeStays ==
  ASSUME Shape, OneExtractor, Next, NEW v \in Workers, pc[v] # "idle", Mine(v).type \in Extracts
  PROVE  jobs'[hold[v].job].before \subseteq Mine(v).before
<1>1. hold[v].job \in Jobs
  BY DEF Shape, Claimed
<1>2. \A w \in Workers : ~Claims(w, hold[v].job)
  BY <1>1, OneHand DEF Mine
<1> QED
  BY <1>1, <1>2, BeforeKept DEF Mine

LEMMA StillClonedStep ==
  ASSUME Base, Coverage, Unjudged, StillCloned, OneExtractor, Next PROVE StillCloned'
<1>0. /\ docs \in [Docs -> [state: DocStates, auto: BOOLEAN]] /\ jobs \in [Jobs -> Job] /\ Shape
      /\ Cloned /\ Promoted
  BY DEF Base, Shape, TypeOK, Coverage, Undisputed
<1> SUFFICES ASSUME NEW v \in Workers, pc'[v] \in LatePoints, Mine(v)'.type \in Extracts,
                    pc'[v] = "close" => hold'[v].ok
             PROVE  /\ disk'.covers = seen'[v]
                    /\ \A d \in Mine(v)'.before : docs'[d].state = "refused" \/ d \in seen'[v]
  BY DEF StillCloned
<1>1. pc'[v] # "idle" /\ ~TakesUp(v)
  BY <1>0, TakesUpStarts DEF LatePoints
<1>2. /\ pc[v] # "idle" /\ hold'[v].job = hold[v].job /\ hold[v].job \in Used
      /\ Mine(v).type \in Extracts /\ (Rests(v) \/ Acts(v))
  BY <1>0, <1>1, TypeStays
<1>3. /\ pc[v] \in {"mark"} \cup LatePoints /\ seen'[v] = seen[v]
      /\ pc[v] = "close" => hold[v].ok
  <2>1. CASE Rests(v)
    BY <2>1 DEF Rests
  <2>2. CASE Acts(v)
    <3>1. /\ <<pc[v], pc'[v]>> \in Route
          /\ pc[v] # "gate" => seen'[v] = seen[v]
          /\ pc[v] # "verdict" => hold'[v] = hold[v]
      BY <1>0, <1>1, <2>2, PassRoute
    <3>2. pc[v] \notin {"gate", "work"}
      BY <3>1 DEF Route, LatePoints, Unjudged, PassPoints
    <3>3. pc[v] # "check"
      <4>1. ASSUME pc[v] = "check" PROVE FALSE
        <5>1. Checks(v)
          BY <1>0, <2>2, <3>1, <4>1, Arrives DEF Route, LatePoints, Marks
        <5> QED
          BY <1>1, <1>2, <3>1, <4>1, <5>1 DEF Checks, Drives, Goto, Leaves, Base, Shape, TypeOK, Route, LatePoints
      <4> QED
        BY <4>1
    <3>4. pc[v] = "close" => hold[v].ok
      <4>1. ASSUME pc[v] = "close" PROVE hold[v].ok
        <5>1. Finishes(v)
          BY <1>0, <2>2, <3>1, <4>1, Arrives DEF Route, LatePoints, QueuesMerge
        <5> QED
          BY <1>1, <5>1 DEF Finishes, Goto, Leaves, Base, Shape, TypeOK, LatePoints
      <4> QED
        BY <4>1
    <3> QED
      BY <3>1, <3>2, <3>3, <3>4 DEF Route, LatePoints
  <2> QED
    BY <1>2, <2>1, <2>2
<1>4. /\ disk.covers = seen[v]
      /\ \A d \in Mine(v).before : docs[d].state = "refused" \/ d \in seen[v]
  BY <1>0, <1>2, <1>3 DEF Cloned, Promoted, StillCloned, ClonePoints, LatePoints
<1>5. disk' = disk /\ jobs'[hold[v].job].before \subseteq Mine(v).before
  BY <1>0, <1>2, <1>3, DiskStays, BeforeStays DEF LatePoints
<1>6. Mine(v)'.before \subseteq Mine(v).before
  BY <1>2, <1>5 DEF Mine
<1>7. ASSUME NEW d \in Mine(v).before, docs[d].state = "refused"
      PROVE  docs'[d].state = "refused"
  <2>1. d \in Docs
    BY <1>0, <1>2 DEF Mine, Used, Job
  <2> QED
    BY <1>0, <1>7, <2>1, DocsStep
<1> QED
  BY <1>3, <1>4, <1>5, <1>6, <1>7

\* _persist leaves an extract on the queue or running, its own or another's.
LEMMA InsertQueues ==
  ASSUME Shape, NEW d \in Docs, Inserts(d)
  PROVE  \E j \in Active' : jobs'[j].type \in Extracts
<1>0. docs[d].auto \in BOOLEAN /\ Registry /\ "extract_bid_set" \in Types
  BY TypesOf DEF Shape, TypeOK, Registry
<1>1. enqueue("extract_bid_set", docs[d].auto, TRUE) /\ Clear("extract_bid_set")
  BY DEF Inserts
<1>2. CASE Inserted("extract_bid_set", docs[d].auto)
  <2>1. jobs'[NextId] = New("extract_bid_set", docs[d].auto) /\ NextId \in Jobs
    BY <1>0, <1>2 DEF Inserted, Registry
  <2>2. NextId \in Active'
    BY <1>0, <2>1, NewType DEF Active
  <2> QED
    BY <1>0, <2>1, <2>2, NewType, TypesOf
<1>3. CASE \A k \in Jobs : Same(k) \/ (jobs[k] = Absent /\ jobs'[k] = Absent)
  <2>1. CASE Active = {} /\ NextId \in Jobs
                /\ jobs' = [jobs EXCEPT ![NextId] = New("extract_bid_set", docs[d].auto)]
    <3>1. jobs'[NextId] = New("extract_bid_set", docs[d].auto) /\ NextId \in Jobs
      BY <1>0, <2>1 DEF Registry
    <3>2. NextId \in Active'
      BY <1>0, <3>1, NewType DEF Active
    <3> QED
      BY <1>0, <3>1, <3>2, NewType, TypesOf
  <2>2. CASE Active # {}
    <3>1. PICK j \in Active : TRUE
      BY <2>2
    <3>2. j \in Jobs /\ jobs[j].status \in {"queued", "running"} /\ jobs[j].type = "extract_bid_set"
      BY <1>1, <3>1 DEF Active, Clear
    <3>3. Same(j)
      BY <1>3, <3>2 DEF Absent
    <3>4. j \in Active' /\ jobs'[j].type \in Extracts
      BY <3>2, <3>3, TypesOf DEF Same, Kept, Active
    <3> QED
      BY <3>4
  <2> QED
    BY <1>1, <2>1, <2>2 DEF enqueue
<1> QED
  BY <1>0, <1>1, <1>2, <1>3, EnqueueKeeps

LEMMA GatheredStep ==
  ASSUME Base, Coverage, Ended, Sole, StillCloned, Gathered, OneExtractor, Next PROVE Gathered'
<1> SUFFICES ASSUME NEW v \in Workers, pc'[v] \in ChainPoints, Mine(v)'.type \in Extracts,
                    Intact("cancel")', Intact("mongo")'
             PROVE  \/ \A d \in Docs : docs'[d].state = "received" => d \in disk'.covers
                    \/ \E j \in Active' : jobs'[j].type \in Extracts
  BY DEF Gathered
<1>0. /\ docs \in [Docs -> [state: DocStates, auto: BOOLEAN]] /\ jobs \in [Jobs -> Job] /\ Shape
  BY DEF Base, Shape, TypeOK
<1>1. pc'[v] # "idle" /\ ~TakesUp(v)
  BY <1>0, TakesUpStarts DEF ChainPoints
<1>2. /\ pc[v] # "idle" /\ hold'[v].job = hold[v].job /\ hold[v].job \in Used
      /\ Mine(v).type \in Extracts /\ (Rests(v) \/ Acts(v))
  BY <1>0, <1>1, TypeStays
<1>3. Intact("cancel") /\ Intact("mongo") /\ "cancel" \in Faults /\ "mongo" \in Faults
  BY <1>0, BudgetStep DEF Faults
<1>4. pc[v] \in ChainPoints \/ QueuesMerge(v)
  <2>1. CASE Rests(v)
    BY <2>1 DEF Rests
  <2>2. CASE Acts(v)
    <3>1. <<pc[v], pc'[v]>> \in Route /\ (pc'[v] = "advance" => Finishes(v) \/ QueuesMerge(v))
      BY <1>0, <1>1, <2>2, PassRoute, Arrives
    <3>2. ~Finishes(v)
      BY <1>0, <1>1, <1>2 DEF Finishes, Drives, Goto, Leaves, Shape, TypeOK, ChainPoints
    <3> QED
      BY <3>1, <3>2 DEF Route, ChainPoints
  <2> QED
    BY <1>2, <2>1, <2>2
<1>5. CASE QueuesMerge(v)
  <2>1. pc[v] = "stragglers" /\ docs' = docs /\ disk' = disk
    BY <1>1, <1>5, <1>0, DiskStays, <1>2 DEF QueuesMerge
  <2>2. ~Stragglers(v)
    <3>1. ~Spend("mongo")
      BY <1>0, <1>3, SpendKeeps
    <3> QED
      BY <1>0, <1>1, <1>5, <3>1 DEF QueuesMerge, Leaves, Goto, Shape, TypeOK
  <2>3. \A d \in Docs : docs[d].state = "received" => d \in Mine(v).before
    BY <2>2 DEF Stragglers
  <2> QED
    BY <1>2, <2>1, <2>3 DEF StillCloned, LatePoints
<1>6. CASE pc[v] \in ChainPoints
  <2>1. disk' = disk
    BY <1>0, <1>2, <1>6, DiskStays DEF ChainPoints
  <2>2. CASE \A d \in Docs : docs[d].state = "received" => d \in disk.covers
    <3>1. ASSUME NEW d \in Docs, docs'[d].state = "received"
          PROVE  docs[d].state = "received" \/ Inserts(d)
      BY <1>0, <3>1, DocsStep
    <3> QED
      BY <1>0, <2>1, <2>2, <3>1, InsertQueues
  <2>3. ASSUME NEW j \in Active, jobs[j].type \in Extracts
        PROVE  j \in Active' /\ jobs'[j].type \in Extracts
    <3>0. j \in Jobs /\ j \in Used
      BY DEF Active, Used
    <3>1. jobs[j].status = "queued"
      <4>1. Mine(v).status = "done"
        BY <1>6 DEF Ended, ChainPoints
      <4>2. jobs[j].status # "running"
        BY <1>2, <2>3, <3>0, <4>1 DEF Sole, Mine
      <4> QED
        BY <4>2 DEF Active
    <3>2. \A w \in Workers : ~Claims(w, j)
      BY <1>0, <1>2, <2>3, <3>0, OneHand
    <3>3. ~\E w \in Workers : hold[w].job = j /\ HoldsLease(w) /\ (PutsBack(w) \/ Finishes(w))
      BY <3>1 DEF HoldsLease, Mine
    <3>4. ~Cancels(j) /\ ~Retries(j) /\ ~Reaps(j)
      BY <1>0, <1>3, <3>1, SpendKeeps DEF Cancels, Retries, Reaps
    <3>5. Same(j)
      BY <1>0, <3>0, <3>2, <3>3, <3>4, Fate
    <3> QED
      BY <2>3, <3>0, <3>1, <3>5 DEF Same, Kept, Active
  <2>4. \/ \A d \in Docs : docs[d].state = "received" => d \in disk.covers
        \/ \E j \in Active : jobs[j].type \in Extracts
    BY <1>2, <1>3, <1>6 DEF Gathered
  <2> QED
    BY <2>2, <2>3, <2>4
<1> QED
  BY <1>4, <1>5, <1>6

\* chainState: who may write extraction_done.
LEMMA PlainPostsStep == ASSUME Shape, PlainPosts, Next PROVE PlainPosts'
<1>1. ASSUME NEW j \in Jobs, Retries(j) \/ Reaps(j) PROVE PlainPosts'
  <2>1. \/ posts' = posts
        \/ \E s \in {START_STATE(jobs[j].type), FAIL_STATE(jobs[j].type)} :
              posts' = posts \cup {[job |-> j, state |-> s]}
    BY <1>1 DEF Retries, Reaps
  <2>2. jobs[j].type \in Types
    BY <1>1 DEF Retries, Reaps, Shape, Blank
  <2> QED
    BY <2>1, <2>2, StateTypes DEF PlainPosts
<1>2. CASE posts' \subseteq posts
  BY <1>2 DEF PlainPosts
<1>3. ASSUME NEW d \in Docs, Upload(d) PROVE posts' \subseteq posts
  BY <1>3 DEF Upload, Reserves, Lands, Inserts, Refused
<1>4. ASSUME NEW w \in Workers, TakesUp(w) \/ Acts(w) \/ PutsBack(w) \/ Crashes(w)
      PROVE  posts' \subseteq posts
  BY <1>4, PassTypes DEF Acts, TakesUp, Claims, Declines, Fails, PutsBack, Crashes
<1>5. ASSUME \/ \E j \in Jobs : Cancels(j)
             \/ \E type \in Types : Manual(type)
             \/ StartAutopilot \/ SwitchAutopilot \/ \E p \in posts : Posts(p)
      PROVE  posts' \subseteq posts
  BY <1>5 DEF Cancels, Manual, StartAutopilot, SwitchAutopilot, Posts
<1> QED
  BY <1>1, <1>2, <1>3, <1>4, <1>5 DEF Next, Estimator, Acts

\* chainState comes to say extraction_done by an extract's verdict only.
LEMMA BidStep ==
  ASSUME Shape, PlainPosts, Next, bid'.state = "extraction_done"
  PROVE  \/ bid.state = "extraction_done" /\ \A w \in Workers : ~Starts(w)
         \/ \E w \in Workers : /\ pc[w] = "verdict" /\ pc'[w] = "close"
                               /\ Mine(w).type \in Extracts /\ ~disk.review /\ disk' = disk
<1>0. bid \in [state: States, auto: BOOLEAN] /\ pc \in [Workers -> Points]
  BY DEF Shape, TypeOK
<1>1. ASSUME NEW w \in Workers, Starts(w) PROVE FALSE
  <2>1. START_STATE(Mine(w).type) # "extraction_done"
    BY <1>1, InHandIsUsed, StateTypes DEF Starts
  <2> QED
    BY <1>1, <2>1 DEF Starts, set_state
<1>2. CASE bid'.state = bid.state
  BY <1>1, <1>2
<1>3. ASSUME NEW w \in Workers, Verdict(w)
      PROVE  \/ bid'.state = bid.state
             \/ /\ pc[w] = "verdict" /\ pc'[w] = "close"
                /\ Mine(w).type \in Extracts /\ ~disk.review /\ disk' = disk
  BY <1>0, <1>3 DEF Verdict, set_state, Drives, Goto, NEEDS_REVIEW
<1>4. ASSUME NEW w \in Workers, Announces(w) \/ Blocks(w) \/ Buries(w) PROVE FALSE
  <2>1. Mine(w).type \in Types
    BY <1>4, InHandIsUsed DEF Announces, Blocks, Buries, Writes
  <2>2. /\ FAIL_STATE(Mine(w).type) # "extraction_done"
        /\ Announces(w) => START_STATE(next_in_chain(Mine(w).type)) # "extraction_done"
    BY <2>1, StateTypes DEF Announces, Writes, Shape, Placed
  <2> QED
    BY <1>4, <2>2 DEF Announces, Blocks, Buries, Writes, set_state
<1>5. ASSUME NEW w \in Workers, Acts(w), ~Verdict(w) PROVE bid'.state = bid.state
  <2>1. CASE \/ Clones(w) \/ Promotes(w) \/ Checks(w) \/ Marks(w) \/ Declines(w) \/ Fails(w)
    BY <2>1 DEF Clones, Promotes, Checks, Marks, Declines, Fails
  <2>2. CASE \/ Advances(w) \/ Offers(w) \/ MarksFailed(w) \/ Finishes(w)
             \/ QueuesMerge(w) \/ QueuesNext(w) \/ Regroups(w)
    BY <2>2 DEF Advances, Offers, MarksFailed, Finishes, QueuesMerge, QueuesNext, Regroups
  <2> QED
    BY <1>1, <1>4, <1>5, <2>1, <2>2 DEF Acts, Pass
<1>6. ASSUME NEW w \in Workers, TakesUp(w) \/ PutsBack(w) \/ Crashes(w) PROVE bid' = bid
  BY <1>6 DEF TakesUp, Claims, PutsBack, Crashes
<1>7. ASSUME NEW d \in Docs, Upload(d) PROVE bid' = bid
  BY <1>7 DEF Upload, Reserves, Lands, Inserts, Refused
<1>8. ASSUME NEW p \in posts, Posts(p) PROVE FALSE
  BY <1>8 DEF Posts, set_state, PlainPosts
<1>9. ASSUME \/ \E j \in Jobs : Cancels(j) \/ Retries(j) \/ Reaps(j)
             \/ \E type \in Types : Manual(type)
             \/ StartAutopilot \/ SwitchAutopilot
      PROVE  bid'.state = bid.state
  BY <1>0, <1>9 DEF Cancels, Retries, Reaps, Manual, StartAutopilot, SwitchAutopilot
<1> QED
  BY <1>2, <1>3, <1>5, <1>6, <1>7, <1>8, <1>9 DEF Next, Estimator, Acts

LEMMA ReviewingStep ==
  ASSUME Shape, OneExtractor, PlainPosts, Reviewing, Next PROVE Reviewing'
<1>0. pc \in [Workers -> Points] /\ DoneIsReviewed /\ NoVerdictYet /\ AdvancedReviewed
  BY DEF Shape, TypeOK, Reviewing
<1>1. DoneIsReviewed'
  <2> SUFFICES ASSUME bid'.state = "extraction_done" PROVE ~disk'.review
    BY DEF DoneIsReviewed
  <2>1. CASE bid.state = "extraction_done"
    <3>1. ASSUME NEW w \in Workers, Promotes(w), Drives(w, Extracts) PROVE FALSE
      BY <1>0, <2>1, <3>1 DEF NoVerdictYet, ReviewPoints, Promotes, Drives
    <3> QED
      BY <1>0, <2>1, <3>1, DiskStep DEF DoneIsReviewed
  <2> QED
    BY <2>1, BidStep
<1>2. NoVerdictYet'
  <2> SUFFICES ASSUME NEW v \in Workers, pc'[v] \in ReviewPoints, Mine(v)'.type \in Extracts,
                      bid'.state = "extraction_done"
               PROVE  FALSE
    BY DEF NoVerdictYet
  <2>0. pc'[v] # "idle" /\ ~TakesUp(v)
    BY TakesUpStarts DEF ReviewPoints
  <2>1. pc[v] # "idle" /\ Mine(v).type \in Extracts /\ (Rests(v) \/ Acts(v))
    BY <2>0, TypeStays
  <2>2. pc[v] \in ReviewPoints \/ Starts(v)
    <3>1. Acts(v) => <<pc[v], pc'[v]>> \in Route
      BY <2>0, PassRoute
    <3> QED
      BY <2>1, <3>1, Arrives DEF Rests, Route, ReviewPoints
  <2>3. ASSUME NEW w \in Workers, pc[w] = "verdict", pc'[w] = "close", Mine(w).type \in Extracts
        PROVE  FALSE
    <3>1. w = v
      BY <2>1, <2>3, OneHand
    <3> QED
      BY <2>3, <3>1 DEF ReviewPoints
  <2> QED
    BY <1>0, <2>1, <2>2, <2>3, BidStep DEF NoVerdictYet
<1>3. AdvancedReviewed'
  <2> SUFFICES ASSUME NEW v \in Workers, pc'[v] \in {"offer", "insert"}, Mine(v)'.type \in Extracts
               PROVE  ~disk'.review
    BY DEF AdvancedReviewed
  <2>0. pc'[v] # "idle" /\ ~TakesUp(v)
    BY TakesUpStarts
  <2>1. pc[v] # "idle" /\ Mine(v).type \in Extracts /\ (Rests(v) \/ Acts(v))
    BY <2>0, TypeStays
  <2>2. pc[v] \in {"offer", "insert"} \/ (pc[v] = "advance" /\ Advances(v))
    <3>1. Acts(v) => <<pc[v], pc'[v]>> \in Route
      BY <2>0, PassRoute
    <3> QED
      BY <2>1, <3>1, Arrives DEF Rests, Route
  <2>3. disk' = disk
    BY <2>1, <2>2, DiskStays
  <2>4. CASE Advances(v)
    <3>1. can_advance(Mine(v).type, bid.state)
      BY <1>0, <2>0, <2>4 DEF Advances, Leaves, Goto
    <3> QED
      BY <1>0, <2>1, <2>3, <3>1 DEF can_advance, DoneIsReviewed, Extracts
  <2> QED
    BY <1>0, <2>1, <2>2, <2>3, <2>4 DEF AdvancedReviewed
<1> QED
  BY <1>1, <1>2, <1>3 DEF Reviewing

-----------------------------------------------------------------------------
(* The theorems.                                                           *)

LEMMA InitIInv == Init => IInv
<1> SUFFICES ASSUME Init PROVE IInv
  OBVIOUS
<1>0. /\ jobs = [j \in Jobs |-> Absent] /\ pc = [w \in Workers |-> "idle"]
      /\ hold = [w \in Workers |-> NoClaim] /\ posts = {} /\ budget = Budget
  BY DEF Init
<1>1. TypeOK
  BY AbsentType, ChainAssumption DEF Init, TypeOK, DocStates, States, Points, Held, NoClaim
<1>2. Used = {} /\ Active = {}
  BY <1>0 DEF Used, Active, Absent
<1>3. Blank /\ OneActive /\ Claimed /\ Placed /\ Before
  BY <1>0, <1>2 DEF Blank, OneActive, Claimed, Placed, Before, Absent
<1>4. InOrder
  <2>1. 0 \in 0 .. MaxJobs /\ 1 .. 0 = {}
    BY ChainAssumption
  <2> QED
    BY <1>2, <2>1 DEF InOrder
<1>5. Within
  BY <1>0, ChainAssumption DEF Within
<1>6. Leased /\ Coverage
  BY <1>0 DEF Init, Leased, PassPoints, Coverage, Cloned, Keeps, Promoted, Covered, ClonePoints
<1>7. Unjudged /\ Ended /\ PlainPosts
  BY <1>0 DEF Unjudged, Ended, PlainPosts, PassPoints
<1>8. Sole /\ StillCloned /\ Gathered /\ Reviewing
  BY <1>0 DEF Init, Sole, StillCloned, Gathered, Reviewing, DoneIsReviewed, NoVerdictYet,
              AdvancedReviewed, LatePoints, ChainPoints, ReviewPoints
<1> QED
  BY <1>1, <1>3, <1>4, <1>5, <1>6, <1>7, <1>8 DEF IInv, Shape

LEMMA Stutter ==
  ASSUME IInv, UNCHANGED vars PROVE IInv'
<1> USE DEF vars
<1>1. Shape'
  BY DEF IInv, Shape, TypeOK, Blank, InOrder, OneActive, Within, Claimed, Placed, Used, Active,
         Mine, Drives
<1>2. Before' /\ Leased' /\ Unjudged' /\ Ended' /\ PlainPosts'
  BY DEF IInv, Before, Leased, Unjudged, Ended, PlainPosts, Intact, HoldsLease, Owns, Mine
<1>3. Coverage'
  BY DEF IInv, Coverage, Undisputed, OneExtractor, Cloned, Keeps, Promoted, Covered, Intact, Mine
<1>4. (OneExtractor => Sole /\ StillCloned /\ Gathered /\ Reviewing)'
  BY DEF IInv, OneExtractor, Sole, StillCloned, Gathered, Reviewing, DoneIsReviewed, NoVerdictYet,
         AdvancedReviewed, Intact, Mine, Active
<1> QED
  BY <1>1, <1>2, <1>3, <1>4 DEF IInv

LEMMA StepIInv == IInv /\ [Next]_vars => IInv'
<1> SUFFICES ASSUME IInv, Next PROVE IInv'
  BY Stutter
<1>1. Base
  BY DEF IInv, Base
<1>2. Shape' /\ Before' /\ Leased' /\ Coverage'
  BY <1>1, ShapeStep, BeforeStep, LeasedStep, CoverageStep DEF IInv
<1>3. Unjudged' /\ Ended' /\ PlainPosts'
  BY UnjudgedStep, EndedStep, PlainPostsStep DEF IInv
<1>4. ASSUME OneExtractor PROVE Sole' /\ StillCloned' /\ Gathered' /\ Reviewing'
  BY <1>1, <1>4, SoleStep, StillClonedStep, GatheredStep, ReviewingStep DEF IInv
<1>5. OneExtractor' <=> OneExtractor
  BY DEF OneExtractor
<1> QED
  BY <1>2, <1>3, <1>4, <1>5 DEF IInv

LEMMA Invariant == Spec => []IInv
<1>1. Spec => Init /\ [][Next]_vars
  BY DEF Spec
<1> QED
  BY <1>1, InitIInv, StepIInv, PTL

\* Every write of the saga leaves documents of the right shape.
THEOREM BidChainTypeCorrect == Spec => []TypeOK
<1>1. IInv => TypeOK
  BY DEF IInv, Shape
<1> QED
  BY <1>1, Invariant, PTL

\* With one extractor, or as long as nobody cancels a run, a document shown as
\* read is covered by the take-off on disk, in every state (mark_received,
\* promote_workspace).  With one extractor a stall does no harm either.
THEOREM ReadStaysCovered ==
  Spec => [](/\ OneExtractor \/ Intact("cancel") => ReadIsCovered
             /\ OneExtractor => Covered)
<1>1. IInv => /\ OneExtractor \/ Intact("cancel") => ReadIsCovered
              /\ OneExtractor => Covered
  BY DEF IInv, Shape, Coverage, Undisputed, Covered, ReadIsCovered
<1> QED
  BY <1>1, Invariant, PTL

\* Who queues pricing comes from an extract.
LEMMA PricingInserted ==
  ASSUME Shape, NEW w \in Workers, ChainInserts(w, "match_and_price")
  PROVE  /\ pc[w] = "insert" /\ Mine(w).type \in Extracts /\ Active = {}
<1>0. pc[w] = "insert" /\ Registry
  BY DEF ChainInserts, QueuesNext, Shape, TypeOK, Registry
<1>1. Mine(w).type \in Types /\ next_in_chain(Mine(w).type) \in Types
  BY <1>0, InHandIsUsed, StateTypes DEF Shape, Placed
<1>2. jobs'[NextId] # jobs[NextId] /\ NextId \in Jobs /\ jobs[NextId].type = NoType
      /\ jobs'[NextId].type = "match_and_price"
  BY DEF ChainInserts, NoType
<1>3. enqueue(next_in_chain(Mine(w).type), TRUE, FALSE)
  BY <1>2 DEF ChainInserts, QueuesNext
<1>4. ~(\A k \in Jobs : Same(k) \/ (jobs[k] = Absent /\ jobs'[k] = Absent))
  BY <1>2 DEF Same, Kept, NoType
<1>5. Inserted(next_in_chain(Mine(w).type), TRUE)
  BY <1>0, <1>1, <1>3, <1>4, EnqueueKeeps
<1>6. next_in_chain(Mine(w).type) = "match_and_price" /\ Active = {}
  BY <1>0, <1>1, <1>2, <1>5, NewType DEF Inserted, Registry
<1> QED
  BY <1>0, <1>1, <1>6 DEF next_in_chain, Extracts, Types, NoType

\* With one extractor, autopilot inserts a pricing job only when every received
\* or read PDF is in the take-off (_queue_straggler_reextract,
\* maybe_continue_chain).
THEOREM PricingIsMerged ==
  OneExtractor => (Spec => MergedBeforePricing)
<1> SUFFICES ASSUME OneExtractor PROVE Spec => MergedBeforePricing
  OBVIOUS
<1>1. ASSUME IInv, NEW w \in Workers, ChainInserts(w, "match_and_price"),
             Intact("cancel"), Intact("mongo"),
             NEW d \in Docs, docs[d].state \in {"received", "read"}
      PROVE  d \in disk.covers
  <2>1. pc[w] = "insert" /\ Mine(w).type \in Extracts /\ Active = {}
    BY <1>1, PricingInserted DEF IInv
  <2>2. Covered /\ Gathered
    BY <1>1 DEF IInv, Coverage, Undisputed
  <2> QED
    BY <1>1, <2>1, <2>2 DEF Covered, Gathered, ChainPoints
<1>2. IInv => [\A w \in Workers :
                 ChainInserts(w, "match_and_price") /\ Intact("cancel") /\ Intact("mongo")
                   => \A d \in Docs : docs[d].state \in {"received", "read"} => d \in disk.covers]_vars
  BY <1>1
<1> QED
  BY <1>2, Invariant, PTL DEF MergedBeforePricing

\* With one extractor, autopilot inserts a pricing job only over a take-off
\* that needs no review (can_advance), whoever writes chainState in between.
THEOREM PricingIsReviewed ==
  OneExtractor => (Spec => ReviewedBeforePricing)
<1> SUFFICES ASSUME OneExtractor PROVE Spec => ReviewedBeforePricing
  OBVIOUS
<1>1. ASSUME IInv, NEW w \in Workers, ChainInserts(w, "match_and_price")
      PROVE  ~disk.review
  <2>1. pc[w] = "insert" /\ Mine(w).type \in Extracts
    BY <1>1, PricingInserted DEF IInv
  <2> QED
    BY <1>1, <2>1 DEF IInv, Reviewing, AdvancedReviewed
<1>2. IInv => [\A w \in Workers :
                 ChainInserts(w, "match_and_price") /\ Intact("stall") => ~disk.review]_vars
  BY <1>1
<1> QED
  BY <1>2, Invariant, PTL DEF ReviewedBeforePricing
=============================================================================
