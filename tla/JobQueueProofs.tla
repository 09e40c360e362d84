---------------------------- MODULE JobQueueProofs ----------------------------
(***************************************************************************)
(* Theorems about JobQueue, for every number of jobs and workers, every    *)
(* assignment of jobs to bids and every budget of faults.                  *)
(***************************************************************************)
EXTENDS JobQueue, TLAPS

-----------------------------------------------------------------------------
(* The documents of the collection: what each kind of update leaves.       *)

LEMMA Amended ==
  ASSUME NEW d \in JobDoc, NEW s \in Statuses, NEW v \in Workers \cup {NoWorker},
         NEW g \in Nat, NEW a \in Int, NEW b \in Beats, NEW u \in BOOLEAN
  PROVE  /\ [d EXCEPT !.status = s] \in JobDoc
         /\ [d EXCEPT !.beat = b] \in JobDoc
         /\ [d EXCEPT !.due = u] \in JobDoc
         /\ [d EXCEPT !.gen = g] \in JobDoc
         /\ [d EXCEPT !.status = s, !.due = u] \in JobDoc
         /\ [d EXCEPT !.status = s, !.beat = b, !.due = u] \in JobDoc
         /\ [d EXCEPT !.status = s, !.beat = b, !.worker = v, !.gen = g] \in JobDoc
         /\ [d EXCEPT !.status = s, !.beat = b, !.worker = v, !.gen = g, !.attempts = a]
              \in JobDoc
         /\ [d EXCEPT !.status = s, !.attempts = a, !.worker = v, !.beat = b, !.due = u]
              \in JobDoc
  BY Zenon DEF JobDoc

LEMMA FencedType ==
  ASSUME NEW d \in JobDoc
  PROVE  [d EXCEPT !.gen = @ + 1] \in JobDoc
<1>1. d.gen + 1 \in Nat
  BY DEF JobDoc
<1> QED
  BY <1>1, Zenon DEF JobDoc

LEMMA PutType ==
  ASSUME doc \in [Jobs -> JobDoc], NEW j \in Jobs, NEW d \in JobDoc, Put(j, d)
  PROVE  doc' \in [Jobs -> JobDoc]
  BY DEF Put

LEMMA ReturnedType ==
  ASSUME NEW d \in JobDoc, NEW a \in Int, NEW u \in BOOLEAN
  PROVE  Returned(d, a, u) \in JobDoc
<1>1. "queued" \in Statuses /\ "none" \in Beats
  BY DEF Statuses, Beats
<1> QED
  BY Amended, <1>1 DEF Returned

LEMMA ClaimedType ==
  ASSUME doc \in [Jobs -> JobDoc], NEW j \in Jobs, NEW w \in Workers
  PROVE  Claimed(w, j) \in JobDoc
<1>1. "running" \in Statuses /\ "fresh" \in Beats
  BY DEF Statuses, Beats
<1>2. doc[j].gen + 1 \in Nat /\ doc[j].attempts + 1 \in Int
  BY DEF JobDoc
<1> QED
  BY Amended, <1>1, <1>2 DEF Claimed

LEMMA StatusType ==
  ASSUME doc \in [Jobs -> JobDoc], NEW j \in Jobs
  PROVE  [doc[j] EXCEPT !.status = "cancelled"] \in JobDoc
  BY DEF JobDoc, Statuses

LEMMA ClockType ==
  ASSUME doc \in [Jobs -> JobDoc], NEW j \in Jobs
  PROVE  /\ [doc[j] EXCEPT !.due = TRUE] \in JobDoc
         /\ [doc[j] EXCEPT !.due = FALSE] \in JobDoc
         /\ [doc[j] EXCEPT !.beat = "stale"] \in JobDoc
         /\ [doc[j] EXCEPT !.beat = "fresh"] \in JobDoc
<1>1. [doc[j] EXCEPT !.due = TRUE] \in JobDoc
  BY DEF JobDoc
<1>2. [doc[j] EXCEPT !.due = FALSE] \in JobDoc
  BY DEF JobDoc
<1>3. [doc[j] EXCEPT !.beat = "stale"] \in JobDoc
  BY DEF JobDoc, Beats
<1>4. [doc[j] EXCEPT !.beat = "fresh"] \in JobDoc
  BY DEF JobDoc, Beats
<1> QED
  BY <1>1, <1>2, <1>3, <1>4

LEMMA LeavesType ==
  ASSUME TypeOK, NEW w \in Workers, Leaves(w)
  PROVE  /\ pc' \in [Workers -> Points]
         /\ run' \in [Workers -> Claims]
         /\ call' \in [Workers -> Calls]
         /\ InHand'
  BY DEF TypeOK, InHand, Leaves, Forgets, Goto, Points, Holding, Claims, Calls,
         Kinds, NoClaim, NoCall, NoJob

LEMMA EscapesType ==
  ASSUME TypeOK, NEW w \in Workers, Escapes(w), pc[w] \in Holding
  PROVE  /\ pc' \in [Workers -> Points]
         /\ run' \in [Workers -> Claims]
         /\ call' \in [Workers -> Calls]
         /\ InHand'
<1>1. CASE call[w].rescue
  BY <1>1, LeavesType DEF Escapes
<1>2. CASE ~call[w].rescue
  <2>1. pc' \in [Workers -> Points] /\ InHand' /\ run' \in [Workers -> Claims]
    BY <1>2 DEF Escapes, TypeOK, InHand, Goto, Points, Holding
  <2>2. Rescue \in Calls
    BY DEF Rescue, Calls, Kinds
  <2>3. call' \in [Workers -> Calls]
    BY <1>2, <2>2 DEF Escapes, TypeOK
  <2> QED
    BY <2>1, <2>3
<1> QED
  BY <1>1, <1>2

LEMMA EndStatusType == \A w \in Workers : EndStatus(w) \in {"done", "queued", "dead"}
  BY DEF EndStatus

LEMMA AnnounceType ==
  ASSUME TypeOK, NEW w \in Workers, NEW s \in Statuses, run[w].job \in Jobs,
         Announce(w, s)
  PROVE  told' \subseteq Ending
  BY DEF TypeOK, Announce, Ending

LEMMA SpendType ==
  ASSUME TypeOK, NEW f \in Faults, Spend(f)
  PROVE  budget' \in [Faults -> Nat]
  BY DEF TypeOK, Spend

-----------------------------------------------------------------------------
(* Type correctness.                                                       *)

LEMMA TypeInit == Init => TypeOK
<1> SUFFICES ASSUME Init PROVE TypeOK
  OBVIOUS
<1>1. NoDoc \in JobDoc
  BY DEF NoDoc, JobDoc, Statuses, Beats
<1> QED
  BY <1>1, QueueAssumption DEF Init, TypeOK, InHand, NoClaim, NoCall, Claims, Calls, Kinds, Points,
              Holding, NoJob

LEMMA TypeClaim == ASSUME TypeOK, NEW w \in Workers, Claim(w) PROVE TypeOK'
<1>1. PICK j \in Candidates(w) :
        /\ Put(j, Claimed(w, j))
        /\ run' = [run EXCEPT ![w] = [job |-> j, gen |-> Claimed(w, j).gen,
                                      attempts |-> Claimed(w, j).attempts]]
        /\ Goto(w, IF j \in Exclusive THEN "gateRead" ELSE "work")
  BY DEF Claim
<1>2. j \in Jobs
  BY QueueAssumption DEF Candidates
<1>3. Claimed(w, j) \in JobDoc
  BY <1>2, ClaimedType DEF TypeOK
<1>4. doc' \in [Jobs -> JobDoc]
  BY <1>1, <1>2, <1>3, PutType DEF TypeOK
<1>5. run' \in [Workers -> Claims]
  BY <1>1, <1>2, <1>3 DEF TypeOK, Claims, JobDoc
<1>6. pc' \in [Workers -> Points]
  BY <1>1 DEF TypeOK, Goto, Points, Holding
<1>7. InHand'
  BY <1>1, <1>2 DEF TypeOK, InHand, Goto
<1> QED
  BY <1>4, <1>5, <1>6, <1>7 DEF TypeOK, Claim, Bid

LEMMA TypeReap == ASSUME TypeOK, NEW w \in Workers, Reap(w) PROVE TypeOK'
<1> DEFINE d(r) == doc[r.job]
           Fenced(r) == d(r).status = "running" /\ d(r).gen = r.gen
<1>1. PICK r \in todo[w] :
        /\ todo' = [todo EXCEPT ![w] = @ \ {r}]
        /\ \/ /\ Put(r.job, [Returned(d(r), d(r).attempts, TRUE) EXCEPT !.gen = @ + 1])
              /\ Goto(w, NextReap(todo[w] \ {r}))
              /\ UNCHANGED run
           \/ /\ Put(r.job, [d(r) EXCEPT !.status = "dead", !.beat = "none",
                               !.worker = NoWorker, !.gen = @ + 1])
              /\ Goto(w, "bury")
              /\ run' = [run EXCEPT ![w] = r]
           \/ /\ Goto(w, NextReap(todo[w] \ {r}))
              /\ UNCHANGED <<doc, run>>
  BY DEF Reap
<1>2. r \in [job: Jobs, gen: Nat, attempts: Int] /\ d(r) \in JobDoc
  BY DEF TypeOK
<1>3. d(r).attempts \in Int /\ d(r).gen + 1 \in Nat
  BY <1>2 DEF JobDoc
<1>4. todo' \in [Workers -> SUBSET [job: Jobs, gen: Nat, attempts: Int]]
  BY <1>1 DEF TypeOK
<1>5. NextReap(todo[w] \ {r}) \in {"idle", "reap"}
  BY DEF NextReap
<1>6. CASE /\ Put(r.job, [Returned(d(r), d(r).attempts, TRUE) EXCEPT !.gen = @ + 1])
           /\ Goto(w, NextReap(todo[w] \ {r}))
           /\ UNCHANGED run
  <2>1. Returned(d(r), d(r).attempts, TRUE) \in JobDoc
    BY <1>2, <1>3, ReturnedType
  <2>2. [Returned(d(r), d(r).attempts, TRUE) EXCEPT !.gen = @ + 1] \in JobDoc
    BY <2>1, FencedType
  <2>3. doc' \in [Jobs -> JobDoc]
    BY <1>2, <1>6, <2>2, PutType DEF TypeOK
  <2> QED
    BY <1>4, <1>5, <1>6, <2>3 DEF TypeOK, InHand, Goto, Points, Holding, Reap, Bid
<1>7. CASE /\ Put(r.job, [d(r) EXCEPT !.status = "dead", !.beat = "none",
                            !.worker = NoWorker, !.gen = @ + 1])
           /\ Goto(w, "bury")
           /\ run' = [run EXCEPT ![w] = r]
  <2>1. "dead" \in Statuses /\ "none" \in Beats
    BY DEF Statuses, Beats
  <2>2. [d(r) EXCEPT !.status = "dead", !.beat = "none", !.worker = NoWorker,
                     !.gen = @ + 1] \in JobDoc
    BY <1>2, <1>3, <2>1, Zenon DEF JobDoc
  <2>3. doc' \in [Jobs -> JobDoc]
    BY <1>2, <1>7, <2>2, PutType DEF TypeOK
  <2> QED
    BY <1>2, <1>4, <1>7, <2>3 DEF TypeOK, InHand, Goto, Points, Holding, Claims, Reap, Bid
<1>8. CASE Goto(w, NextReap(todo[w] \ {r})) /\ UNCHANGED <<doc, run>>
  BY <1>4, <1>5, <1>8 DEF TypeOK, InHand, Goto, Points, Holding, Reap, Bid
<1> QED
  BY <1>1, <1>6, <1>7, <1>8

LEMMA TypeBury == ASSUME TypeOK, NEW w \in Workers, Bury(w) PROVE TypeOK'
<1>1. run[w].job \in Jobs
  BY DEF TypeOK, InHand, Bury
<1>2. told' \subseteq Ending
  BY <1>1, AnnounceType DEF Bury, Statuses
<1>3. pc' \in [Workers -> Points] /\ InHand'
  BY DEF TypeOK, InHand, Bury, NextReap, Forgets, Goto, Points, Holding
<1>4. run' \in [Workers -> Claims] /\ call' \in [Workers -> Calls]
  BY DEF TypeOK, Bury, Forgets, NoClaim, NoCall, NoJob, Claims, Calls, Kinds
<1> QED
  BY <1>2, <1>3, <1>4 DEF TypeOK, Bury

LEMMA TypeGateDefer == ASSUME TypeOK, NEW w \in Workers, GateDefer(w) PROVE TypeOK'
<1> DEFINE j == run[w].job
<1>1. j \in Jobs
  BY DEF TypeOK, InHand, GateDefer, Holding
<1>2. doc[j] \in JobDoc /\ doc[j].attempts - 1 \in Int
  BY <1>1 DEF TypeOK, JobDoc
<1>3. Returned(doc[j], doc[j].attempts - 1, FALSE) \in JobDoc
  BY <1>2, ReturnedType
<1>4. doc' \in [Jobs -> JobDoc]
  BY <1>1, <1>3, PutType DEF TypeOK, GateDefer
<1> QED
  BY <1>4, LeavesType DEF TypeOK, GateDefer, Bid

LEMMA TypeShutWrite == ASSUME TypeOK, NEW w \in Workers, ShutWrite(w) PROVE TypeOK'
<1> DEFINE j == run[w].job
<1>1. j \in Jobs /\ pc[w] \in Holding
  BY DEF TypeOK, InHand, ShutWrite, Holding
<1>2. doc[j] \in JobDoc /\ doc[j].attempts - 1 \in Int
  BY <1>1 DEF TypeOK, JobDoc
<1>3. Returned(doc[j], doc[j].attempts - 1, TRUE) \in JobDoc
  BY <1>2, ReturnedType
<1>4. doc' \in [Jobs -> JobDoc]
  BY <1>1, <1>3, PutType DEF TypeOK, ShutWrite
<1>5. Escapes(w) \/ Leaves(w)
  BY DEF ShutWrite
<1> QED
  BY <1>1, <1>4, <1>5, LeavesType, EscapesType DEF TypeOK, ShutWrite, Bid

LEMMA TypeFinRead == ASSUME TypeOK, NEW w \in Workers, FinRead(w) PROVE TypeOK'
<1>1. CASE Leaves(w)
  BY <1>1, LeavesType DEF TypeOK, FinRead, Bid
<1>2. ASSUME NEW p \in {"finCancel", "finWrite"}, Goto(w, p), UNCHANGED <<run, call>>
      PROVE  TypeOK'
  BY <1>2 DEF TypeOK, InHand, FinRead, Goto, Points, Holding, Bid
<1> QED
  BY <1>1, <1>2 DEF FinRead

LEMMA TypeFinCancel == ASSUME TypeOK, NEW w \in Workers, FinCancel(w) PROVE TypeOK'
<1>1. run[w].job \in Jobs
  BY DEF TypeOK, InHand, FinCancel, Holding
<1>2. doc' \in [Jobs -> JobDoc]
  BY <1>1, StatusType, PutType DEF TypeOK, FinCancel
<1> QED
  BY <1>2, LeavesType DEF TypeOK, FinCancel, Bid

LEMMA FinUpdateType ==
  ASSUME TypeOK, NEW w \in Workers, run[w].job \in Jobs, FinUpdate(w)
  PROVE  doc' \in [Jobs -> JobDoc]
<1> DEFINE d == doc[run[w].job]
<1>1. d \in JobDoc
  BY DEF TypeOK
<1>2. EndStatus(w) \in Statuses /\ "none" \in Beats
  BY EndStatusType DEF Statuses, Beats
<1>3. Retryable(w) \in BOOLEAN
  BY DEF Retryable
<1>4. [d EXCEPT !.status = EndStatus(w), !.beat = "none", !.due = ~Retryable(w)] \in JobDoc
  BY <1>1, <1>2, <1>3, Zenon DEF JobDoc
<1> QED
  BY <1>4, PutType DEF TypeOK, FinUpdate

LEMMA TypeFinWrite == ASSUME TypeOK, NEW w \in Workers, FinWrite(w) PROVE TypeOK'
<1>1. pc[w] \in Holding /\ run[w].job \in Jobs
  BY DEF TypeOK, InHand, FinWrite, Holding
<1>2. CASE Escapes(w) /\ UNCHANGED doc
  BY <1>1, <1>2, EscapesType DEF TypeOK, FinWrite, Bid
<1>3. CASE FinUpdate(w) /\ Goto(w, "after") /\ UNCHANGED <<run, call>>
  <2>1. doc' \in [Jobs -> JobDoc]
    BY <1>1, <1>3, FinUpdateType
  <2> QED
    BY <1>1, <1>3, <2>1 DEF TypeOK, InHand, FinWrite, Goto, Points, Holding, Bid
<1> QED
  BY <1>2, <1>3 DEF FinWrite

LEMMA TypeAfter == ASSUME TypeOK, NEW w \in Workers, After(w) PROVE TypeOK'
<1>1. run[w].job \in Jobs
  BY DEF TypeOK, InHand, After, Holding
<1>2. told' \subseteq Ending
  BY <1>1, AnnounceType, EndStatusType DEF After, TypeOK, Statuses
<1> QED
  BY <1>2, LeavesType DEF TypeOK, After

LEMMA TypeEnds ==
  ASSUME TypeOK, NEW w \in Workers, NEW k \in Kinds, NEW b \in BOOLEAN,
         NEW p \in {"finRead", "shutRead"}, Ends(w, k, b, p)
  PROVE  TypeOK'
  BY DEF TypeOK, InHand, Ends, Goto, Points, Holding, Calls, Bid

LEMMA TypeWork ==
  ASSUME TypeOK, NEW w \in Workers,
         Succeeds(w) \/ Fails(w) \/ Raises(w) \/ SeesCancel(w) \/ Interrupted(w)
  PROVE  TypeOK'
  BY TypeEnds DEF Succeeds, Fails, Raises, SeesCancel, Interrupted, Kinds

\* The steps that move a worker along and write nothing.
LEMMA TypeMoves ==
  ASSUME TypeOK, NEW w \in Workers,
         \/ NothingDue(w) \/ Exits(w) \/ Sweep(w) \/ GateRead(w) \/ WaitRead(w)
         \/ ShutRead(w) \/ Restart(w)
  PROVE  TypeOK'
<1>1. CASE NothingDue(w) \/ Exits(w) \/ Restart(w)
  BY <1>1 DEF TypeOK, InHand, NothingDue, Exits, Restart, Goto, Points, Holding, Local, Bid
<1>2. CASE GateRead(w) \/ WaitRead(w) \/ ShutRead(w)
  BY <1>2 DEF TypeOK, InHand, GateRead, WaitRead, ShutRead, Goto, Points, Holding, Local, Bid
<1>3. CASE Sweep(w)
  <2>1. todo' \in [Workers -> SUBSET [job: Jobs, gen: Nat, attempts: Int]]
    BY <1>3 DEF TypeOK, Sweep, Abandoned, JobDoc
  <2> QED
    BY <1>3, <2>1 DEF TypeOK, InHand, Sweep, Goto, Points, Holding, Bid
<1> QED
  BY <1>1, <1>2, <1>3

LEMMA TypeBeat == ASSUME TypeOK, NEW w \in Workers, Beat(w) PROVE TypeOK'
<1>1. run[w].job \in Jobs
  BY DEF TypeOK, InHand, Beat, Holding
<1>2. [doc[run[w].job] EXCEPT !.beat = "fresh"] \in JobDoc
  BY <1>1, ClockType DEF TypeOK
<1>3. doc' \in [Jobs -> JobDoc]
  BY <1>1, <1>2, PutType DEF TypeOK, Beat
<1> QED
  BY <1>3 DEF TypeOK, InHand, Beat, Local, Bid

LEMMA TypeDisturb == ASSUME TypeOK, NEW w \in Workers, Disturb(w) PROVE TypeOK'
<1>1. CASE Crash(w)
  <2>1. budget' \in [Faults -> Nat]
    BY <1>1, SpendType DEF Crash, Faults
  <2>2. run' \in [Workers -> Claims] /\ call' \in [Workers -> Calls]
    BY <1>1 DEF TypeOK, Crash, Forgets, NoClaim, NoCall, NoJob, Claims, Calls, Kinds
  <2>3. pc' \in [Workers -> Points] /\ InHand'
    BY <1>1 DEF TypeOK, InHand, Crash, Forgets, Goto, Points, Holding
  <2> QED
    BY <1>1, <2>1, <2>2, <2>3 DEF TypeOK, Crash
<1>2. CASE Stop(w)
  <2>1. budget' \in [Faults -> Nat]
    BY <1>2, SpendType DEF Stop, Faults
  <2> QED
    BY <1>2, <2>1 DEF TypeOK, InHand, Stop
<1>3. CASE MongoFails(w)
  <2>1. budget' \in [Faults -> Nat]
    BY <1>3, SpendType DEF MongoFails, Faults
  <2>2. pc[w] \in Holding
    BY <1>3 DEF MongoFails, Holding
  <2> QED
    BY <1>3, <2>1, <2>2, EscapesType DEF TypeOK, MongoFails
<1> QED
  BY <1>1, <1>2, <1>3 DEF Disturb

LEMMA TypeEstimator == ASSUME TypeOK, NEW j \in Jobs, Estimator(j) PROVE TypeOK'
<1>1. CASE Enqueue(j)
  <2>1. NoDoc \in JobDoc /\ "queued" \in Statuses
    BY DEF NoDoc, JobDoc, Statuses, Beats
  <2>2. \A b \in BOOLEAN : [NoDoc EXCEPT !.status = "queued", !.due = b] \in JobDoc
    BY <2>1, Zenon DEF JobDoc
  <2>3. doc' \in [Jobs -> JobDoc]
    BY <1>1, <2>2, PutType DEF TypeOK, Enqueue
  <2> QED
    BY <1>1, <2>3 DEF TypeOK, InHand, Enqueue, Local, Bid
<1>2. CASE CancelRead(j)
  <2>1. budget' \in [Faults -> Nat]
    BY <1>2, SpendType DEF CancelRead, Faults
  <2> QED
    BY <1>2, <2>1 DEF TypeOK, InHand, CancelRead, Local
<1>3. CASE CancelWrite(j)
  <2>1. doc' \in [Jobs -> JobDoc]
    BY <1>3, StatusType, PutType DEF TypeOK, CancelWrite
  <2> QED
    BY <1>3, <2>1 DEF TypeOK, InHand, CancelWrite, Local
<1>4. CASE Supersede(j) \/ CancelActive(j)
  <2>1. budget' \in [Faults -> Nat]
    BY <1>4, SpendType DEF Supersede, CancelActive, Faults
  <2>2. doc' \in [Jobs -> JobDoc]
    BY <1>4, StatusType, PutType DEF TypeOK, Supersede, CancelActive
  <2> QED
    BY <1>4, <2>1, <2>2 DEF TypeOK, InHand, Supersede, CancelActive, Local
<1>5. CASE Retry(j)
  <2>1. budget' \in [Faults -> Nat]
    BY <1>5, SpendType DEF Retry, Faults
  <2>2. doc[j] \in JobDoc /\ 0 \in Int
    BY DEF TypeOK
  <2>3. Returned(doc[j], 0, TRUE) \in JobDoc
    BY <2>2, ReturnedType
  <2>4. doc' \in [Jobs -> JobDoc]
    BY <1>5, <2>3, PutType DEF TypeOK, Retry
  <2> QED
    BY <1>5, <2>1, <2>4 DEF TypeOK, InHand, Retry, Local
<1>6. CASE Extend(j)
  <2>1. budget' \in [Faults -> Nat]
    BY <1>6, SpendType DEF Extend, Faults
  <2>2. [doc[j] EXCEPT !.due = FALSE] \in JobDoc
    BY ClockType DEF TypeOK
  <2>3. doc' \in [Jobs -> JobDoc]
    BY <1>6, <2>2, PutType DEF TypeOK, Extend
  <2> QED
    BY <1>6, <2>1, <2>3 DEF TypeOK, InHand, Extend, Local
<1> QED
  BY <1>1, <1>2, <1>3, <1>4, <1>5, <1>6 DEF Estimator

LEMMA TypeClock == ASSUME TypeOK, NEW j \in Jobs, Clock(j) PROVE TypeOK'
<1>1. CASE ComesDue(j)
  <2>1. [doc[j] EXCEPT !.due = TRUE] \in JobDoc
    BY ClockType DEF TypeOK
  <2>2. doc' \in [Jobs -> JobDoc]
    BY <1>1, <2>1, PutType DEF TypeOK, ComesDue
  <2> QED
    BY <1>1, <2>2 DEF TypeOK, InHand, ComesDue, Local, Bid
<1>2. CASE GoesStale(j)
  <2>1. [doc[j] EXCEPT !.beat = "stale"] \in JobDoc
    BY ClockType DEF TypeOK
  <2>2. doc' \in [Jobs -> JobDoc]
    BY <1>2, <2>1, PutType DEF TypeOK, GoesStale
  <2>3. budget' \in [Faults -> Nat]
    BY <1>2, SpendType DEF TypeOK, GoesStale, Faults
  <2> QED
    BY <1>2, <2>2, <2>3 DEF TypeOK, InHand, GoesStale, Local
<1> QED
  BY <1>1, <1>2 DEF Clock

LEMMA TypeStep == TypeOK /\ [Next]_vars => TypeOK'
<1> SUFFICES ASSUME TypeOK, [Next]_vars PROVE TypeOK'
  OBVIOUS
<1>1. CASE UNCHANGED vars
  BY <1>1 DEF TypeOK, InHand, vars
<1>2. ASSUME NEW w \in Workers, Loop(w) PROVE TypeOK'
  BY <1>2, TypeClaim, TypeReap, TypeBury, TypeGateDefer, TypeShutWrite, TypeFinRead,
     TypeFinCancel, TypeFinWrite, TypeAfter, TypeWork, TypeMoves DEF Loop
<1>3. ASSUME NEW w \in Workers, Beat(w) \/ Restart(w) \/ Disturb(w) PROVE TypeOK'
  BY <1>3, TypeBeat, TypeMoves, TypeDisturb
<1>4. ASSUME NEW j \in Jobs, Estimator(j) \/ Clock(j) PROVE TypeOK'
  BY <1>4, TypeEstimator, TypeClock
<1> QED
  BY <1>1, <1>2, <1>3, <1>4 DEF Next

\* Type correctness: no interleaving gives a job, a worker or a reaper's list a
\* value the code could not read back.
THEOREM TypeCorrect == Spec => []TypeOK
  BY TypeInit, TypeStep, PTL DEF Spec

-----------------------------------------------------------------------------
(* Attempts, fencing and exclusivity.  Every step is shown to be lawful in   *)
(* what it does to the documents; lawful steps that put no new claim in a    *)
(* worker's hands and nothing new on a reaper's list preserve IInv; Claim    *)
(* and Sweep, which do, are treated by themselves.                           *)

\* What a step may make of one job.
Moves(j) ==
  LET d == doc[j]
      e == doc'[j]
  IN /\ e.gen >= d.gen
     /\ (e.gen = d.gen /\ e.status = "running")
          => d.status = "running" /\ e.attempts = d.attempts
     /\ (e.gen = d.gen /\ e.worker \in Workers)
          => e.worker = d.worker /\ e.attempts = d.attempts
     /\ e.attempts \in 0 .. MaxAttempts
     /\ e.status = "queued" => e.attempts < MaxAttempts
     /\ e.status = "absent" => e = NoDoc

\* A step touches one job, and makes it active only where the index allows.
Alone(j) ==
  doc'[j] # doc[j] => /\ \A k \in Jobs \ {j} : doc'[k] = doc[k]
                      /\ Active(j)' => Active(j) \/ IndexAllows(j)

Lawful == \A j \in Jobs : Moves(j) /\ Alone(j)

ClaimsKept ==
  \A w \in Workers : pc'[w] \in Holding => pc[w] \in Holding /\ run'[w] = run[w]

SweepsKept == \A w \in Workers : todo'[w] \subseteq todo[w]

LEMMA StutterLawful == ASSUME IInv, UNCHANGED doc PROVE Lawful
  BY DEF IInv, TypeOK, JobDoc, AbsentBlank, AttemptsBounded, Lawful, Moves, Alone

LEMMA PutLawful ==
  ASSUME IInv, NEW j \in Jobs, NEW d \in JobDoc, Put(j, d),
         d.gen >= doc[j].gen,
         (d.gen = doc[j].gen /\ d.status = "running")
           => doc[j].status = "running" /\ d.attempts = doc[j].attempts,
         (d.gen = doc[j].gen /\ d.worker \in Workers)
           => d.worker = doc[j].worker /\ d.attempts = doc[j].attempts,
         d.attempts \in 0 .. MaxAttempts,
         d.status = "queued" => d.attempts < MaxAttempts,
         d.status # "absent",
         d.status \in {"queued", "running"} => Active(j) \/ IndexAllows(j)
  PROVE  Lawful
<1>1. doc'[j] = d /\ \A k \in Jobs \ {j} : doc'[k] = doc[k]
  BY DEF Put, IInv, TypeOK
<1>2. Moves(j)
  BY <1>1 DEF Moves
<1>3. Alone(j)
  BY <1>1 DEF Alone, Active
<1>4. ASSUME NEW k \in Jobs \ {j} PROVE Moves(k) /\ Alone(k)
  BY <1>1, <1>4 DEF IInv, TypeOK, JobDoc, AbsentBlank, AttemptsBounded, Moves, Alone
<1> QED
  BY <1>2, <1>3, <1>4 DEF Lawful

LEMMA LawfulAttempts == ASSUME IInv, Lawful PROVE AttemptsBounded' /\ AbsentBlank'
  BY DEF Lawful, Moves, AttemptsBounded, AbsentBlank

LEMMA LawfulExclusive == ASSUME IInv, Lawful PROVE OneActivePerBid'
<1> SUFFICES ASSUME UniqueIndex, NEW j \in Jobs, NEW k \in Jobs, k \in Rivals(j),
                    Active(j)', Active(k)'
             PROVE  FALSE
  BY DEF OneActivePerBid, Rivals
<1>1. j \in Rivals(k) /\ j # k
  BY DEF Rivals
<1>2. CASE doc'[j] # doc[j]
  <2>1. doc'[k] = doc[k]
    BY <1>1, <1>2 DEF Lawful, Alone
  <2>2. Active(k)
    BY <2>1 DEF Active
  <2>3. Active(j)
    BY <1>2, <2>2 DEF Lawful, Alone, IndexAllows
  <2> QED
    BY <2>2, <2>3 DEF IInv, OneActivePerBid
<1>3. CASE doc'[j] = doc[j]
  <2>1. Active(j)
    BY <1>3 DEF Active
  <2>2. Active(k)
    BY <1>1, <2>1 DEF Lawful, Alone, IndexAllows, Active
  <2> QED
    BY <2>1, <2>2 DEF IInv, OneActivePerBid
<1> QED
  BY <1>2, <1>3

LEMMA LawfulClaims ==
  ASSUME IInv, TypeOK', Lawful, ClaimsKept
  PROVE  ClaimsBehind' /\ ClaimsDistinct' /\ OwnersCount'
<1>1. ASSUME NEW w \in Workers, pc'[w] \in Holding
      PROVE  /\ run'[w] = run[w] /\ pc[w] \in Holding /\ run[w].job \in Jobs
             /\ run[w].gen \in Nat /\ run[w].gen <= doc[run[w].job].gen
             /\ doc[run[w].job].gen \in Nat /\ doc'[run[w].job].gen \in Nat
             /\ doc'[run[w].job].gen >= doc[run[w].job].gen
  BY <1>1 DEF ClaimsKept, IInv, TypeOK, InHand, ClaimsBehind, Claims, JobDoc, Lawful, Moves
<1>2. ClaimsBehind'
  BY <1>1 DEF IInv, ClaimsBehind
<1>3. ClaimsDistinct'
  BY <1>1 DEF IInv, ClaimsDistinct
<1>4. ASSUME NEW w \in Workers, pc'[w] \in Holding, Owns(w)'
      PROVE  doc'[run'[w].job].attempts = run'[w].attempts
  <2>1. doc'[run[w].job].gen = doc[run[w].job].gen /\ doc'[run[w].job].worker = w
    BY <1>1, <1>4 DEF Owns
  <2>2. doc[run[w].job].worker = w /\ doc'[run[w].job].attempts = doc[run[w].job].attempts
    BY <1>1, <1>4, <2>1 DEF Lawful, Moves
  <2> QED
    BY <1>1, <1>4, <2>1, <2>2 DEF IInv, OwnersCount, Owns
<1>5. OwnersCount'
  BY <1>4 DEF OwnersCount
<1> QED
  BY <1>2, <1>3, <1>5

LEMMA LawfulSweeps ==
  ASSUME IInv, TypeOK', Lawful, SweepsKept
  PROVE  SweepsBehind'
<1> SUFFICES ASSUME NEW w \in Workers, NEW r \in todo'[w]
             PROVE  /\ r.gen <= doc'[r.job].gen
                    /\ (doc'[r.job].status = "running" /\ doc'[r.job].gen = r.gen)
                         => doc'[r.job].attempts = r.attempts
  BY DEF SweepsBehind
<1>1. r \in todo[w]
  BY DEF SweepsKept
<1>2. r.job \in Jobs /\ r.gen \in Nat
  BY <1>1 DEF IInv, TypeOK
<1>3. doc[r.job].gen \in Nat /\ doc'[r.job].gen \in Nat
  BY <1>2 DEF IInv, TypeOK, JobDoc
<1>4. r.gen <= doc[r.job].gen /\ doc[r.job].gen <= doc'[r.job].gen
  BY <1>1, <1>2, <1>3 DEF IInv, SweepsBehind, Lawful, Moves
<1>5. (doc'[r.job].status = "running" /\ doc'[r.job].gen = r.gen)
        => doc'[r.job].attempts = r.attempts
  BY <1>1, <1>2, <1>3, <1>4 DEF IInv, SweepsBehind, Lawful, Moves
<1> QED
  BY <1>3, <1>4, <1>5, <1>2

LEMMA LawfulStep ==
  ASSUME IInv, TypeOK', Lawful, ClaimsKept, SweepsKept
  PROVE  IInv'
  BY LawfulAttempts, LawfulExclusive, LawfulClaims, LawfulSweeps DEF IInv
-----------------------------------------------------------------------------
(* What the ways of moving on leave in the workers' hands.                   *)

LEMMA GotoKept ==
  ASSUME TypeOK, NEW w \in Workers, NEW p \in Points, Goto(w, p),
         p \in Holding => pc[w] \in Holding, UNCHANGED <<run, todo>>
  PROVE  ClaimsKept /\ SweepsKept
  BY DEF TypeOK, Goto, ClaimsKept, SweepsKept

LEMMA LeavesKept ==
  ASSUME TypeOK, NEW w \in Workers, Leaves(w), UNCHANGED todo
  PROVE  ClaimsKept /\ SweepsKept
  BY DEF TypeOK, Leaves, Forgets, Goto, Holding, ClaimsKept, SweepsKept

LEMMA EscapesKept ==
  ASSUME TypeOK, NEW w \in Workers, Escapes(w), pc[w] \in Holding, UNCHANGED todo
  PROVE  ClaimsKept /\ SweepsKept
  BY LeavesKept, GotoKept DEF Escapes, Points, Holding

LEMMA StillKept ==
  ASSUME UNCHANGED <<pc, run, todo>>
  PROVE  ClaimsKept /\ SweepsKept
  BY DEF ClaimsKept, SweepsKept

-----------------------------------------------------------------------------
(* The updates are lawful.                                                   *)

LEMMA ReturnedFields ==
  ASSUME NEW d \in JobDoc, NEW a \in Int, NEW u \in BOOLEAN
  PROVE  /\ Returned(d, a, u).status = "queued"
         /\ Returned(d, a, u).worker = NoWorker
         /\ Returned(d, a, u).gen = d.gen
         /\ Returned(d, a, u).attempts = a
  BY DEF Returned, JobDoc

\* A job goes back on the queue with attempts to spend.
LEMMA ReturnLawful ==
  ASSUME IInv, NEW j \in Jobs, NEW a \in 0 .. MaxAttempts, NEW u \in BOOLEAN,
         a < MaxAttempts, Active(j) \/ IndexAllows(j),
         Put(j, Returned(doc[j], a, u))
  PROVE  Lawful
<1>1. doc[j] \in JobDoc /\ a \in Int /\ doc[j].gen \in Nat
  BY DEF IInv, TypeOK, JobDoc
<1>2. Returned(doc[j], a, u) \in JobDoc
  BY <1>1, ReturnedType
<1> DEFINE d == Returned(doc[j], a, u)
<1>3. d.status = "queued" /\ d.worker = NoWorker /\ d.gen = doc[j].gen /\ d.attempts = a
  BY <1>1, ReturnedFields
<1>4. d \in JobDoc /\ Put(j, d)
  BY <1>2
<1> HIDE DEF d
<1> QED
  BY <1>1, <1>3, <1>4, PutLawful, QueueAssumption

\* The worker that holds the newest claim hands the job back, unspent.
LEMMA RefundLawful ==
  ASSUME IInv, NEW w \in Workers, NEW u \in BOOLEAN, pc[w] \in Holding, Owns(w),
         Active(run[w].job) \/ IndexAllows(run[w].job),
         Put(run[w].job, Returned(doc[run[w].job], doc[run[w].job].attempts - 1, u))
  PROVE  Lawful
<1>1. run[w].job \in Jobs
  BY DEF IInv, TypeOK, InHand
<1>2. /\ doc[run[w].job].attempts = run[w].attempts
      /\ run[w].attempts \in 1 .. MaxAttempts
  BY DEF IInv, OwnersCount, ClaimsBehind
<1>3. /\ doc[run[w].job].attempts - 1 \in 0 .. MaxAttempts
      /\ doc[run[w].job].attempts - 1 < MaxAttempts
  BY <1>2, QueueAssumption
<1> QED
  BY <1>1, <1>3, ReturnLawful

LEMMA CancelLawful ==
  ASSUME IInv, NEW j \in Jobs, Put(j, [doc[j] EXCEPT !.status = "cancelled"])
  PROVE  Lawful
<1> DEFINE d == [doc[j] EXCEPT !.status = "cancelled"]
<1>1. d \in JobDoc
  BY StatusType DEF IInv, TypeOK
<1>2. /\ d.status = "cancelled" /\ d.worker = doc[j].worker /\ d.gen = doc[j].gen
      /\ d.attempts = doc[j].attempts
  BY DEF IInv, TypeOK, JobDoc
<1>3. doc[j].gen \in Nat /\ doc[j].attempts \in 0 .. MaxAttempts
  BY DEF IInv, TypeOK, JobDoc, AttemptsBounded
<1>4. Put(j, d)
  OBVIOUS
<1> HIDE DEF d
<1> QED
  BY <1>1, <1>2, <1>3, <1>4, PutLawful

\* A heartbeat or a due date is no claim's business.
LEMMA ClockLawful ==
  ASSUME IInv, NEW j \in Jobs, NEW d \in JobDoc, Put(j, d), doc[j].status # "absent",
         d.status = doc[j].status, d.worker = doc[j].worker, d.gen = doc[j].gen,
         d.attempts = doc[j].attempts
  PROVE  Lawful
<1>1. doc[j].gen \in Nat /\ doc[j].attempts \in 0 .. MaxAttempts
  BY DEF IInv, TypeOK, JobDoc, AttemptsBounded
<1>2. d.status = "queued" => d.attempts < MaxAttempts
  BY DEF IInv, AttemptsBounded
<1>3. d.status \in {"queued", "running"} => Active(j)
  BY DEF Active
<1> QED
  BY <1>1, <1>2, <1>3, PutLawful

LEMMA FinUpdateLawful ==
  ASSUME IInv, NEW w \in Workers, pc[w] \in Holding, FinUpdate(w),
         EndStatus(w) = "queued" => ~Clashes(w)
  PROVE  Lawful
<1> DEFINE j == run[w].job
           d == [doc[j] EXCEPT !.status = EndStatus(w), !.beat = "none",
                               !.due = ~Retryable(w)]
<1>1. CASE ~Owns(w)
  BY <1>1, StutterLawful DEF FinUpdate
<1>2. CASE Owns(w)
  <2>1. j \in Jobs /\ doc[j] \in JobDoc
    BY DEF IInv, TypeOK, InHand
  <2>2. EndStatus(w) \in Statuses /\ "none" \in Beats /\ Retryable(w) \in BOOLEAN
    BY EndStatusType DEF Statuses, Beats, Retryable
  <2>3. d \in JobDoc
    BY <2>1, <2>2, Zenon DEF JobDoc
  <2>4. /\ d.status = EndStatus(w) /\ d.worker = doc[j].worker /\ d.gen = doc[j].gen
        /\ d.attempts = doc[j].attempts
    BY <2>1 DEF JobDoc
  <2>5. Put(j, d)
    BY <1>2 DEF FinUpdate
  <2>6. doc[j].gen \in Nat /\ doc[j].attempts \in 0 .. MaxAttempts
    BY <2>1 DEF IInv, TypeOK, JobDoc, AttemptsBounded
  <2>7. EndStatus(w) = "queued" => doc[j].attempts < MaxAttempts
    BY <1>2 DEF EndStatus, Retryable, IInv, OwnersCount
  <2>8. EndStatus(w) = "queued" => Active(j) \/ IndexAllows(j)
    BY <1>2 DEF Clashes
  <2>9. EndStatus(w) \in {"done", "queued", "dead"}
    BY EndStatusType
  <2> HIDE DEF d, j
  <2> QED
    BY <2>1, <2>3, <2>4, <2>5, <2>6, <2>7, <2>8, <2>9, PutLawful
<1> QED
  BY <1>1, <1>2
-----------------------------------------------------------------------------
(* The steps preserve the invariant.                                         *)

LEMMA StepClaim == ASSUME IInv, TypeOK', NEW w \in Workers, Claim(w) PROVE IInv'
<1>1. PICK j \in Candidates(w) :
        /\ Put(j, Claimed(w, j))
        /\ run' = [run EXCEPT ![w] = [job |-> j, gen |-> Claimed(w, j).gen,
                                      attempts |-> Claimed(w, j).attempts]]
        /\ Goto(w, IF j \in Exclusive THEN "gateRead" ELSE "work")
  BY DEF Claim
<1>2. j \in Jobs /\ doc[j].status = "queued"
  BY QueueAssumption DEF Candidates
<1>3. /\ doc[j] \in JobDoc /\ doc[j].gen \in Nat
      /\ doc[j].attempts \in 0 .. MaxAttempts /\ doc[j].attempts < MaxAttempts
  BY <1>2 DEF IInv, TypeOK, JobDoc, AttemptsBounded
<1> DEFINE d == Claimed(w, j)
<1>4. d \in JobDoc
  BY <1>2, ClaimedType DEF IInv, TypeOK
<1>5. /\ d.status = "running" /\ d.worker = w /\ d.gen = doc[j].gen + 1
      /\ d.attempts = doc[j].attempts + 1
  BY <1>2, <1>3 DEF Claimed, JobDoc
<1>6. Put(j, d) /\ run' = [run EXCEPT ![w] = [job |-> j, gen |-> d.gen,
                                              attempts |-> d.attempts]]
  BY <1>1
<1> HIDE DEF d
<1>7. d.attempts \in 1 .. MaxAttempts
  BY <1>3, <1>5, QueueAssumption
<1>8. Lawful
  BY <1>2, <1>3, <1>4, <1>5, <1>6, <1>7, PutLawful DEF Active
<1>9. SweepsKept
  BY DEF Claim, SweepsKept
<1>10. /\ \A v \in Workers \ {w} : run'[v] = run[v] /\ pc'[v] = pc[v]
       /\ run'[w] = [job |-> j, gen |-> d.gen, attempts |-> d.attempts]
       /\ doc'[j] = d /\ \A k \in Jobs \ {j} : doc'[k] = doc[k]
  BY <1>1, <1>2, <1>6 DEF IInv, TypeOK, Goto, Put
<1>11. ASSUME NEW v \in Workers \ {w}, pc'[v] \in Holding
       PROVE  /\ run[v].job \in Jobs /\ run[v].gen \in Nat /\ pc[v] \in Holding
              /\ run[v].gen <= doc[run[v].job].gen /\ doc[run[v].job].gen \in Nat
              /\ run[v].attempts \in 1 .. MaxAttempts
  BY <1>10, <1>11 DEF IInv, TypeOK, InHand, Claims, JobDoc, ClaimsBehind
<1>12. ClaimsBehind'
  BY <1>3, <1>5, <1>7, <1>10, <1>11 DEF ClaimsBehind
<1>13. ClaimsDistinct'
  <2> SUFFICES ASSUME NEW u \in Workers, NEW v \in Workers, u # v,
                      pc'[u] \in Holding, pc'[v] \in Holding, run'[u].job = run'[v].job
               PROVE  run'[u].gen # run'[v].gen
    BY DEF ClaimsDistinct
  <2>1. CASE u # w /\ v # w
    BY <2>1, <1>10, <1>11 DEF IInv, ClaimsDistinct
  <2>2. CASE u = w
    BY <2>2, <1>3, <1>5, <1>10, <1>11
  <2>3. CASE v = w
    BY <2>3, <1>3, <1>5, <1>10, <1>11
  <2> QED
    BY <2>1, <2>2, <2>3
<1>14. OwnersCount'
  <2> SUFFICES ASSUME NEW v \in Workers, pc'[v] \in Holding, Owns(v)'
               PROVE  doc'[run'[v].job].attempts = run'[v].attempts
    BY DEF OwnersCount
  <2>1. CASE v = w
    BY <2>1, <1>10
  <2>2. CASE v # w
    <3>1. run[v].job # j
      BY <2>2, <1>5, <1>10 DEF Owns
    <3> QED
      BY <2>2, <3>1, <1>10, <1>11 DEF Owns, IInv, OwnersCount
  <2> QED
    BY <2>1, <2>2
<1> QED
  BY <1>8, <1>9, <1>12, <1>13, <1>14, LawfulAttempts, LawfulExclusive, LawfulSweeps DEF IInv

LEMMA StepSweep == ASSUME IInv, TypeOK', NEW w \in Workers, Sweep(w) PROVE IInv'
<1>1. Lawful
  BY StutterLawful DEF Sweep
<1>2. ClaimsKept
  BY DEF IInv, TypeOK, Sweep, Goto, Holding, ClaimsKept
<1>3. SweepsBehind'
  BY DEF IInv, TypeOK, SweepsBehind, Sweep, Abandoned, JobDoc
<1> QED
  BY <1>1, <1>2, <1>3, LawfulAttempts, LawfulExclusive, LawfulClaims DEF IInv

LEMMA StepReap == ASSUME IInv, TypeOK', NEW w \in Workers, Reap(w) PROVE IInv'
<1> DEFINE d(r) == doc[r.job]
<1>1. PICK r \in todo[w] :
        /\ todo' = [todo EXCEPT ![w] = @ \ {r}]
        /\ \/ /\ d(r).status = "running" /\ d(r).gen = r.gen /\ r.attempts < MaxAttempts
              /\ Put(r.job, [Returned(d(r), d(r).attempts, TRUE) EXCEPT !.gen = @ + 1])
              /\ Goto(w, NextReap(todo[w] \ {r}))
              /\ UNCHANGED run
           \/ /\ d(r).status = "running"
              /\ Put(r.job, [d(r) EXCEPT !.status = "dead", !.beat = "none",
                               !.worker = NoWorker, !.gen = @ + 1])
              /\ Goto(w, "bury")
              /\ run' = [run EXCEPT ![w] = r]
           \/ /\ Goto(w, NextReap(todo[w] \ {r}))
              /\ UNCHANGED <<doc, run>>
  BY DEF Reap
<1>2. /\ r \in [job: Jobs, gen: Nat, attempts: Int] /\ d(r) \in JobDoc
      /\ d(r).gen \in Nat /\ d(r).attempts \in 0 .. MaxAttempts /\ d(r).attempts \in Int
  BY DEF IInv, TypeOK, JobDoc, AttemptsBounded
<1>3. SweepsKept
  BY <1>1 DEF IInv, TypeOK, SweepsKept
<1>4. ClaimsKept
  BY <1>1 DEF IInv, TypeOK, ClaimsKept, Reap, NextReap, Goto, Holding
<1>5. CASE /\ d(r).status = "running" /\ d(r).gen = r.gen /\ r.attempts < MaxAttempts
           /\ Put(r.job, [Returned(d(r), d(r).attempts, TRUE) EXCEPT !.gen = @ + 1])
  <2> DEFINE q == Returned(d(r), d(r).attempts, TRUE)
             e == [q EXCEPT !.gen = @ + 1]
  <2>1. d(r).attempts < MaxAttempts
    BY <1>5 DEF IInv, SweepsBehind
  <2>2. q \in JobDoc /\ q.status = "queued" /\ q.worker = NoWorker
        /\ q.gen = d(r).gen /\ q.attempts = d(r).attempts
    BY <1>2, ReturnedType, ReturnedFields
  <2> HIDE DEF q
  <2>3. e \in JobDoc
    BY <2>2, FencedType
  <2>4. /\ e.status = "queued" /\ e.worker = NoWorker
        /\ e.gen = d(r).gen + 1 /\ e.attempts = d(r).attempts
    BY <2>2 DEF JobDoc
  <2>5. Put(r.job, e)
    BY <1>5 DEF q
  <2> HIDE DEF e
  <2>6. Lawful
    BY <1>2, <1>5, <2>1, <2>3, <2>4, <2>5, PutLawful DEF Active
  <2> QED
    BY <2>6, <1>3, <1>4, LawfulStep
<1>6. CASE /\ d(r).status = "running"
           /\ Put(r.job, [d(r) EXCEPT !.status = "dead", !.beat = "none",
                            !.worker = NoWorker, !.gen = @ + 1])
  <2> DEFINE e == [d(r) EXCEPT !.status = "dead", !.beat = "none",
                               !.worker = NoWorker, !.gen = @ + 1]
  <2>1. "dead" \in Statuses /\ "none" \in Beats /\ d(r).gen + 1 \in Nat
    BY <1>2 DEF Statuses, Beats
  <2>2. e \in JobDoc
    BY <1>2, <2>1, Zenon DEF JobDoc
  <2>3. /\ e.status = "dead" /\ e.worker = NoWorker
        /\ e.gen = d(r).gen + 1 /\ e.attempts = d(r).attempts
    BY <1>2 DEF JobDoc
  <2>4. Put(r.job, e)
    BY <1>6
  <2> HIDE DEF e
  <2>5. Lawful
    BY <1>2, <2>2, <2>3, <2>4, PutLawful
  <2> QED
    BY <2>5, <1>3, <1>4, LawfulStep
<1>7. CASE UNCHANGED doc
  BY <1>7, <1>3, <1>4, StutterLawful, LawfulStep
<1> QED
  BY <1>1, <1>5, <1>6, <1>7

LEMMA StepFinish ==
  ASSUME IInv, TypeOK', NEW w \in Workers,
         FinRead(w) \/ FinCancel(w) \/ FinWrite(w) \/ After(w)
  PROVE  IInv'
<1> USE DEF Holding, Points
<1>1. CASE FinRead(w)
  <2>1. Lawful
    BY <1>1, StutterLawful DEF FinRead
  <2>2. ClaimsKept /\ SweepsKept
    BY <1>1, LeavesKept, GotoKept DEF FinRead, IInv
  <2> QED
    BY <2>1, <2>2, LawfulStep
<1>2. CASE FinCancel(w)
  <2>1. Lawful
    BY <1>2, CancelLawful DEF FinCancel, IInv, TypeOK, InHand
  <2>2. ClaimsKept /\ SweepsKept
    BY <1>2, LeavesKept DEF FinCancel, IInv
  <2> QED
    BY <2>1, <2>2, LawfulStep
<1>3. CASE FinWrite(w)
  <2>1. pc[w] \in Holding /\ UNCHANGED todo
    BY <1>3 DEF FinWrite
  <2>2. CASE Escapes(w) /\ UNCHANGED doc
    BY <2>1, <2>2, EscapesKept, StutterLawful, LawfulStep DEF IInv
  <2>3. CASE /\ ~(EndStatus(w) = "queued" /\ Clashes(w))
             /\ FinUpdate(w) /\ Goto(w, "after") /\ UNCHANGED <<run, call>>
    BY <2>1, <2>3, FinUpdateLawful, GotoKept, LawfulStep DEF IInv
  <2> QED
    BY <1>3, <2>2, <2>3 DEF FinWrite
<1>4. CASE After(w)
  BY <1>4, LeavesKept, StutterLawful, LawfulStep DEF After, IInv
<1> QED
  BY <1>1, <1>2, <1>3, <1>4

LEMMA StepRun ==
  ASSUME IInv, TypeOK', NEW w \in Workers,
         \/ GateRead(w) \/ WaitRead(w) \/ GateDefer(w) \/ ShutRead(w) \/ ShutWrite(w) \/ Beat(w)
         \/ Succeeds(w) \/ Fails(w) \/ Raises(w) \/ SeesCancel(w) \/ Interrupted(w)
  PROVE  IInv'
<1> USE DEF Holding, Points
<1>1. CASE GateRead(w) \/ WaitRead(w)
  BY <1>1, GotoKept, StutterLawful, LawfulStep DEF GateRead, WaitRead, Local, IInv
<1>2. CASE GateDefer(w)
  <2>1. ClaimsKept /\ SweepsKept
    BY <1>2, LeavesKept DEF GateDefer, IInv
  <2>2. CASE HoldsLease(w)
    BY <1>2, <2>1, <2>2, RefundLawful, LawfulStep DEF GateDefer, HoldsLease, Active
  <2>3. CASE ~HoldsLease(w)
    BY <1>2, <2>1, <2>3, StutterLawful, LawfulStep DEF GateDefer
  <2> QED
    BY <2>2, <2>3
<1>3. CASE ShutRead(w)
  BY <1>3, GotoKept, StutterLawful, LawfulStep DEF ShutRead, Local, IInv
<1>4. CASE ShutWrite(w)
  <2>1. ClaimsKept /\ SweepsKept
    BY <1>4, LeavesKept, EscapesKept DEF ShutWrite, IInv
  <2>2. CASE UNCHANGED doc
    BY <2>1, <2>2, StutterLawful, LawfulStep
  <2>3. CASE ~UNCHANGED doc
    BY <1>4, <2>1, <2>3, RefundLawful, LawfulStep DEF ShutWrite, Clashes
  <2> QED
    BY <2>2, <2>3
<1>5. CASE Beat(w)
  <2>1. run[w].job \in Jobs
    BY <1>5 DEF IInv, TypeOK, InHand, Beat
  <2> DEFINE d == [doc[run[w].job] EXCEPT !.beat = "fresh"]
  <2>2. doc[run[w].job].status # "absent"
    BY <1>5, <2>1, QueueAssumption DEF IInv, AbsentBlank, NoDoc, Beat, Owns
  <2>3. d \in JobDoc
    BY <2>1, ClockType DEF IInv, TypeOK
  <2>4. /\ d.status = doc[run[w].job].status /\ d.worker = doc[run[w].job].worker
        /\ d.gen = doc[run[w].job].gen /\ d.attempts = doc[run[w].job].attempts
    BY <2>1 DEF IInv, TypeOK, JobDoc
  <2>5. Put(run[w].job, d)
    BY <1>5 DEF Beat
  <2> HIDE DEF d
  <2>6. Lawful
    BY <2>1, <2>2, <2>3, <2>4, <2>5, ClockLawful
  <2> QED
    BY <1>5, <2>6, StillKept, LawfulStep DEF Beat, Local
<1>6. ASSUME NEW k, NEW b, NEW p \in {"finRead", "shutRead"}, Ends(w, k, b, p)
      PROVE  IInv'
  BY <1>6, GotoKept, StutterLawful, LawfulStep DEF Ends, IInv
<1> QED
  BY <1>1, <1>2, <1>3, <1>4, <1>5, <1>6
     DEF Succeeds, Fails, Raises, SeesCancel, Interrupted

LEMMA StepMove ==
  ASSUME IInv, TypeOK', NEW w \in Workers,
         NothingDue(w) \/ Exits(w) \/ Bury(w) \/ Restart(w) \/ Disturb(w)
  PROVE  IInv'
<1> USE DEF Holding, Points
<1>1. CASE NothingDue(w) \/ Exits(w) \/ Restart(w)
  BY <1>1, GotoKept, StutterLawful, LawfulStep DEF NothingDue, Exits, Restart, Local, IInv
<1>2. CASE Bury(w) \/ Crash(w)
  <2>1. ClaimsKept
    BY <1>2 DEF IInv, TypeOK, Bury, NextReap, Crash, Forgets, Goto, ClaimsKept
  <2>2. SweepsKept
    BY <1>2 DEF IInv, TypeOK, Bury, Crash, SweepsKept
  <2>3. UNCHANGED doc
    BY <1>2 DEF Bury, Crash
  <2> QED
    BY <2>1, <2>2, <2>3, StutterLawful, LawfulStep
<1>3. CASE Stop(w)
  BY <1>3, StillKept, StutterLawful, LawfulStep DEF Stop
<1>4. CASE MongoFails(w)
  BY <1>4, EscapesKept, StutterLawful, LawfulStep DEF MongoFails, IInv
<1> QED
  BY <1>1, <1>2, <1>3, <1>4 DEF Disturb

LEMMA StepJob ==
  ASSUME IInv, TypeOK', NEW j \in Jobs, Estimator(j) \/ Clock(j)
  PROVE  IInv'
<1>1. ClaimsKept /\ SweepsKept
  BY StillKept DEF Estimator, Enqueue, Extend, Retry, CancelRead, CancelWrite, Supersede,
                   CancelActive, Clock, ComesDue, GoesStale, Local
<1>2. CASE Enqueue(j)
  <2>1. PICK u \in BOOLEAN : Put(j, [NoDoc EXCEPT !.status = "queued", !.due = u])
    BY <1>2 DEF Enqueue
  <2> DEFINE d == [NoDoc EXCEPT !.status = "queued", !.due = u]
  <2>2. NoDoc \in JobDoc /\ "queued" \in Statuses
    BY DEF NoDoc, JobDoc, Statuses, Beats
  <2>3. d \in JobDoc
    BY <2>2, Zenon DEF JobDoc
  <2>4. d.status = "queued" /\ d.worker = NoWorker /\ d.gen = 0 /\ d.attempts = 0
    BY DEF NoDoc
  <2>5. doc[j].gen = 0 /\ doc[j].attempts = 0
    BY <1>2 DEF IInv, AbsentBlank, Enqueue, NoDoc
  <2> HIDE DEF d
  <2>6. Put(j, d)
    BY <2>1 DEF d
  <2>7. Lawful
    BY <1>2, <2>3, <2>4, <2>5, <2>6, PutLawful, QueueAssumption DEF Enqueue
  <2> QED
    BY <1>1, <2>7, LawfulStep
<1>3. CASE CancelRead(j)
  BY <1>1, <1>3, StutterLawful, LawfulStep DEF CancelRead
<1>4. CASE CancelWrite(j) \/ Supersede(j) \/ CancelActive(j)
  BY <1>1, <1>4, CancelLawful, LawfulStep DEF CancelWrite, Supersede, CancelActive
<1>5. CASE Retry(j)
  <2>1. 0 \in 0 .. MaxAttempts /\ 0 < MaxAttempts
    BY QueueAssumption
  <2>2. Lawful
    BY <1>5, <2>1, ReturnLawful DEF Retry
  <2> QED
    BY <1>1, <2>2, LawfulStep
<1>6. CASE ComesDue(j)
  <2> DEFINE d == [doc[j] EXCEPT !.due = TRUE]
  <2>1. d \in JobDoc
    BY ClockType DEF IInv, TypeOK
  <2>2. /\ d.status = doc[j].status /\ d.worker = doc[j].worker
        /\ d.gen = doc[j].gen /\ d.attempts = doc[j].attempts
    BY DEF IInv, TypeOK, JobDoc
  <2>3. Put(j, d) /\ doc[j].status = "queued"
    BY <1>6 DEF ComesDue
  <2> HIDE DEF d
  <2>4. Lawful
    BY <2>1, <2>2, <2>3, ClockLawful
  <2> QED
    BY <1>1, <2>4, LawfulStep
<1>7. CASE GoesStale(j)
  <2> DEFINE d == [doc[j] EXCEPT !.beat = "stale"]
  <2>1. d \in JobDoc
    BY ClockType DEF IInv, TypeOK
  <2>2. /\ d.status = doc[j].status /\ d.worker = doc[j].worker
        /\ d.gen = doc[j].gen /\ d.attempts = doc[j].attempts
    BY DEF IInv, TypeOK, JobDoc
  <2>3. Put(j, d) /\ doc[j].status = "running"
    BY <1>7 DEF GoesStale
  <2> HIDE DEF d
  <2>4. Lawful
    BY <2>1, <2>2, <2>3, ClockLawful
  <2> QED
    BY <1>1, <2>4, LawfulStep
<1>8. CASE Extend(j)
  <2> DEFINE d == [doc[j] EXCEPT !.due = FALSE]
  <2>1. d \in JobDoc
    BY ClockType DEF IInv, TypeOK
  <2>2. /\ d.status = doc[j].status /\ d.worker = doc[j].worker
        /\ d.gen = doc[j].gen /\ d.attempts = doc[j].attempts
    BY DEF IInv, TypeOK, JobDoc
  <2>3. Put(j, d) /\ doc[j].status = "queued"
    BY <1>8 DEF Extend
  <2> HIDE DEF d
  <2>4. Lawful
    BY <2>1, <2>2, <2>3, ClockLawful
  <2> QED
    BY <1>1, <2>4, LawfulStep
<1> QED
  BY <1>2, <1>3, <1>4, <1>5, <1>6, <1>7, <1>8 DEF Estimator, Clock

LEMMA InvInit == Init => IInv
<1> SUFFICES ASSUME Init PROVE IInv
  OBVIOUS
<1>1. TypeOK
  BY TypeInit
<1> QED
  BY <1>1, QueueAssumption
     DEF Init, IInv, NoDoc, AbsentBlank, AttemptsBounded, OneActivePerBid, Active,
         ClaimsBehind, ClaimsDistinct, OwnersCount, SweepsBehind, Holding, Rivals

LEMMA InvStep == IInv /\ [Next]_vars => IInv'
<1> SUFFICES ASSUME IInv, [Next]_vars PROVE IInv'
  OBVIOUS
<1>1. TypeOK'
  BY TypeStep DEF IInv
<1>2. CASE UNCHANGED vars
  BY <1>1, <1>2, StillKept, StutterLawful, LawfulStep DEF vars
<1>3. ASSUME NEW w \in Workers, Loop(w) PROVE IInv'
  BY <1>1, <1>3, StepClaim, StepSweep, StepReap, StepFinish, StepRun, StepMove DEF Loop
<1>4. ASSUME NEW w \in Workers, Beat(w) \/ Restart(w) \/ Disturb(w) PROVE IInv'
  BY <1>1, <1>4, StepRun, StepMove
<1>5. ASSUME NEW j \in Jobs, Estimator(j) \/ Clock(j) PROVE IInv'
  BY <1>1, <1>5, StepJob
<1> QED
  BY <1>2, <1>3, <1>4, <1>5 DEF Next

\* No interleaving of claims, reaps, deferrals, shutdowns, late finishes,
\* cancels and retries refunds an attempt that was not spent or queues a job
\* whose attempts are spent.
THEOREM AttemptsAreBounded == Spec => []AttemptsBounded
<1>1. IInv => AttemptsBounded
  BY DEF IInv
<1> QED
  BY <1>1, InvInit, InvStep, PTL DEF Spec

\* No interleaving - not even cancels and failed rescues - leaves two active
\* pipeline jobs on one bid while the unique index is in place.
THEOREM OneActiveJobPerBid == Spec => []OneActivePerBid
<1>1. IInv => OneActivePerBid
  BY DEF IInv
<1> QED
  BY <1>1, InvInit, InvStep, PTL DEF Spec

\* claimGeneration is a fencing token: claims in hand on one job are ordered,
\* and only the newest can pass owns_job.
THEOREM ClaimsAreFenced == Spec => []ClaimsFenced
<1>1. ASSUME IInv PROVE ClaimsFenced
  <2> SUFFICES ASSUME NEW v \in Workers, NEW w \in Workers, v # w,
                      pc[v] \in Holding, pc[w] \in Holding, run[v].job = run[w].job
               PROVE  run[v].gen # run[w].gen /\ (Owns(w) => run[v].gen < run[w].gen)
    BY DEF ClaimsFenced
  <2>1. run[v].gen # run[w].gen
    BY <1>1 DEF IInv, ClaimsDistinct
  <2>2. run[v].gen \in Nat /\ run[w].gen \in Nat /\ run[v].gen <= doc[run[w].job].gen
    BY <1>1 DEF IInv, TypeOK, Claims, ClaimsBehind
  <2>3. Owns(w) => doc[run[w].job].gen = run[w].gen
    BY DEF Owns
  <2> QED
    BY <2>1, <2>2, <2>3
<1> QED
  BY <1>1, InvInit, InvStep, PTL DEF Spec

-----------------------------------------------------------------------------
(***************************************************************************)
(* The lease.  JobQueue implements ClaimLease, and a replacement works     *)
(* undisturbed, as long as nobody sends SIGTERM, nobody cancels and MongoDB *)
(* answers: whatever crashes, stalls, reaps, deferrals and retries do in   *)
(* between.                                                                *)
(***************************************************************************)
(* What a quiet queue looks like.                                          *)

Unspent(f) == budget[f] = Budget[f]

\* Nobody has been told to stop, nothing has been cancelled.
Calm == Unspent("stop") /\ Unspent("cancel")

\* And no operation of finish() has failed.
Tame == Calm /\ Unspent("mongo")

Within == \A f \in Faults : budget[f] <= Budget[f]

\* What only a stop or a cancel brings about has not happened.
NothingCancelled ==
  /\ cancelling = {}
  /\ \A w \in Workers : /\ ~stopping[w]
                        /\ pc[w] \notin {"shutRead", "shutWrite", "finCancel"}
                        /\ call[w].kind # "cancelled"
  /\ \A j \in Jobs : doc[j].status # "cancelled"

\* The points at which a worker has not ended its job, and may not have.
Running == {"gateRead", "waitRead", "gateDefer", "work"}
Unended == Running \cup {"finRead", "finWrite"}

\* The job of an owner at one of these points is running.
KeepsLease(points) ==
  \A w \in Workers :
    (pc[w] \in points /\ Owns(w)) => doc[run[w].job].status = "running"

LInv ==
  /\ IInv
  /\ Within
  /\ Calm => NothingCancelled /\ KeepsLease(Running)
  /\ Tame => KeepsLease(Unended)

-----------------------------------------------------------------------------
(* The budget.                                                             *)

LEMMA SpendsOne ==
  ASSUME TypeOK, NEW f \in Faults, Spend(f)
  PROVE  /\ budget'[f] = budget[f] - 1
         /\ \A g \in Faults \ {f} : budget'[g] = budget[g]
         /\ budget[f] \in Nat
  BY DEF TypeOK, Spend

LEMMA StepSpends ==
  ASSUME Next
  PROVE  UNCHANGED budget \/ \E f \in Faults : Spend(f)
<1> USE DEF Bid, Faults
<1>1. ASSUME NEW w \in Workers, Loop(w) \/ Beat(w) \/ Restart(w)
      PROVE  UNCHANGED budget
  BY <1>1 DEF Loop, Claim, NothingDue, Exits, Sweep, Reap, Bury, GateRead, WaitRead,
     GateDefer, Succeeds, Fails, Raises, SeesCancel, Interrupted, Ends, ShutRead,
     ShutWrite, FinRead, FinCancel, FinWrite, After, Beat, Restart
<1>2. ASSUME NEW w \in Workers, Disturb(w) PROVE \E f \in Faults : Spend(f)
  BY <1>2 DEF Disturb, Crash, Stop, MongoFails
<1>3. ASSUME NEW j \in Jobs, Estimator(j) \/ Clock(j)
      PROVE  UNCHANGED budget \/ \E f \in Faults : Spend(f)
  BY <1>3 DEF Estimator, Enqueue, Extend, Retry, CancelRead, CancelWrite, Supersede,
     CancelActive, Clock, ComesDue, GoesStale
<1> QED
  BY <1>1, <1>2, <1>3 DEF Next

\* A budget only shrinks, so what is unspent after a step was so before it.
LEMMA WithinStep ==
  ASSUME TypeOK, Within, [Next]_vars
  PROVE  /\ Within'
         /\ \A f \in Faults : Unspent(f)' => Unspent(f)
<1>1. \A f \in Faults : budget[f] \in Nat /\ Budget[f] \in Nat
  BY QueueAssumption DEF TypeOK
<1>2. CASE UNCHANGED budget
  BY <1>2 DEF Within, Unspent
<1>3. ASSUME NEW f \in Faults, Spend(f)
      PROVE  Within' /\ \A g \in Faults : Unspent(g)' => Unspent(g)
  <2>1. \A g \in Faults : budget'[g] <= budget[g] /\ budget'[g] \in Int
    BY <1>1, <1>3, SpendsOne
  <2> QED
    BY <1>1, <2>1 DEF Within, Unspent
<1> QED
  BY <1>2, <1>3, StepSpends DEF vars

LEMMA CalmBefore ==
  ASSUME TypeOK, Within, [Next]_vars
  PROVE  (Calm' => Calm) /\ (Tame' => Tame)
<1>1. {"stop", "cancel", "mongo"} \subseteq Faults
  BY DEF Faults
<1> QED
  BY <1>1, WithinStep DEF Calm, Tame

\* A fault that is still unspent has not just happened.
LEMMA NotSpent ==
  ASSUME TypeOK, Within, NEW f \in Faults, Unspent(f)'
  PROVE  ~Spend(f)
<1> SUFFICES ASSUME Spend(f) PROVE FALSE
  OBVIOUS
<1>1. budget'[f] = budget[f] - 1 /\ budget[f] \in Nat /\ budget[f] <= Budget[f]
  BY SpendsOne DEF Within
<1>2. budget'[f] = Budget[f] /\ Budget[f] \in Nat
  BY QueueAssumption DEF Unspent
<1> QED
  BY <1>1, <1>2

-----------------------------------------------------------------------------
(* On a calm queue nothing is cancelled.                                   *)

\* The steps of a calm queue: those no stop and no cancel is needed for.
CalmLoop(w) ==
  \/ NothingDue(w) \/ Sweep(w) \/ Reap(w) \/ Bury(w)
  \/ GateRead(w) \/ WaitRead(w) \/ GateDefer(w)
  \/ Succeeds(w) \/ Fails(w) \/ Raises(w)
  \/ FinRead(w) \/ FinWrite(w) \/ After(w)

LEMMA CalmSteps ==
  ASSUME TypeOK, Within, NothingCancelled, Calm', Next
  PROVE  \/ \E w \in Workers : \/ Claim(w) \/ CalmLoop(w) \/ Beat(w) \/ Restart(w)
                               \/ Crash(w) \/ MongoFails(w)
         \/ \E j \in Jobs : Enqueue(j) \/ Extend(j) \/ Retry(j) \/ Clock(j)
<1>1. ~Spend("stop") /\ ~Spend("cancel")
  BY NotSpent DEF Calm, Faults
<1>2. ASSUME NEW w \in Workers, Loop(w)
      PROVE  Claim(w) \/ CalmLoop(w)
  <2>1. run[w].job \in Jobs \/ pc[w] # "work"
    BY DEF TypeOK, InHand, Holding
  <2>2. ~Exits(w) /\ ~SeesCancel(w) /\ ~Interrupted(w) /\ ~ShutRead(w) /\ ~ShutWrite(w)
        /\ ~FinCancel(w)
    BY <2>1 DEF NothingCancelled, Exits, SeesCancel, Interrupted, ShutRead, ShutWrite,
       FinCancel
  <2> QED
    BY <1>2, <2>2 DEF Loop, CalmLoop
<1>3. ASSUME NEW w \in Workers, Disturb(w) PROVE Crash(w) \/ MongoFails(w)
  BY <1>1, <1>3 DEF Disturb, Stop
<1>4. ASSUME NEW j \in Jobs, Estimator(j) PROVE Enqueue(j) \/ Extend(j) \/ Retry(j)
  BY <1>1, <1>4 DEF Estimator, CancelRead, CancelWrite, Supersede, CancelActive,
     NothingCancelled
<1> QED
  BY <1>2, <1>3, <1>4 DEF Next
-----------------------------------------------------------------------------
(* What the steps of a calm queue do to the jobs, and to who works on them. *)

Still(j) == /\ doc'[j].status = doc[j].status
            /\ doc'[j].worker = doc[j].worker
            /\ doc'[j].gen = doc[j].gen

Becomes(j, status, worker, gen) ==
  /\ doc'[j].status = status /\ doc'[j].worker = worker /\ doc'[j].gen = gen
  /\ \A k \in Jobs \ {j} : Still(k)

AllStill == \A j \in Jobs : Still(j)

\* Only w's own point and claim may change.
Alters(w) == \A v \in Workers \ {w} : pc'[v] = pc[v] /\ run'[v] = run[v]

\* w goes on with the claim it has; w is without one.
GoesOn(w)  == pc[w] \in Holding /\ pc'[w] \in Holding /\ run'[w] = run[w]
HasNone(w) == pc'[w] \notin Holding

LEMMA PutBecomes ==
  ASSUME TypeOK, NEW j \in Jobs, NEW d, Put(j, d)
  PROVE  Becomes(j, d.status, d.worker, d.gen)
  BY DEF TypeOK, Put, Becomes, Still

LEMMA BecomesStill ==
  ASSUME NEW j \in Jobs, Becomes(j, doc[j].status, doc[j].worker, doc[j].gen)
  PROVE  AllStill
  BY DEF Becomes, Still, AllStill

LEMMA GotoAlters ==
  ASSUME TypeOK, NEW w \in Workers, NEW p, Goto(w, p)
  PROVE  pc'[w] = p /\ \A v \in Workers \ {w} : pc'[v] = pc[v]
  BY DEF TypeOK, Goto

LEMMA LeavesAlters ==
  ASSUME TypeOK, NEW w \in Workers, Leaves(w)
  PROVE  Alters(w) /\ HasNone(w) /\ pc'[w] = "idle"
  BY DEF TypeOK, Leaves, Forgets, Goto, Alters, HasNone, Holding

LEMMA EscapesAlters ==
  ASSUME TypeOK, NEW w \in Workers, Escapes(w), pc[w] \in Holding
  PROVE  /\ Alters(w)
         /\ \/ HasNone(w) /\ pc'[w] = "idle"
            \/ GoesOn(w) /\ pc'[w] = "finRead"
<1>1. CASE call[w].rescue
  BY <1>1, LeavesAlters DEF Escapes
<1>2. CASE ~call[w].rescue
  BY <1>2, GotoAlters DEF Escapes, Alters, GoesOn, Holding
<1> QED
  BY <1>1, <1>2

LEMMA ClockEffect ==
  ASSUME TypeOK, NEW j \in Jobs, Extend(j) \/ Clock(j)
  PROVE  AllStill /\ UNCHANGED <<pc, run, call, stopping, cancelling>>
<1>1. doc[j] \in JobDoc
  BY DEF TypeOK
<1>2. PICK d : /\ Put(j, d)
               /\ d.status = doc[j].status /\ d.worker = doc[j].worker /\ d.gen = doc[j].gen
  <2>1. ASSUME NEW u \in BOOLEAN, Put(j, [doc[j] EXCEPT !.due = u])
        PROVE  \E d : /\ Put(j, d) /\ d.status = doc[j].status
                      /\ d.worker = doc[j].worker /\ d.gen = doc[j].gen
    BY <1>1, <2>1 DEF JobDoc
  <2>2. ASSUME Put(j, [doc[j] EXCEPT !.beat = "stale"])
        PROVE  \E d : /\ Put(j, d) /\ d.status = doc[j].status
                      /\ d.worker = doc[j].worker /\ d.gen = doc[j].gen
    BY <1>1, <2>2 DEF JobDoc
  <2> QED
    BY <2>1, <2>2 DEF Extend, Clock, ComesDue, GoesStale
<1>3. AllStill
  BY <1>2, PutBecomes, BecomesStill
<1> QED
  BY <1>3 DEF Extend, Clock, ComesDue, GoesStale, Local, Bid

LEMMA OpenEffect ==
  ASSUME IInv, NEW j \in Jobs, Enqueue(j) \/ Retry(j)
  PROVE  /\ doc[j].status \in {"absent", "dead"}
         /\ Becomes(j, "queued", NoWorker, doc[j].gen)
         /\ UNCHANGED <<pc, run, call, stopping, cancelling>>
<1>1. TypeOK /\ doc[j] \in JobDoc
  BY DEF IInv, TypeOK
<1>2. CASE Enqueue(j)
  <2>1. PICK u \in BOOLEAN : Put(j, [NoDoc EXCEPT !.status = "queued", !.due = u])
    BY <1>2 DEF Enqueue
  <2>2. doc[j].status = "absent" /\ doc[j].gen = 0
    <3>1. doc[j].status = "absent"
      BY <1>2 DEF Enqueue
    <3>2. doc[j] = NoDoc
      BY <3>1 DEF IInv, AbsentBlank
    <3> QED
      BY <3>1, <3>2 DEF NoDoc
  <2>3. /\ [NoDoc EXCEPT !.status = "queued", !.due = u].status = "queued"
        /\ [NoDoc EXCEPT !.status = "queued", !.due = u].worker = NoWorker
        /\ [NoDoc EXCEPT !.status = "queued", !.due = u].gen = 0
    BY DEF NoDoc
  <2>4. Becomes(j, "queued", NoWorker, 0)
    BY <1>1, <2>1, <2>3, PutBecomes
  <2> QED
    BY <1>2, <2>2, <2>4 DEF Enqueue, Local, Bid
<1>3. CASE Retry(j)
  <2>1. Put(j, Returned(doc[j], 0, TRUE)) /\ doc[j].status = "dead"
    BY <1>3 DEF Retry
  <2>2. Becomes(j, "queued", NoWorker, doc[j].gen)
    <3> DEFINE d == Returned(doc[j], 0, TRUE)
    <3>1. d.status = "queued" /\ d.worker = NoWorker /\ d.gen = doc[j].gen
      <4>1. 0 \in Int /\ TRUE \in BOOLEAN
        OBVIOUS
      <4> QED
        BY <1>1, <4>1, ReturnedFields
    <3>2. Put(j, d)
      BY <2>1
    <3> HIDE DEF d
    <3>3. Becomes(j, d.status, d.worker, d.gen)
      BY <1>1, <3>2, PutBecomes
    <3> QED
      BY <3>1, <3>3
  <2> QED
    BY <1>3, <2>1, <2>2 DEF Retry, Local
<1> QED
  BY <1>2, <1>3

LEMMA ClaimEffect ==
  ASSUME IInv, NEW w \in Workers, Claim(w)
  PROVE  /\ Alters(w)
         /\ pc[w] = "idle" /\ pc'[w] \in Running
         /\ UNCHANGED <<call, stopping, cancelling>>
         /\ \E j \in Jobs : /\ doc[j].status = "queued"
                            /\ Becomes(j, "running", w, doc[j].gen + 1)
                            /\ run'[w].job = j /\ run'[w].gen = doc[j].gen + 1
<1>1. PICK j \in Candidates(w) :
        /\ Put(j, Claimed(w, j))
        /\ run' = [run EXCEPT ![w] = [job |-> j, gen |-> Claimed(w, j).gen,
                                      attempts |-> Claimed(w, j).attempts]]
        /\ Goto(w, IF j \in Exclusive THEN "gateRead" ELSE "work")
  BY DEF Claim
<1>2. j \in Jobs /\ doc[j].status = "queued" /\ TypeOK /\ doc[j] \in JobDoc
  BY QueueAssumption DEF Candidates, IInv, TypeOK
<1> DEFINE d == Claimed(w, j)
<1>3. d.status = "running" /\ d.worker = w /\ d.gen = doc[j].gen + 1
  BY <1>2 DEF Claimed, JobDoc
<1>4. Put(j, d) /\ run' = [run EXCEPT ![w] = [job |-> j, gen |-> d.gen,
                                              attempts |-> d.attempts]]
  BY <1>1
<1> HIDE DEF d
<1>5. Becomes(j, d.status, d.worker, d.gen)
  BY <1>2, <1>4, PutBecomes
<1>6. Becomes(j, "running", w, doc[j].gen + 1)
  BY <1>3, <1>5
<1>7. run'[w].job = j /\ run'[w].gen = doc[j].gen + 1
  BY <1>2, <1>3, <1>4 DEF TypeOK
<1>8. Alters(w) /\ pc'[w] \in Running
  BY <1>1, <1>2, <1>4 DEF TypeOK, Goto, Alters, Running
<1>9. pc[w] = "idle" /\ UNCHANGED <<call, stopping, cancelling>>
  BY DEF Claim, Bid
<1> QED
  BY <1>2, <1>6, <1>7, <1>8, <1>9

LEMMA ReapEffect ==
  ASSUME IInv, NEW w \in Workers, Reap(w)
  PROVE  /\ Alters(w) /\ HasNone(w) /\ pc'[w] \in {"idle", "reap", "bury"}
         /\ UNCHANGED <<call, stopping, cancelling>>
         /\ \/ AllStill
            \/ \E j \in Jobs : /\ doc[j].status = "running"
                               /\ \E s \in {"queued", "dead"} :
                                    Becomes(j, s, NoWorker, doc[j].gen + 1)
<1> DEFINE d(r) == doc[r.job]
           q(r) == [Returned(d(r), d(r).attempts, TRUE) EXCEPT !.gen = @ + 1]
           b(r) == [d(r) EXCEPT !.status = "dead", !.beat = "none",
                                !.worker = NoWorker, !.gen = @ + 1]
<1>1. PICK r \in todo[w] :
        \/ /\ d(r).status = "running"
           /\ Put(r.job, q(r))
           /\ Goto(w, NextReap(todo[w] \ {r}))
           /\ UNCHANGED run
        \/ /\ d(r).status = "running"
           /\ Put(r.job, b(r))
           /\ Goto(w, "bury")
           /\ run' = [run EXCEPT ![w] = r]
        \/ /\ Goto(w, NextReap(todo[w] \ {r}))
           /\ UNCHANGED <<doc, run>>
  BY DEF Reap
<1>2. TypeOK /\ r.job \in Jobs /\ d(r) \in JobDoc /\ d(r).gen \in Nat /\ d(r).attempts \in Int
  BY DEF IInv, TypeOK, JobDoc
<1>3. NextReap(todo[w] \ {r}) \in {"idle", "reap"}
  BY DEF NextReap
<1>4. Alters(w) /\ HasNone(w) /\ pc'[w] \in {"idle", "reap", "bury"}
  BY <1>1, <1>2, <1>3, GotoAlters DEF TypeOK, Alters, HasNone, Holding
<1>5. ASSUME Put(r.job, q(r))
      PROVE  Becomes(r.job, "queued", NoWorker, d(r).gen + 1)
  <2> DEFINE o == Returned(d(r), d(r).attempts, TRUE)
             e == [o EXCEPT !.gen = @ + 1]
  <2>1. o \in JobDoc /\ o.status = "queued" /\ o.worker = NoWorker /\ o.gen = d(r).gen
    BY <1>2, ReturnedType, ReturnedFields
  <2> HIDE DEF o
  <2>2. e.status = "queued" /\ e.worker = NoWorker /\ e.gen = d(r).gen + 1
    BY <2>1 DEF JobDoc
  <2>3. Put(r.job, e)
    BY <1>5 DEF o
  <2> HIDE DEF e
  <2>4. Becomes(r.job, e.status, e.worker, e.gen)
    BY <1>2, <2>3, PutBecomes
  <2> QED
    BY <2>2, <2>4
<1>6. ASSUME Put(r.job, b(r))
      PROVE  Becomes(r.job, "dead", NoWorker, d(r).gen + 1)
  <2> DEFINE e == b(r)
  <2>1. e.status = "dead" /\ e.worker = NoWorker /\ e.gen = d(r).gen + 1
    BY <1>2 DEF JobDoc
  <2>2. Put(r.job, e)
    BY <1>6
  <2> HIDE DEF e
  <2>3. Becomes(r.job, e.status, e.worker, e.gen)
    BY <1>2, <2>2, PutBecomes
  <2> QED
    BY <2>1, <2>3
<1>7. UNCHANGED <<call, stopping, cancelling>>
  BY DEF Reap, Bid
<1> HIDE DEF q, b
<1> QED
  BY <1>1, <1>2, <1>4, <1>5, <1>6, <1>7 DEF AllStill, Still

LEMMA DeferEffect ==
  ASSUME IInv, NEW w \in Workers, GateDefer(w)
  PROVE  /\ Alters(w) /\ HasNone(w) /\ pc'[w] = "idle"
         /\ \/ AllStill
            \/ /\ HoldsLease(w)
               /\ Becomes(run[w].job, "queued", NoWorker, doc[run[w].job].gen)
<1> DEFINE j == run[w].job
           d == Returned(doc[j], doc[j].attempts - 1, FALSE)
<1>1. TypeOK /\ j \in Jobs /\ doc[j] \in JobDoc /\ doc[j].attempts - 1 \in Int
  BY DEF IInv, TypeOK, InHand, GateDefer, Holding, JobDoc
<1>2. d.status = "queued" /\ d.worker = NoWorker /\ d.gen = doc[j].gen
  BY <1>1, ReturnedFields
<1>3. Alters(w) /\ HasNone(w) /\ pc'[w] = "idle"
  BY <1>1, LeavesAlters DEF GateDefer
<1>4. CASE HoldsLease(w)
  <2>1. Put(j, d)
    BY <1>4 DEF GateDefer
  <2> HIDE DEF d, j
  <2>2. Becomes(j, d.status, d.worker, d.gen)
    BY <1>1, <2>1, PutBecomes
  <2>3. Becomes(j, "queued", NoWorker, doc[j].gen)
    BY <1>2, <2>2
  <2> QED
    BY <1>3, <1>4, <2>3 DEF j
<1>5. CASE ~HoldsLease(w)
  BY <1>3, <1>5 DEF GateDefer, AllStill, Still
<1> QED
  BY <1>4, <1>5

LEMMA FinishEffect ==
  ASSUME IInv, NEW w \in Workers, FinWrite(w)
  PROVE  /\ Alters(w)
         /\ pc'[w] \in {"idle", "finRead", "after"}
         /\ \/ AllStill /\ (GoesOn(w) \/ HasNone(w))
            \/ /\ Owns(w) /\ GoesOn(w) /\ pc'[w] = "after"
               /\ Becomes(run[w].job, EndStatus(w), w, doc[run[w].job].gen)
<1> DEFINE j == run[w].job
           d == [doc[j] EXCEPT !.status = EndStatus(w), !.beat = "none",
                               !.due = ~Retryable(w)]
<1>1. TypeOK /\ pc[w] \in Holding /\ j \in Jobs /\ doc[j] \in JobDoc
  BY DEF IInv, TypeOK, InHand, FinWrite, Holding
<1>2. CASE Escapes(w) /\ UNCHANGED doc
  BY <1>1, <1>2, EscapesAlters DEF AllStill, Still
<1>3. CASE FinUpdate(w) /\ Goto(w, "after") /\ UNCHANGED <<run, call>>
  <2>1. Alters(w) /\ GoesOn(w) /\ pc'[w] = "after"
    BY <1>1, <1>3, GotoAlters DEF Alters, GoesOn, Holding
  <2>2. CASE Owns(w)
    <3>1. d.status = EndStatus(w) /\ d.worker = w /\ d.gen = doc[j].gen
      BY <1>1, <2>2 DEF JobDoc, Owns
    <3>2. Put(j, d)
      BY <1>3, <2>2 DEF FinUpdate
    <3> HIDE DEF d, j
    <3>3. Becomes(j, d.status, d.worker, d.gen)
      BY <1>1, <3>2, PutBecomes
    <3>4. Becomes(j, EndStatus(w), w, doc[j].gen)
      BY <3>1, <3>3
    <3> QED
      BY <2>1, <2>2, <3>4 DEF j
  <2>3. CASE ~Owns(w)
    BY <1>3, <2>1, <2>3 DEF FinUpdate, AllStill, Still
  <2> QED
    BY <2>2, <2>3
<1> QED
  BY <1>2, <1>3 DEF FinWrite

\* The steps that write nothing a lease depends on.
Move(w) ==
  \/ NothingDue(w) \/ Sweep(w) \/ Bury(w) \/ GateRead(w) \/ WaitRead(w)
  \/ Succeeds(w) \/ Fails(w) \/ Raises(w) \/ FinRead(w) \/ After(w)
  \/ Beat(w) \/ Restart(w) \/ Crash(w) \/ MongoFails(w)

LEMMA MoveEffect ==
  ASSUME IInv, NEW w \in Workers, Move(w)
  PROVE  AllStill /\ Alters(w) /\ (GoesOn(w) \/ HasNone(w))
<1> USE DEF Holding
<1>1. TypeOK
  BY DEF IInv
<1>2. CASE NothingDue(w) \/ Sweep(w) \/ Restart(w)
  BY <1>1, <1>2, GotoAlters DEF NothingDue, Sweep, Restart, Local, Alters, HasNone, AllStill, Still
<1>3. CASE GateRead(w) \/ WaitRead(w)
  BY <1>1, <1>3, GotoAlters DEF GateRead, WaitRead, Local, Alters, GoesOn, AllStill, Still
<1>4. CASE Bury(w) \/ Crash(w)
  <2>1. AllStill
    BY <1>4 DEF Bury, Crash, AllStill, Still
  <2>2. Alters(w)
    BY <1>1, <1>4 DEF TypeOK, Bury, Crash, Forgets, Goto, Alters
  <2>3. HasNone(w)
    BY <1>1, <1>4, GotoAlters DEF Bury, Crash, NextReap, HasNone
  <2> QED
    BY <2>1, <2>2, <2>3
<1>5. ASSUME NEW k, NEW b, Ends(w, k, b, "finRead")
      PROVE  AllStill /\ Alters(w) /\ GoesOn(w)
  BY <1>1, <1>5, GotoAlters DEF Ends, Alters, GoesOn, AllStill, Still
<1>6. CASE FinRead(w)
  <2>1. AllStill
    BY <1>6 DEF FinRead, AllStill, Still
  <2>2. ASSUME NEW p \in {"finCancel", "finWrite"}, Goto(w, p), UNCHANGED <<run, call>>
        PROVE  Alters(w) /\ GoesOn(w)
    BY <1>1, <1>6, <2>2, GotoAlters DEF FinRead, Alters, GoesOn
  <2> QED
    BY <1>1, <1>6, <2>1, <2>2, LeavesAlters DEF FinRead
<1>7. CASE After(w)
  BY <1>1, <1>7, LeavesAlters DEF After, AllStill, Still
<1>8. CASE Beat(w)
  <2>1. run[w].job \in Jobs /\ doc[run[w].job] \in JobDoc
    BY <1>1, <1>8 DEF TypeOK, InHand, Beat
  <2>2. AllStill
    BY <1>1, <1>8, <2>1 DEF TypeOK, JobDoc, Beat, Put, AllStill, Still
  <2> QED
    BY <1>8, <2>2 DEF Beat, Local, Alters, GoesOn
<1>9. CASE MongoFails(w)
  <2>1. pc[w] \in Holding /\ AllStill
    BY <1>9 DEF MongoFails, AllStill, Still
  <2> QED
    BY <1>1, <1>9, <2>1, EscapesAlters DEF MongoFails
<1> QED
  BY <1>2, <1>3, <1>4, <1>5, <1>6, <1>7, <1>8, <1>9 DEF Move, Succeeds, Fails, Raises

LEMMA CalmMoves ==
  ASSUME NEW w \in Workers, CalmLoop(w) \/ Beat(w) \/ Restart(w) \/ Crash(w) \/ MongoFails(w)
  PROVE  Reap(w) \/ GateDefer(w) \/ FinWrite(w) \/ Move(w)
  BY DEF CalmLoop, Move

-----------------------------------------------------------------------------
(* Nothing becomes cancelled.                                              *)

LEMMA BecomesNotCancelled ==
  ASSUME NothingCancelled, NEW j \in Jobs, NEW s, NEW v, NEW g, Becomes(j, s, v, g),
         s # "cancelled"
  PROVE  \A k \in Jobs : doc'[k].status # "cancelled"
  BY DEF NothingCancelled, Becomes, Still

LEMMA StillNotCancelled ==
  ASSUME NothingCancelled, AllStill
  PROVE  \A k \in Jobs : doc'[k].status # "cancelled"
  BY DEF NothingCancelled, AllStill, Still

\* The call a step leaves behind is no cancelling one.
LEMMA CallKept ==
  ASSUME IInv, NothingCancelled, NEW w \in Workers,
         Reap(w) \/ GateDefer(w) \/ FinWrite(w) \/ Move(w)
  PROVE  \A v \in Workers : call'[v].kind # "cancelled"
<1>1. TypeOK /\ call \in [Workers -> Calls]
  BY DEF IInv, TypeOK
<1>2. \A v \in Workers : call[v].kind # "cancelled"
  BY DEF NothingCancelled
<1>3. CASE UNCHANGED call
  BY <1>2, <1>3
<1>4. ASSUME Forgets(w) PROVE \A v \in Workers : call'[v].kind # "cancelled"
  BY <1>1, <1>2, <1>4 DEF Forgets, NoCall
<1>5. ASSUME NEW c, c.kind # "cancelled", call' = [call EXCEPT ![w] = c]
      PROVE  \A v \in Workers : call'[v].kind # "cancelled"
  BY <1>1, <1>2, <1>5
<1>6. ASSUME NEW k, NEW b, NEW p, Ends(w, k, b, p), k # "cancelled"
      PROVE  \A v \in Workers : call'[v].kind # "cancelled"
  <2> DEFINE c == [kind |-> k, rescue |-> b]
  <2>1. c.kind # "cancelled" /\ call' = [call EXCEPT ![w] = c]
    BY <1>6 DEF Ends
  <2> HIDE DEF c
  <2> QED
    BY <1>5, <2>1
<1>7. ASSUME Escapes(w) PROVE \A v \in Workers : call'[v].kind # "cancelled"
  <2>1. Rescue.kind # "cancelled"
    BY DEF Rescue
  <2> QED
    BY <1>4, <1>5, <1>7, <2>1 DEF Escapes, Leaves
<1>8. CASE GateDefer(w) \/ After(w)
  BY <1>4, <1>8 DEF GateDefer, After, Leaves
<1>9. CASE FinWrite(w) \/ MongoFails(w)
  BY <1>3, <1>7, <1>9 DEF FinWrite, MongoFails
<1>10. CASE FinRead(w)
  BY <1>3, <1>4, <1>10 DEF FinRead, Leaves
<1>11. CASE Succeeds(w) \/ Fails(w) \/ Raises(w)
  BY <1>6, <1>11 DEF Succeeds, Fails, Raises
<1>12. CASE Bury(w) \/ Crash(w)
  BY <1>4, <1>12 DEF Bury, Crash
<1>13. CASE Reap(w)
  BY <1>3, <1>13 DEF Reap
<1>14. CASE NothingDue(w) \/ Sweep(w) \/ GateRead(w) \/ WaitRead(w) \/ Beat(w) \/ Restart(w)
  BY <1>3, <1>14 DEF NothingDue, Sweep, GateRead, WaitRead, Beat, Restart, Local
<1> QED
  BY <1>8, <1>9, <1>10, <1>11, <1>12, <1>13, <1>14 DEF Move

LEMMA PointKept ==
  ASSUME IInv, NothingCancelled, NEW w \in Workers,
         Reap(w) \/ GateDefer(w) \/ FinWrite(w) \/ Move(w)
  PROVE  pc'[w] \notin {"shutRead", "shutWrite", "finCancel"}
<1>1. TypeOK
  BY DEF IInv
<1>2. CASE Reap(w) \/ GateDefer(w) \/ FinWrite(w)
  BY <1>2, ReapEffect, DeferEffect, FinishEffect
<1>3. CASE NothingDue(w) \/ Sweep(w) \/ Restart(w) \/ GateRead(w) \/ WaitRead(w) \/ Bury(w)
           \/ Crash(w)
  BY <1>1, <1>3, GotoAlters DEF NothingDue, Sweep, Restart, GateRead, WaitRead, Bury, Crash,
     NextReap
<1>4. CASE Succeeds(w) \/ Fails(w) \/ Raises(w)
  BY <1>1, <1>4, GotoAlters DEF Succeeds, Fails, Raises, Ends
<1>5. CASE FinRead(w)
  <2>1. call[w].kind # "cancelled"
    BY DEF NothingCancelled
  <2> QED
    BY <1>1, <1>5, <2>1, GotoAlters, LeavesAlters DEF FinRead
<1>6. CASE After(w)
  BY <1>1, <1>6, LeavesAlters DEF After
<1>7. CASE Beat(w)
  BY <1>7 DEF Beat
<1>8. CASE MongoFails(w)
  <2>1. pc[w] \in Holding
    BY <1>8 DEF MongoFails, Holding
  <2> QED
    BY <1>1, <1>8, <2>1, EscapesAlters DEF MongoFails
<1> QED
  BY <1>2, <1>3, <1>4, <1>5, <1>6, <1>7, <1>8 DEF Move

LEMMA NothingCancelledStep ==
  ASSUME IInv, Within, NothingCancelled, Calm', Next
  PROVE  NothingCancelled'
<1>1. TypeOK /\ \A v \in Workers : ~stopping[v] /\ stopping \in [Workers -> BOOLEAN]
  BY DEF IInv, TypeOK, NothingCancelled
<1>2. ASSUME NEW w \in Workers, Reap(w) \/ GateDefer(w) \/ FinWrite(w) \/ Move(w)
      PROVE  NothingCancelled'
  <2>1. Alters(w) /\ \A k \in Jobs : doc'[k].status # "cancelled"
    <3>1. CASE Reap(w)
      BY <3>1, ReapEffect, BecomesNotCancelled, StillNotCancelled
    <3>2. CASE GateDefer(w)
      <4>1. run[w].job \in Jobs
        BY <1>1, <3>2 DEF TypeOK, InHand, GateDefer, Holding
      <4> QED
        BY <3>2, <4>1, DeferEffect, BecomesNotCancelled, StillNotCancelled
    <3>3. CASE FinWrite(w)
      <4>1. run[w].job \in Jobs
        BY <1>1, <3>3 DEF TypeOK, InHand, FinWrite, Holding
      <4>2. EndStatus(w) # "cancelled"
        BY EndStatusType
      <4> QED
        BY <3>3, <4>1, <4>2, FinishEffect, BecomesNotCancelled, StillNotCancelled
    <3>4. CASE Move(w)
      BY <3>4, MoveEffect, StillNotCancelled
    <3> QED
      BY <1>2, <3>1, <3>2, <3>3, <3>4
  <2>2. \A v \in Workers : pc'[v] \notin {"shutRead", "shutWrite", "finCancel"}
    BY <1>2, <2>1, PointKept DEF Alters, NothingCancelled
  <2>3. \A v \in Workers : call'[v].kind # "cancelled"
    BY <1>2, CallKept
  <2>4. UNCHANGED cancelling
    BY <1>2 DEF Reap, GateDefer, FinWrite, Move, NothingDue, Sweep, Bury, GateRead, WaitRead,
       Succeeds, Fails, Raises, Ends, FinRead, After, Beat, Restart, Crash, MongoFails, Bid
  <2>5. UNCHANGED stopping \/ stopping' = [stopping EXCEPT ![w] = FALSE]
    BY <1>2 DEF Reap, GateDefer, FinWrite, Move, NothingDue, Sweep, Bury, GateRead, WaitRead,
       Succeeds, Fails, Raises, Ends, FinRead, After, Beat, Restart, Crash, MongoFails, Local
  <2>6. \A v \in Workers : ~stopping'[v]
    BY <1>1, <2>5
  <2> QED
    BY <2>1, <2>2, <2>3, <2>4, <2>6 DEF NothingCancelled
<1>3. ASSUME NEW w \in Workers, Claim(w) PROVE NothingCancelled'
  BY <1>1, <1>3, ClaimEffect, BecomesNotCancelled DEF NothingCancelled, Alters, Running
<1>4. ASSUME NEW j \in Jobs, Enqueue(j) \/ Retry(j) PROVE NothingCancelled'
  BY <1>4, OpenEffect, BecomesNotCancelled DEF NothingCancelled
<1>5. ASSUME NEW j \in Jobs, Extend(j) \/ Clock(j) PROVE NothingCancelled'
  BY <1>1, <1>5, ClockEffect, StillNotCancelled DEF NothingCancelled
<1> QED
  BY <1>1, <1>2, <1>3, <1>4, <1>5, CalmSteps, CalmMoves

-----------------------------------------------------------------------------
(* The owner keeps its lease until it ends the job itself.                 *)

\* Nobody arrives at these points but from one of them, with the same claim.
Closed(points) ==
  \A w \in Workers :
    pc'[w] \in points => pc[w] \in points /\ run'[w] = run[w]

LEMMA KeptStill ==
  ASSUME InHand, NEW P, P \subseteq Holding, KeepsLease(P), Closed(P), AllStill
  PROVE  KeepsLease(P)'
<1> SUFFICES ASSUME NEW w \in Workers, pc'[w] \in P, Owns(w)'
             PROVE  doc'[run'[w].job].status = "running"
  BY DEF KeepsLease
<1>1. pc[w] \in P /\ run'[w] = run[w] /\ run[w].job \in Jobs
  BY DEF Closed, InHand
<1> QED
  BY <1>1 DEF KeepsLease, Owns, AllStill, Still

\* A job that is freed has no owner.
LEMMA KeptFreed ==
  ASSUME InHand, NEW P, P \subseteq Holding, KeepsLease(P), Closed(P),
         NEW j \in Jobs, NEW s, NEW g, Becomes(j, s, NoWorker, g)
  PROVE  KeepsLease(P)'
<1> SUFFICES ASSUME NEW w \in Workers, pc'[w] \in P, Owns(w)'
             PROVE  doc'[run'[w].job].status = "running"
  BY DEF KeepsLease
<1>1. pc[w] \in P /\ run'[w] = run[w] /\ run[w].job \in Jobs
  BY DEF Closed, InHand
<1>2. run[w].job # j
  BY <1>1, QueueAssumption DEF Owns, Becomes
<1> QED
  BY <1>1, <1>2 DEF KeepsLease, Owns, Becomes, Still

\* A job that its owner settles is nobody else's, and the owner is past them.
LEMMA KeptSettled ==
  ASSUME InHand, NEW P, P \subseteq Holding, KeepsLease(P), Closed(P),
         NEW j \in Jobs, NEW s, NEW g, NEW v \in Workers, Becomes(j, s, v, g), pc'[v] \notin P
  PROVE  KeepsLease(P)'
<1> SUFFICES ASSUME NEW w \in Workers, pc'[w] \in P, Owns(w)'
             PROVE  doc'[run'[w].job].status = "running"
  BY DEF KeepsLease
<1>1. pc[w] \in P /\ run'[w] = run[w] /\ run[w].job \in Jobs
  BY DEF Closed, InHand
<1>2. run[w].job # j
  BY <1>1 DEF Owns, Becomes
<1> QED
  BY <1>1, <1>2 DEF KeepsLease, Owns, Becomes, Still

\* The claim of a job is a lease of its own.
LEMMA KeptClaimed ==
  ASSUME IInv, NEW P, P \subseteq Holding, KeepsLease(P), NEW w \in Workers, Claim(w)
  PROVE  KeepsLease(P)'
<1>1. PICK j \in Jobs : /\ Becomes(j, "running", w, doc[j].gen + 1)
                        /\ run'[w].job = j
  BY ClaimEffect
<1>2. Alters(w) /\ InHand
  BY ClaimEffect DEF IInv, TypeOK
<1> SUFFICES ASSUME NEW v \in Workers, pc'[v] \in P, Owns(v)'
             PROVE  doc'[run'[v].job].status = "running"
  BY DEF KeepsLease
<1>3. CASE v = w
  BY <1>1, <1>3 DEF Becomes
<1>4. CASE v # w
  <2>1. pc[v] \in P /\ run'[v] = run[v] /\ run[v].job \in Jobs
    BY <1>2, <1>4 DEF Alters, InHand
  <2>2. run[v].job # j
    BY <1>1, <1>4, <2>1 DEF Owns, Becomes
  <2> QED
    BY <1>1, <2>1, <2>2 DEF KeepsLease, Owns, Becomes, Still
<1> QED
  BY <1>3, <1>4

\* The points before the end of a job are reached from one another only: those
\* of the run whatever MongoDB does, those of finish() too if it never fails.
LEMMA PointsClosed ==
  ASSUME IInv, NEW P \in {Running, Unended}, NEW w \in Workers,
         Reap(w) \/ GateDefer(w) \/ FinWrite(w) \/ Move(w),
         P = Running \/ ~MongoFails(w)
  PROVE  Closed(P)
<1> USE DEF Holding, Running, Unended
<1>1. TypeOK /\ P \subseteq Holding
  BY DEF IInv
<1>2. Alters(w) /\ (GoesOn(w) \/ HasNone(w))
  BY ReapEffect, DeferEffect, FinishEffect, MoveEffect
<1>3. pc'[w] \in P => pc[w] \in P
  <2>1. CASE Reap(w) \/ GateDefer(w)
    BY <2>1, ReapEffect, DeferEffect
  <2>2. CASE FinWrite(w)
    BY <2>2, FinishEffect DEF FinWrite
  <2>3. CASE NothingDue(w) \/ Sweep(w) \/ Restart(w) \/ Bury(w) \/ Crash(w)
    BY <1>1, <2>3, GotoAlters DEF NothingDue, Sweep, Restart, Bury, Crash, NextReap
  <2>4. CASE GateRead(w) \/ WaitRead(w)
    BY <2>4 DEF GateRead, WaitRead
  <2>5. CASE Succeeds(w) \/ Fails(w) \/ Raises(w)
    BY <1>1, <2>5, GotoAlters DEF Succeeds, Fails, Raises, Ends
  <2>6. CASE FinRead(w)
    BY <1>1, <2>6, GotoAlters, LeavesAlters DEF FinRead
  <2>7. CASE After(w)
    BY <1>1, <2>7, LeavesAlters DEF After
  <2>8. CASE Beat(w)
    BY <2>8 DEF Beat
  <2>9. CASE MongoFails(w)
    <3>1. pc[w] \in Holding /\ P = Running
      BY <2>9 DEF MongoFails
    <3> QED
      BY <1>1, <2>9, <3>1, EscapesAlters DEF MongoFails
  <2> QED
    BY <2>1, <2>2, <2>3, <2>4, <2>5, <2>6, <2>7, <2>8, <2>9 DEF Move
<1> QED
  BY <1>1, <1>2, <1>3 DEF Closed, Alters, GoesOn, HasNone

LEMMA KeepsLeaseStep ==
  ASSUME IInv, Within, NothingCancelled, Calm', Next,
         NEW P \in {Running, Unended}, KeepsLease(P), P = Running \/ Unspent("mongo")'
  PROVE  KeepsLease(P)'
<1>1. TypeOK /\ InHand /\ P \subseteq Holding
  BY DEF IInv, TypeOK, Holding, Running, Unended
<1>2. ASSUME NEW w \in Workers, Claim(w) PROVE KeepsLease(P)'
  BY <1>1, <1>2, KeptClaimed
<1>3. ASSUME UNCHANGED <<pc, run>> PROVE Closed(P)
  BY <1>3 DEF Closed
<1>4. ASSUME NEW j \in Jobs, Enqueue(j) \/ Retry(j) PROVE KeepsLease(P)'
  BY <1>1, <1>3, <1>4, OpenEffect, KeptFreed
<1>5. ASSUME NEW j \in Jobs, Extend(j) \/ Clock(j) PROVE KeepsLease(P)'
  BY <1>1, <1>3, <1>5, ClockEffect, KeptStill
<1>6. ASSUME NEW w \in Workers, Reap(w) \/ GateDefer(w) \/ FinWrite(w) \/ Move(w)
      PROVE  KeepsLease(P)'
  <2>1. P = Running \/ ~MongoFails(w)
    BY <1>1, NotSpent DEF MongoFails, Faults
  <2>2. Closed(P)
    BY <1>6, <2>1, PointsClosed
  <2>3. CASE Reap(w)
    BY <1>1, <2>2, <2>3, ReapEffect, KeptStill, KeptFreed
  <2>4. CASE GateDefer(w)
    <3>1. run[w].job \in Jobs
      BY <1>1, <2>4 DEF InHand, GateDefer, Holding
    <3> QED
      BY <1>1, <2>2, <2>4, <3>1, DeferEffect, KeptStill, KeptFreed
  <2>5. CASE FinWrite(w)
    <3>1. run[w].job \in Jobs /\ "after" \notin P
      BY <1>1, <2>5 DEF InHand, FinWrite, Holding, Running, Unended
    <3> QED
      BY <1>1, <2>2, <2>5, <3>1, FinishEffect, KeptStill, KeptSettled
  <2>6. CASE Move(w)
    BY <1>1, <2>2, <2>6, MoveEffect, KeptStill
  <2> QED
    BY <1>6, <2>3, <2>4, <2>5, <2>6
<1> QED
  BY <1>1, <1>2, <1>4, <1>5, <1>6, CalmSteps, CalmMoves

LEMMA LInvInit == Init => LInv
<1> SUFFICES ASSUME Init PROVE LInv
  OBVIOUS
<1>1. IInv
  BY InvInit
<1>2. Within
  <2>1. \A f \in Faults : Budget[f] \in Nat
    BY QueueAssumption
  <2> QED
    BY <2>1 DEF Init, Within
<1>3. NothingCancelled
  BY DEF Init, NothingCancelled, NoCall, NoDoc
<1>4. KeepsLease(Running) /\ KeepsLease(Unended)
  BY DEF Init, KeepsLease, Running, Unended
<1> QED
  BY <1>1, <1>2, <1>3, <1>4 DEF LInv

LEMMA LInvStep == LInv /\ [Next]_vars => LInv'
<1> SUFFICES ASSUME LInv, [Next]_vars PROVE LInv'
  OBVIOUS
<1>1. IInv /\ Within /\ TypeOK
  BY DEF LInv, IInv
<1>2. IInv' /\ Within'
  BY <1>1, InvStep, WithinStep
<1>3. (Calm' => Calm) /\ (Tame' => Tame /\ Calm')
  BY <1>1, CalmBefore DEF Tame
<1>4. CASE UNCHANGED vars
  <2>1. (NothingCancelled => NothingCancelled') /\ \A P : KeepsLease(P) => KeepsLease(P)'
    BY <1>4 DEF vars, NothingCancelled, KeepsLease, Owns
  <2> QED
    BY <1>2, <1>3, <2>1 DEF LInv
<1>5. CASE Next
  <2>1. Calm' => NothingCancelled'
    BY <1>1, <1>3, <1>5, NothingCancelledStep DEF LInv
  <2>2. Calm' => KeepsLease(Running)'
    BY <1>1, <1>3, <1>5, KeepsLeaseStep DEF LInv
  <2>3. Tame' => KeepsLease(Unended)'
    BY <1>1, <1>3, <1>5, KeepsLeaseStep DEF LInv, Tame
  <2> QED
    BY <1>2, <2>1, <2>2, <2>3 DEF LInv
<1> QED
  BY <1>4, <1>5

\* worker.md: a worker that was declared dead and wakes up cannot write over its
\* replacement's work.  As long as nothing has been stopped or cancelled, the
\* job of a worker with the newest claim stays "running" while it works,
\* whatever crashes, stalls, reaps, failing writes, late finishes and retries
\* happen around it.  (The shutdown and cancel writes of ops do disturb it.)
THEOREM ReplacementsUndisturbed == Spec => [](Calm => ReplacementUndisturbed)
<1>1. LInv => (Calm => ReplacementUndisturbed)
  BY DEF LInv, KeepsLease, Running, Owns, ReplacementUndisturbed
<1> QED
  BY <1>1, LInvInit, LInvStep, PTL DEF Spec

-----------------------------------------------------------------------------
(* The refinement: what each step is of ClaimLease.                        *)

St == [j \in Jobs |-> doc[j].status]
Ge == [j \in Jobs |-> doc[j].gen]
Se == [w \in Workers |-> IF pc[w] \in Holding THEN <<run[w].job, run[w].gen>> ELSE <<>>]

\* The steps of ClaimLease, of the queue's abstraction.
LEMMA LeaseSteps ==
  ASSUME NEW j \in Jobs, NEW w \in Workers
  PROVE  /\ (/\ St[j] \in {"absent", "dead"}
             /\ St' = [St EXCEPT ![j] = "queued"] /\ Ge' = Ge /\ Se' = Se) => Lease!Next
         /\ (/\ Se[w] = <<>> /\ St[j] = "queued"
             /\ St' = [St EXCEPT ![j] = "running"]
             /\ Ge' = [Ge EXCEPT ![j] = Ge[j] + 1]
             /\ Se' = [Se EXCEPT ![w] = <<j, Ge[j] + 1>>]) => Lease!Next
         /\ (/\ Se[w] = <<j, Ge[j]>> /\ St[j] = "running"
             /\ \E s \in {"queued", "done", "dead"} : St' = [St EXCEPT ![j] = s]
             /\ Se' = Se \/ Se' = [Se EXCEPT ![w] = <<>>]
             /\ Ge' = Ge) => Lease!Next
         /\ (/\ St[j] = "running"
             /\ \E s \in {"queued", "dead"} : St' = [St EXCEPT ![j] = s]
             /\ Ge' = [Ge EXCEPT ![j] = Ge[j] + 1]
             /\ Se' = Se) => Lease!Next
         /\ (St' = St /\ Ge' = Ge /\ Se' = [Se EXCEPT ![w] = <<>>]) => Lease!Next
         /\ (St' = St /\ Ge' = Ge /\ Se' = Se) => UNCHANGED Lease!vars
<1> USE DEF St, Ge, Se
<1>1. (/\ St[j] \in {"absent", "dead"}
       /\ St' = [St EXCEPT ![j] = "queued"] /\ Ge' = Ge /\ Se' = Se) => Lease!Open(j)
  BY DEF Lease!Open
<1>2. (/\ Se[w] = <<>> /\ St[j] = "queued"
       /\ St' = [St EXCEPT ![j] = "running"]
       /\ Ge' = [Ge EXCEPT ![j] = Ge[j] + 1]
       /\ Se' = [Se EXCEPT ![w] = <<j, Ge[j] + 1>>]) => Lease!Grant(w, j)
  BY DEF Lease!Grant
<1>3. (/\ Se[w] = <<j, Ge[j]>> /\ St[j] = "running"
       /\ \E s \in {"queued", "done", "dead"} : St' = [St EXCEPT ![j] = s]
       /\ Se' = Se \/ Se' = [Se EXCEPT ![w] = <<>>]
       /\ Ge' = Ge) => Lease!Settle(w, j)
  BY DEF Lease!Settle, Lease!Holds, Lease!Settled
<1>4. (/\ St[j] = "running"
       /\ \E s \in {"queued", "dead"} : St' = [St EXCEPT ![j] = s]
       /\ Ge' = [Ge EXCEPT ![j] = Ge[j] + 1]
       /\ Se' = Se) => Lease!Revoke(j)
  BY DEF Lease!Revoke
<1>5. (St' = St /\ Ge' = Ge /\ Se' = [Se EXCEPT ![w] = <<>>]) => Lease!Leave(w)
  BY DEF Lease!Leave
<1>6. (St' = St /\ Ge' = Ge /\ Se' = Se) => UNCHANGED Lease!vars
  BY DEF Lease!vars
<1> QED
  BY <1>1, <1>2, <1>3, <1>4, <1>5, <1>6 DEF Lease!Next

LEMMA StatusMaps ==
  ASSUME NEW j \in Jobs, NEW s, NEW v, Becomes(j, s, v, doc[j].gen)
  PROVE  St' = [St EXCEPT ![j] = s] /\ Ge' = Ge
  BY DEF Becomes, Still, St, Ge

LEMMA FenceMaps ==
  ASSUME NEW j \in Jobs, NEW s, NEW v, Becomes(j, s, v, doc[j].gen + 1)
  PROVE  St' = [St EXCEPT ![j] = s] /\ Ge' = [Ge EXCEPT ![j] = Ge[j] + 1]
  BY DEF Becomes, Still, St, Ge

LEMMA StillMaps ==
  ASSUME AllStill
  PROVE  St' = St /\ Ge' = Ge
  BY DEF AllStill, Still, St, Ge

LEMMA SessionMaps ==
  ASSUME NEW w \in Workers, Alters(w)
  PROVE  /\ GoesOn(w) => Se' = Se
         /\ HasNone(w) => Se' = [Se EXCEPT ![w] = <<>>]
         /\ (HasNone(w) /\ pc[w] \notin Holding) => Se' = Se
  BY DEF Alters, GoesOn, HasNone, Se

LEMMA LeaseInit == Init => Lease!Init
  BY DEF Init, NoDoc, Holding, Lease!Init

LEMMA LeaseStep ==
  ASSUME LInv, Tame, Tame', Next
  PROVE  Lease!Next \/ UNCHANGED Lease!vars
<1>1. /\ IInv /\ Within /\ TypeOK /\ InHand /\ Calm' /\ NothingCancelled
      /\ KeepsLease(Unended)
  BY DEF LInv, IInv, TypeOK, Tame
<1>2. ASSUME NEW w \in Workers, Claim(w) PROVE Lease!Next
  <2>1. PICK j \in Jobs : /\ doc[j].status = "queued"
                          /\ Becomes(j, "running", w, doc[j].gen + 1)
                          /\ run'[w].job = j /\ run'[w].gen = doc[j].gen + 1
    BY <1>1, <1>2, ClaimEffect
  <2>2. Alters(w) /\ pc[w] \notin Holding /\ pc'[w] \in Holding
    BY <1>1, <1>2, ClaimEffect DEF Holding, Running
  <2>3. Se[w] = <<>> /\ St[j] = "queued" /\ Se' = [Se EXCEPT ![w] = <<j, Ge[j] + 1>>]
    BY <2>1, <2>2 DEF Alters, Se, St, Ge
  <2> QED
    BY <2>1, <2>3, FenceMaps, LeaseSteps
<1>3. ASSUME NEW j \in Jobs, Enqueue(j) \/ Retry(j) PROVE Lease!Next \/ UNCHANGED Lease!vars
  <2>1. /\ doc[j].status \in {"absent", "dead"} /\ Becomes(j, "queued", NoWorker, doc[j].gen)
        /\ UNCHANGED <<pc, run>>
    BY <1>1, <1>3, OpenEffect
  <2>2. St[j] \in {"absent", "dead"} /\ Se' = Se
    BY <2>1 DEF St, Se
  <2>3. CASE Workers = {}
    BY <2>1, <2>2, <2>3, StatusMaps DEF Lease!Next, Lease!Open, St, Ge, Se
  <2>4. CASE Workers # {}
    BY <2>1, <2>2, <2>4, StatusMaps, LeaseSteps
  <2> QED
    BY <2>3, <2>4
<1>4. ASSUME NEW j \in Jobs, Extend(j) \/ Clock(j) PROVE UNCHANGED Lease!vars
  <2>1. AllStill /\ UNCHANGED <<pc, run>>
    BY <1>1, <1>4, ClockEffect
  <2>2. Se' = Se
    BY <2>1 DEF Se
  <2> QED
    BY <2>1, <2>2, StillMaps DEF Lease!vars, St, Ge, Se
<1>5. ASSUME NEW w \in Workers, Alters(w), AllStill, GoesOn(w) \/ HasNone(w)
      PROVE  Lease!Next \/ UNCHANGED Lease!vars
  <2>1. St' = St /\ Ge' = Ge /\ (Se' = Se \/ Se' = [Se EXCEPT ![w] = <<>>])
    BY <1>5, StillMaps, SessionMaps
  <2>2. CASE Se' = Se
    BY <2>1, <2>2 DEF Lease!vars, St, Ge, Se
  <2>3. CASE Se' = [Se EXCEPT ![w] = <<>>]
    BY <2>1, <2>3 DEF Lease!Next, Lease!Leave, St, Ge, Se
  <2> QED
    BY <2>1, <2>2, <2>3
<1>6. ASSUME NEW w \in Workers, Reap(w) PROVE Lease!Next \/ UNCHANGED Lease!vars
  <2>1. Alters(w) /\ HasNone(w) /\ pc[w] \notin Holding
    BY <1>1, <1>6, ReapEffect DEF Reap, Holding
  <2>2. ASSUME NEW j \in Jobs, doc[j].status = "running", NEW s \in {"queued", "dead"},
               Becomes(j, s, NoWorker, doc[j].gen + 1)
        PROVE  Lease!Next
    <3>1. St[j] = "running" /\ Se' = Se
      BY <2>1, <2>2, SessionMaps DEF St
    <3> QED
      BY <2>2, <3>1, FenceMaps, LeaseSteps
  <2> QED
    BY <1>1, <1>5, <1>6, <2>1, <2>2, ReapEffect
\* The owner of a job that it may settle holds its lease.
<1>7. ASSUME NEW w \in Workers, pc[w] \in Holding, HoldsLease(w)
      PROVE  /\ run[w].job \in Jobs /\ St[run[w].job] = "running"
             /\ Se[w] = <<run[w].job, Ge[run[w].job]>>
  BY <1>1, <1>7 DEF InHand, HoldsLease, Owns, St, Ge, Se
<1>8. ASSUME NEW w \in Workers, GateDefer(w) PROVE Lease!Next \/ UNCHANGED Lease!vars
  <2>1. Alters(w) /\ HasNone(w) /\ pc[w] \in Holding
    BY <1>1, <1>8, DeferEffect DEF GateDefer, Holding
  <2>2. CASE HoldsLease(w) /\ Becomes(run[w].job, "queued", NoWorker, doc[run[w].job].gen)
    <3>1. /\ run[w].job \in Jobs /\ St[run[w].job] = "running"
          /\ Se[w] = <<run[w].job, Ge[run[w].job]>>
      BY <1>7, <2>1, <2>2
    <3>2. St' = [St EXCEPT ![run[w].job] = "queued"] /\ Ge' = Ge
      BY <2>2, <3>1, StatusMaps
    <3>3. Se' = [Se EXCEPT ![w] = <<>>]
      BY <2>1, SessionMaps
    <3> QED
      BY <3>1, <3>2, <3>3, LeaseSteps
  <2> QED
    BY <1>1, <1>5, <1>8, <2>1, <2>2, DeferEffect
<1>9. ASSUME NEW w \in Workers, FinWrite(w) PROVE Lease!Next \/ UNCHANGED Lease!vars
  <2>1. Alters(w) /\ pc[w] \in Holding /\ pc[w] \in Unended
    BY <1>1, <1>9, FinishEffect DEF FinWrite, Holding, Unended
  <2>2. CASE /\ Owns(w) /\ GoesOn(w)
             /\ Becomes(run[w].job, EndStatus(w), w, doc[run[w].job].gen)
    <3>1. HoldsLease(w)
      BY <1>1, <2>1, <2>2 DEF KeepsLease, HoldsLease
    <3>2. /\ run[w].job \in Jobs /\ St[run[w].job] = "running"
          /\ Se[w] = <<run[w].job, Ge[run[w].job]>>
      BY <1>7, <2>1, <3>1
    <3>3. St' = [St EXCEPT ![run[w].job] = EndStatus(w)] /\ Ge' = Ge
      BY <2>2, <3>2, StatusMaps
    <3>4. Se' = Se
      BY <2>1, <2>2, SessionMaps
    <3> QED
      BY <3>2, <3>3, <3>4, EndStatusType, LeaseSteps
  <2> QED
    BY <1>1, <1>5, <1>9, <2>1, <2>2, FinishEffect
<1>10. ASSUME NEW w \in Workers, Move(w) PROVE Lease!Next \/ UNCHANGED Lease!vars
  BY <1>1, <1>5, <1>10, MoveEffect
<1> QED
  BY <1>1, <1>2, <1>3, <1>4, <1>6, <1>8, <1>9, <1>10, CalmSteps, CalmMoves

\* The queue implements leases as long as nothing is stopped or cancelled and
\* finish() reaches MongoDB: a job changes status only by a grant, by the newest
\* claim's own settlement, by a revocation that fences the claim first, or by
\* an enqueue or an operator's retry - however many workers crash, stall and
\* come back with an outdated claim.
THEOREM QueueImplementsLease == Spec /\ []Tame => ImplementsLease
<1>1. LInv /\ Tame /\ Tame' /\ [Next]_vars => [Lease!Next]_Lease!vars
  <2> SUFFICES ASSUME LInv, Tame, Tame', [Next]_vars PROVE [Lease!Next]_Lease!vars
    OBVIOUS
  <2>1. CASE UNCHANGED vars
    BY <2>1 DEF vars, Lease!vars
  <2>2. CASE Next
    BY <2>2, LeaseStep
  <2> QED
    BY <2>1, <2>2
<1> QED
  BY <1>1, LInvInit, LInvStep, LeaseInit, PTL DEF Spec, ImplementsLease, Lease!Spec

-----------------------------------------------------------------------------
(***************************************************************************)
(* Sessions.  One session on a bid, and no ending announced that did not   *)
(* happen: what the queue promises as long as no heartbeat of a live worker *)
(* is lost.                                                                *)
(***************************************************************************)
(* What holds while no heartbeat is lost.                                  *)

\* No live worker has stalled; and finish() has always reached MongoDB.
Firm  == Unspent("stall")
Whole == Firm /\ Unspent("mongo")

\* The points at which a worker has not begun to finish, or not finished.
Ahead  == {"gateRead", "waitRead", "gateDefer", "work", "shutRead", "shutWrite"}
Acting == Ahead \cup {"finRead", "finWrite"}

\* The worker's claim is the newest, and keeps its job from being reaped.
Attends(w) ==
  LET d == doc[run[w].job]
  IN /\ Owns(w)
     /\ d.status \in {"running", "cancelled"}
     /\ d.status = "running" => d.beat = "fresh"

Attentive(points) == \A w \in Workers : pc[w] \in points => Attends(w)

\* No reaper has the job on its list.
Unswept(points) ==
  \A v, w \in Workers : pc[w] \in points =>
    \A r \in todo[v] : r.job = run[w].job => r.gen # run[w].gen

\* finish() only hears of a cancel that happened, and then does nothing.
Heeded ==
  \A w \in Workers :
    /\ pc[w] # "finCancel"
    /\ pc[w] \in {"finWrite", "after"} => call[w].kind # "cancelled"
    /\ (pc[w] = "finRead" /\ call[w].kind = "cancelled")
         => Owns(w) /\ doc[run[w].job].status = "cancelled"

Uncancelled == cancelling = {} /\ \A j \in Jobs : doc[j].status # "cancelled"

\* Two sessions past the gate are on different bids.
Apart ==
  \A v, w \in Workers :
    (v # w /\ pc[v] \in {"waitRead", "work"} /\ pc[w] \in {"waitRead", "work"})
      => run[w].job \notin Rivals(run[v].job)

\* What finish() is about to announce as done is done.
DoneInHand ==
  \A w \in Workers :
    (pc[w] = "after" /\ call[w].kind = "ok") => doc[run[w].job].status = "done"

SInv ==
  /\ IInv
  /\ Within
  /\ Firm => Attentive(Ahead) /\ Unswept(Ahead) /\ Heeded
  /\ Whole => Attentive(Acting) /\ Unswept(Acting)
  /\ (Firm /\ Unspent("cancel")) => Uncancelled /\ Apart
  /\ (Whole /\ Unspent("cancel")) => DoneInHand /\ AnnouncedIsDone


-----------------------------------------------------------------------------
(* The workers: where a step may take each of them.                        *)

Stays(w) == pc'[w] = pc[w] /\ run'[w] = run[w] /\ call'[w] = call[w]

Hop(w, from, to) == pc[w] = from /\ pc'[w] = to /\ run'[w] = run[w]

CallStays(w) == call'[w] = call[w]

\* Into the gate, through it, and the ends of the work.
GateRoute(w) ==
  \/ \E p \in {"gateDefer", "waitRead", "work"} :
       /\ Hop(w, "gateRead", p)
       /\ p # "gateDefer" => RunningRivals(run[w].job) = {}
  \/ \E p \in {"gateDefer", "work"} : Hop(w, "waitRead", p)
  \/ Hop(w, "work", "shutRead")
  \/ /\ Hop(w, "work", "finRead") /\ UNCHANGED doc
     /\ call'[w].kind = "cancelled" => doc[run[w].job].status = "cancelled"

\* The shutdown, and finish().
EndRoute(w) ==
  \/ Hop(w, "shutRead", "shutWrite")
  \/ /\ Hop(w, "shutRead", "finRead") /\ CallStays(w) /\ UNCHANGED doc
     /\ Owns(w) => doc[run[w].job].status = "cancelled"
  \/ \E p \in {"shutWrite", "finWrite"} : Hop(w, p, "finRead") /\ call'[w] = Rescue
  \/ /\ Spend("mongo") /\ call'[w] = Rescue
     /\ \E p \in {"finRead", "finCancel", "finWrite", "after"} : Hop(w, p, "finRead")
  \/ /\ Hop(w, "finRead", "finCancel")
     /\ call[w].kind = "cancelled" /\ doc[run[w].job].status # "cancelled"
  \/ Hop(w, "finRead", "finWrite") /\ CallStays(w) /\ call[w].kind # "cancelled"
  \/ Hop(w, "finWrite", "after") /\ CallStays(w) /\ FinUpdate(w)

Route(w) ==
  Stays(w) \/ HasNone(w) \/ Claim(w) \/ GateRoute(w) \/ EndRoute(w)

OthersStay(w) == \A v \in Workers \ {w} : Stays(v)

LEMMA GotoStays ==
  ASSUME TypeOK, NEW w \in Workers, NEW p, Goto(w, p), UNCHANGED <<run, call>>
  PROVE  OthersStay(w) /\ pc'[w] = p /\ run'[w] = run[w] /\ CallStays(w)
  BY DEF TypeOK, Goto, OthersStay, Stays, CallStays

LEMMA LeavesStays ==
  ASSUME TypeOK, NEW w \in Workers, Leaves(w)
  PROVE  OthersStay(w) /\ HasNone(w)
  BY DEF TypeOK, Leaves, Forgets, Goto, OthersStay, Stays, HasNone, Holding

LEMMA EscapesStays ==
  ASSUME TypeOK, NEW w \in Workers, Escapes(w)
  PROVE  /\ OthersStay(w)
         /\ HasNone(w) \/ (pc'[w] = "finRead" /\ run'[w] = run[w] /\ call'[w] = Rescue)
<1>1. CASE call[w].rescue
  BY <1>1, LeavesStays DEF Escapes
<1>2. CASE ~call[w].rescue
  BY <1>2 DEF TypeOK, Escapes, Goto, OthersStay, Stays
<1> QED
  BY <1>1, <1>2

LEMMA EndsStays ==
  ASSUME TypeOK, NEW w \in Workers, NEW k, NEW b, NEW p, Ends(w, k, b, p)
  PROVE  /\ OthersStay(w) /\ Hop(w, "work", p) /\ UNCHANGED doc
         /\ call'[w].kind = k
  BY DEF TypeOK, Ends, Goto, OthersStay, Stays, Hop

LEMMA LoopRoute ==
  ASSUME IInv, NEW w \in Workers, Loop(w)
  PROVE  Route(w) /\ OthersStay(w)
<1>1. TypeOK
  BY DEF IInv
<1>2. CASE Claim(w)
  BY <1>1, <1>2 DEF TypeOK, Claim, Goto, OthersStay, Stays, Route
<1>3. CASE NothingDue(w) \/ Exits(w) \/ Sweep(w)
  BY <1>1, <1>3, GotoStays DEF NothingDue, Exits, Sweep, Local, Route, HasNone, Holding, TypeOK,
     Goto, OthersStay, Stays
<1>4. CASE Reap(w)
  <2>1. OthersStay(w)
    BY <1>1, <1>4 DEF TypeOK, Reap, Goto, OthersStay, Stays
  <2> QED
    BY <1>4, <2>1, ReapEffect DEF Route
<1>5. CASE Bury(w)
  BY <1>1, <1>5 DEF TypeOK, Bury, Goto, Forgets, NextReap, OthersStay, Stays, Route, HasNone, Holding
<1>6. CASE GateRead(w)
  <2>1. /\ OthersStay(w) /\ run'[w] = run[w] /\ pc[w] = "gateRead"
        /\ pc'[w] = IF RunningRivals(run[w].job) # {} THEN "gateDefer"
                    ELSE IF run[w].job \in Waits THEN "waitRead" ELSE "work"
    BY <1>1, <1>6, GotoStays DEF GateRead, Local
  <2>2. GateRoute(w)
    BY <2>1 DEF GateRoute, Hop
  <2> QED
    BY <2>1, <2>2 DEF Route
<1>7. CASE WaitRead(w)
  <2>1. /\ OthersStay(w) /\ run'[w] = run[w] /\ pc[w] = "waitRead"
        /\ pc'[w] \in {"gateDefer", "work"}
    BY <1>1, <1>7, GotoStays DEF WaitRead, Local
  <2>2. GateRoute(w)
    BY <2>1 DEF GateRoute, Hop
  <2> QED
    BY <2>1, <2>2 DEF Route
<1>8. CASE GateDefer(w) \/ FinCancel(w) \/ After(w)
  BY <1>1, <1>8, LeavesStays DEF GateDefer, FinCancel, After, Route
<1>9. CASE Succeeds(w) \/ Fails(w) \/ Raises(w) \/ SeesCancel(w)
  <2>1. PICK k \in Kinds : /\ \E b \in BOOLEAN : Ends(w, k, b, "finRead")
                           /\ k = "cancelled" => doc[run[w].job].status = "cancelled"
    BY <1>9 DEF Succeeds, Fails, Raises, SeesCancel, Kinds
  <2>2. GateRoute(w) /\ OthersStay(w)
    BY <1>1, <2>1, EndsStays DEF GateRoute
  <2> QED
    BY <2>2 DEF Route
<1>10. CASE Interrupted(w)
  <2>1. GateRoute(w) /\ OthersStay(w)
    BY <1>1, <1>10, EndsStays DEF GateRoute, Interrupted
  <2> QED
    BY <2>1 DEF Route
<1>11. CASE ShutRead(w)
  <2>1. /\ OthersStay(w) /\ run'[w] = run[w] /\ pc[w] = "shutRead" /\ CallStays(w) /\ UNCHANGED doc
        /\ pc'[w] = IF Owns(w) /\ doc[run[w].job].status # "cancelled"
                    THEN "shutWrite" ELSE "finRead"
    BY <1>1, <1>11, GotoStays DEF ShutRead, Local
  <2>2. EndRoute(w)
    BY <2>1 DEF EndRoute, Hop
  <2> QED
    BY <2>1, <2>2 DEF Route
<1>12. CASE ShutWrite(w)
  <2>1. OthersStay(w) /\ pc[w] = "shutWrite"
    BY <1>1, <1>12, LeavesStays, EscapesStays DEF ShutWrite
  <2>2. HasNone(w) \/ (Hop(w, "shutWrite", "finRead") /\ call'[w] = Rescue)
    BY <1>1, <1>12, LeavesStays, EscapesStays DEF ShutWrite, Hop
  <2> QED
    BY <2>1, <2>2 DEF Route, EndRoute
<1>13. CASE FinRead(w)
  <2>1. CASE Leaves(w)
    BY <1>1, <2>1, LeavesStays DEF Route
  <2>2. CASE /\ doc[run[w].job].status # "cancelled" /\ call[w].kind = "cancelled"
             /\ Goto(w, "finCancel") /\ UNCHANGED <<run, call>>
    <3>1. OthersStay(w) /\ Hop(w, "finRead", "finCancel")
      BY <1>1, <1>13, <2>2, GotoStays DEF FinRead, Hop
    <3> QED
      BY <2>2, <3>1 DEF Route, EndRoute
  <2>3. CASE /\ call[w].kind # "cancelled"
             /\ Goto(w, "finWrite") /\ UNCHANGED <<run, call>>
    <3>1. OthersStay(w) /\ Hop(w, "finRead", "finWrite") /\ CallStays(w)
      BY <1>1, <1>13, <2>3, GotoStays DEF FinRead, Hop
    <3> QED
      BY <2>3, <3>1 DEF Route, EndRoute
  <2> QED
    BY <1>13, <2>1, <2>2, <2>3 DEF FinRead
<1>14. CASE FinWrite(w)
  <2>1. CASE Escapes(w)
    <3>1. OthersStay(w) /\ (HasNone(w) \/ (Hop(w, "finWrite", "finRead") /\ call'[w] = Rescue))
      BY <1>1, <1>14, <2>1, EscapesStays DEF FinWrite, Hop
    <3> QED
      BY <3>1 DEF Route, EndRoute
  <2>2. CASE FinUpdate(w) /\ Goto(w, "after") /\ UNCHANGED <<run, call>>
    <3>1. OthersStay(w) /\ Hop(w, "finWrite", "after") /\ CallStays(w)
      BY <1>1, <1>14, <2>2, GotoStays DEF FinWrite, Hop
    <3> QED
      BY <2>2, <3>1 DEF Route, EndRoute
  <2> QED
    BY <1>14, <2>1, <2>2 DEF FinWrite
<1> QED
  BY <1>2, <1>3, <1>4, <1>5, <1>6, <1>7, <1>8, <1>9, <1>10, <1>11, <1>12, <1>13, <1>14 DEF Loop

LEMMA DisturbRoute ==
  ASSUME IInv, NEW w \in Workers, Beat(w) \/ Restart(w) \/ Disturb(w)
  PROVE  Route(w) /\ OthersStay(w)
<1>1. TypeOK
  BY DEF IInv
<1>2. CASE Beat(w) \/ Stop(w)
  BY <1>2 DEF Beat, Stop, Local, Route, Stays, OthersStay
<1>3. CASE Restart(w)
  BY <1>1, <1>3, GotoStays DEF Restart, Local, Route, HasNone, Holding
<1>4. CASE Crash(w)
  BY <1>1, <1>4 DEF TypeOK, Crash, Goto, Forgets, OthersStay, Stays, Route, HasNone, Holding
<1>5. CASE MongoFails(w)
  <2>1. /\ OthersStay(w) /\ Spend("mongo")
        /\ pc[w] \in {"finRead", "finCancel", "finWrite", "after"}
        /\ HasNone(w) \/ (pc'[w] = "finRead" /\ run'[w] = run[w] /\ call'[w] = Rescue)
    BY <1>1, <1>5, EscapesStays DEF MongoFails
  <2>2. HasNone(w) \/ EndRoute(w)
    BY <2>1 DEF EndRoute, Hop
  <2> QED
    BY <2>1, <2>2 DEF Route
<1> QED
  BY <1>2, <1>3, <1>4, <1>5 DEF Disturb

LEMMA JobRoute ==
  ASSUME NEW j \in Jobs, Estimator(j) \/ Clock(j)
  PROVE  \A w \in Workers : Stays(w)
  BY DEF Estimator, Enqueue, Extend, Retry, CancelRead, CancelWrite, Supersede, CancelActive,
     Clock, ComesDue, GoesStale, Local, Stays

\* Whatever happens, each worker takes one of these ways.
LEMMA Routes ==
  ASSUME IInv, Next
  PROVE  \A w \in Workers : Route(w)
<1>1. ASSUME NEW w \in Workers, Route(w), OthersStay(w) PROVE \A v \in Workers : Route(v)
  BY <1>1 DEF OthersStay, Route
<1>2. ASSUME NEW w \in Workers, Loop(w) \/ Beat(w) \/ Restart(w) \/ Disturb(w)
      PROVE  \A v \in Workers : Route(v)
  BY <1>1, <1>2, LoopRoute, DisturbRoute
<1>3. ASSUME NEW j \in Jobs, Estimator(j) \/ Clock(j) PROVE \A v \in Workers : Route(v)
  BY <1>3, JobRoute DEF Route
<1> QED
  BY <1>2, <1>3 DEF Next

-----------------------------------------------------------------------------
(* The documents: what a step may do to a job, and to which.               *)

\* Nothing happens to a job but a heartbeat or a cancel.
Keeps(j) == /\ doc'[j].worker = doc[j].worker
            /\ doc'[j].gen = doc[j].gen
            /\ doc'[j].status \in {doc[j].status, "cancelled"}
            /\ doc'[j].beat \in {doc[j].beat, "fresh"}

Quiet   == \A k \in Jobs : Keeps(k)
Only(j) == \A k \in Jobs \ {j} : Keeps(k)

\* A job nobody runs, a job nobody attends, a job on a reaper's list, and a job
\* whose owner ends its session.
ChangesQueued == \E j \in Jobs : doc[j].status = "queued" /\ Only(j)
ChangesIdle ==
  \E j \in Jobs : /\ doc[j].status = "queued" \/ Enqueue(j) \/ Retry(j)
                  /\ Only(j)
ChangesLost == \E j \in Jobs : GoesStale(j) /\ Only(j)
ChangesSwept ==
  \E w \in Workers : \E r \in todo[w] :
    /\ r.job \in Jobs /\ doc[r.job].status = "running" /\ doc[r.job].gen = r.gen
    /\ Only(r.job)
ChangesOwn ==
  \E w \in Workers :
    /\ pc[w] \in {"gateDefer", "shutWrite", "finWrite"} /\ pc'[w] \in {"idle", "after"}
    /\ Owns(w) /\ Only(run[w].job)

\* What a worker does to the jobs; what anybody does.
Works   == Quiet \/ ChangesQueued \/ ChangesSwept \/ ChangesOwn
Changes == Quiet \/ ChangesIdle \/ ChangesLost \/ ChangesSwept \/ ChangesOwn

LEMMA PutOnly ==
  ASSUME TypeOK, NEW j \in Jobs, NEW d, Put(j, d)
  PROVE  Only(j) /\ doc'[j] = d
  BY DEF TypeOK, Put, Only, Keeps

LEMMA SameQuiet == UNCHANGED doc => Quiet
  BY DEF Quiet, Keeps

LEMMA LoopChanges ==
  ASSUME IInv, NEW w \in Workers, pc[w] # "finCancel", Loop(w)
  PROVE  Works
<1> USE DEF Works
<1>1. TypeOK
  BY DEF IInv
<1>2. CASE UNCHANGED doc
  BY <1>2, SameQuiet
<1>3. CASE Claim(w)
  <2>1. PICK j \in Jobs : doc[j].status = "queued" /\ Put(j, Claimed(w, j))
    BY <1>3, QueueAssumption DEF Claim, Candidates
  <2> QED
    BY <1>1, <2>1, PutOnly DEF ChangesQueued
<1>4. CASE Reap(w)
  <2> DEFINE q(r) == [Returned(doc[r.job], doc[r.job].attempts, TRUE) EXCEPT !.gen = @ + 1]
             b(r) == [doc[r.job] EXCEPT !.status = "dead", !.beat = "none",
                                        !.worker = NoWorker, !.gen = @ + 1]
  <2>1. UNCHANGED doc \/ \E r \in todo[w] : /\ doc[r.job].status = "running"
                                            /\ doc[r.job].gen = r.gen
                                            /\ Put(r.job, q(r)) \/ Put(r.job, b(r))
    BY <1>4 DEF Reap
  <2>2. \A r \in todo[w] : r.job \in Jobs
    BY <1>1 DEF TypeOK
  <2> HIDE DEF q, b
  <2> QED
    BY <1>1, <1>2, <2>1, <2>2, PutOnly DEF ChangesSwept
<1>5. ASSUME Owns(w), NEW d, Put(run[w].job, d),
             pc[w] \in {"gateDefer", "shutWrite", "finWrite"}, pc'[w] \in {"idle", "after"}
      PROVE  ChangesOwn
  <2>1. run[w].job \in Jobs
    BY <1>1, <1>5 DEF TypeOK, InHand, Holding
  <2> QED
    BY <1>1, <1>5, <2>1, PutOnly DEF ChangesOwn
<1>6. CASE GateDefer(w)
  <2>1. pc[w] = "gateDefer" /\ pc'[w] = "idle"
    BY <1>1, <1>6, LeavesAlters DEF GateDefer
  <2> QED
    BY <1>2, <1>5, <1>6, <2>1 DEF GateDefer, HoldsLease
<1>7. CASE ShutWrite(w)
  <2>1. ~UNCHANGED doc => /\ pc[w] = "shutWrite" /\ pc'[w] = "idle" /\ Owns(w)
                          /\ \E d : Put(run[w].job, d)
    BY <1>1, <1>7, LeavesAlters DEF ShutWrite
  <2> QED
    BY <1>2, <1>5, <2>1
<1>8. CASE FinWrite(w)
  <2>1. ~UNCHANGED doc => /\ pc[w] = "finWrite" /\ pc'[w] = "after" /\ Owns(w)
                          /\ \E d : Put(run[w].job, d)
    BY <1>1, <1>8, GotoAlters DEF FinWrite, FinUpdate
  <2> QED
    BY <1>2, <1>5, <2>1
<1>9. CASE \/ NothingDue(w) \/ Exits(w) \/ Sweep(w) \/ Bury(w) \/ GateRead(w) \/ WaitRead(w)
           \/ ShutRead(w) \/ FinRead(w) \/ After(w)
  BY <1>2, <1>9 DEF NothingDue, Exits, Sweep, Bury, GateRead, WaitRead, ShutRead, FinRead, After
<1>10. CASE Succeeds(w) \/ Fails(w) \/ Raises(w) \/ SeesCancel(w) \/ Interrupted(w)
  BY <1>2, <1>10 DEF Succeeds, Fails, Raises, SeesCancel, Interrupted, Ends
<1> QED
  BY <1>3, <1>4, <1>6, <1>7, <1>8, <1>9, <1>10 DEF Loop, FinCancel

LEMMA DisturbChanges ==
  ASSUME IInv, NEW w \in Workers, Beat(w) \/ Restart(w) \/ Disturb(w)
  PROVE  Quiet
<1>1. CASE Beat(w)
  <2>1. TypeOK /\ run[w].job \in Jobs /\ doc[run[w].job] \in JobDoc
    BY <1>1 DEF IInv, TypeOK, InHand, Beat, Holding
  <2>2. /\ Only(run[w].job)
        /\ doc'[run[w].job] = [doc[run[w].job] EXCEPT !.beat = "fresh"]
    BY <1>1, <2>1, PutOnly DEF Beat
  <2>3. Keeps(run[w].job)
    BY <2>1, <2>2 DEF JobDoc, Keeps
  <2> QED
    BY <2>1, <2>2, <2>3 DEF Only, Quiet
<1>2. CASE Restart(w) \/ Disturb(w)
  BY <1>2, SameQuiet DEF Restart, Disturb, Crash, Stop, MongoFails
<1> QED
  BY <1>1, <1>2

LEMMA CancelQuiet ==
  ASSUME TypeOK, NEW j \in Jobs, Put(j, [doc[j] EXCEPT !.status = "cancelled"])
  PROVE  Quiet
<1>1. doc[j] \in JobDoc
  BY DEF TypeOK
<1>2. Only(j) /\ doc'[j] = [doc[j] EXCEPT !.status = "cancelled"]
  BY PutOnly
<1>3. Keeps(j)
  BY <1>1, <1>2 DEF JobDoc, Keeps
<1> QED
  BY <1>2, <1>3 DEF Only, Quiet

LEMMA JobChanges ==
  ASSUME IInv, NEW j \in Jobs, Estimator(j) \/ Clock(j)
  PROVE  Changes
<1> USE DEF Changes
<1>1. TypeOK
  BY DEF IInv
<1>2. CASE Enqueue(j) \/ Extend(j) \/ Retry(j) \/ ComesDue(j)
  <2>1. /\ doc[j].status = "queued" \/ Enqueue(j) \/ Retry(j)
        /\ \E d : Put(j, d)
    BY <1>2 DEF Enqueue, Extend, Retry, ComesDue
  <2> QED
    BY <1>1, <2>1, PutOnly DEF ChangesIdle
<1>3. CASE CancelRead(j)
  BY <1>3, SameQuiet DEF CancelRead
<1>4. CASE CancelWrite(j) \/ Supersede(j) \/ CancelActive(j)
  BY <1>1, <1>4, CancelQuiet DEF CancelWrite, Supersede, CancelActive
<1>5. CASE GoesStale(j)
  <2>1. \E d : Put(j, d)
    BY <1>5 DEF GoesStale
  <2> QED
    BY <1>1, <1>5, <2>1, PutOnly DEF ChangesLost
<1> QED
  BY <1>2, <1>3, <1>4, <1>5 DEF Estimator, Clock

LEMMA StepChanges ==
  ASSUME IInv, Heeded, Next
  PROVE  Changes
  BY LoopChanges, DisturbChanges, JobChanges DEF Next, Heeded, Changes, Works, ChangesQueued,
     ChangesIdle

\* The lists of the reapers: a sweep adds to them, nothing else does.
LEMMA StepSweeps ==
  ASSUME IInv, Next
  PROVE  SweepsKept \/ \E w \in Workers : Sweep(w)
<1>1. TypeOK
  BY DEF IInv
<1>2. ASSUME NEW w \in Workers, Loop(w), ~Sweep(w) PROVE SweepsKept
  <2>1. CASE Reap(w)
    BY <1>1, <2>1 DEF TypeOK, Reap, SweepsKept
  <2>2. CASE UNCHANGED todo
    BY <2>2 DEF SweepsKept
  <2> QED
    BY <1>2, <2>1, <2>2 DEF Loop, Claim, NothingDue, Exits, Bury, GateRead, WaitRead, GateDefer,
       Succeeds, Fails, Raises, SeesCancel, Interrupted, Ends, ShutRead, ShutWrite, FinRead,
       FinCancel, FinWrite, After, Local
<1>3. ASSUME NEW w \in Workers, Beat(w) \/ Restart(w) \/ Disturb(w) PROVE SweepsKept
  BY <1>1, <1>3 DEF TypeOK, Beat, Restart, Disturb, Crash, Stop, MongoFails, Local, SweepsKept
<1>4. ASSUME NEW j \in Jobs, Estimator(j) \/ Clock(j) PROVE SweepsKept
  BY <1>4 DEF Estimator, Enqueue, Extend, Retry, CancelRead, CancelWrite, Supersede,
     CancelActive, Clock, ComesDue, GoesStale, Local, SweepsKept
<1> QED
  BY <1>2, <1>3, <1>4 DEF Next

-----------------------------------------------------------------------------
(* While no heartbeat is lost, the workers keep the jobs they attend.      *)

\* Nobody arrives at these points but by a claim, or from one of them.
Entered(points) ==
  \A w \in Workers :
    pc'[w] \in points => Claim(w) \/ (pc[w] \in points /\ run'[w] = run[w])

LEMMA PointsEntered ==
  ASSUME IInv, Next, NEW P \in {Ahead, Acting}, P = Ahead \/ ~Spend("mongo")
  PROVE  Entered(P)
<1> SUFFICES ASSUME NEW w \in Workers, pc'[w] \in P
             PROVE  Claim(w) \/ (pc[w] \in P /\ run'[w] = run[w])
  BY DEF Entered
<1> USE DEF Ahead, Acting, Holding
<1>1. Route(w)
  BY Routes
<1>2. CASE GateRoute(w)
  BY <1>2 DEF GateRoute, Hop
<1>3. CASE EndRoute(w)
  BY <1>3 DEF EndRoute, Hop
<1> QED
  BY <1>1, <1>2, <1>3 DEF Route, Stays, HasNone

\* What its worker attends, no step takes from it but its worker's own.
LEMMA AttendedKeeps ==
  ASSUME IInv, Changes, NEW P, P \subseteq Holding, Attentive(P), Unswept(P), ~Spend("stall"),
         NEW w \in Workers, pc[w] \in P, pc'[w] \in P, {"idle", "after"} \cap P = {}
  PROVE  Keeps(run[w].job)
<1> DEFINE j == run[w].job
<1>1. j \in Jobs /\ Attends(w)
  BY DEF IInv, TypeOK, InHand, Attentive
<1>2. CASE Quiet
  BY <1>1, <1>2 DEF Quiet
<1>3. CASE ChangesIdle
  BY <1>1, <1>3 DEF ChangesIdle, Enqueue, Retry, Only, Attends
<1>4. CASE ChangesLost
  <2>1. PICK k \in Jobs : GoesStale(k) /\ Only(k)
    BY <1>4 DEF ChangesLost
  <2>2. k # j
    BY <1>1, <2>1 DEF GoesStale, Attended, Attends
  <2> QED
    BY <1>1, <2>1, <2>2 DEF Only
<1>5. CASE ChangesSwept
  <2>0. PICK v \in Workers : \E r \in todo[v] : doc[r.job].gen = r.gen /\ Only(r.job)
    BY <1>5 DEF ChangesSwept
  <2>1. PICK r \in todo[v] : doc[r.job].gen = r.gen /\ Only(r.job)
    BY <2>0
  <2>2. r.job # j
    BY <1>1, <2>1 DEF Unswept, Attends, Owns
  <2> QED
    BY <1>1, <2>1, <2>2 DEF Only
<1>6. CASE ChangesOwn
  <2>1. PICK v \in Workers : pc'[v] \in {"idle", "after"} /\ Owns(v) /\ Only(run[v].job)
    BY <1>6 DEF ChangesOwn
  <2>2. run[v].job # j
    BY <1>1, <2>1 DEF Attends, Owns
  <2> QED
    BY <1>1, <2>1, <2>2 DEF Only
<1> QED
  BY <1>2, <1>3, <1>4, <1>5, <1>6 DEF Changes

LEMMA ClaimAttends ==
  ASSUME IInv, NEW w \in Workers, Claim(w)
  PROVE  Attends(w)'
<1>1. PICK j \in Candidates(w) :
        /\ Put(j, Claimed(w, j))
        /\ run' = [run EXCEPT ![w] = [job |-> j, gen |-> Claimed(w, j).gen,
                                      attempts |-> Claimed(w, j).attempts]]
  BY DEF Claim
<1>2. j \in Jobs /\ TypeOK /\ doc[j] \in JobDoc
  BY QueueAssumption DEF Candidates, IInv, TypeOK
<1> DEFINE d == Claimed(w, j)
<1>3. d.status = "running" /\ d.worker = w /\ d.beat = "fresh"
  BY <1>2 DEF Claimed, JobDoc
<1>4. Put(j, d) /\ run' = [run EXCEPT ![w] = [job |-> j, gen |-> d.gen,
                                              attempts |-> d.attempts]]
  BY <1>1
<1> HIDE DEF d
<1>5. doc'[j] = d /\ run'[w].job = j /\ run'[w].gen = d.gen
  BY <1>2, <1>4, PutOnly DEF TypeOK
<1> QED
  BY <1>3, <1>5 DEF Attends, Owns

LEMMA AttentiveStep ==
  ASSUME IInv, Heeded, Next, NEW P \in {Ahead, Acting}, P = Ahead \/ ~Spend("mongo"),
         Attentive(P), Unswept(P), ~Spend("stall")
  PROVE  Attentive(P)'
<1> SUFFICES ASSUME NEW w \in Workers, pc'[w] \in P PROVE Attends(w)'
  BY DEF Attentive
<1>1. P \subseteq Holding /\ {"idle", "after"} \cap P = {}
  BY DEF Ahead, Acting, Holding
<1>2. CASE Claim(w)
  BY <1>2, ClaimAttends
<1>3. CASE pc[w] \in P /\ run'[w] = run[w]
  <2>1. Attends(w)
    BY <1>3 DEF Attentive
  <2>2. Keeps(run[w].job)
    BY <1>1, <1>3, AttendedKeeps, StepChanges
  <2> QED
    BY <1>3, <2>1, <2>2 DEF Attends, Owns, Keeps
<1> QED
  BY <1>2, <1>3, PointsEntered DEF Entered

LEMMA UnsweptStep ==
  ASSUME IInv, Next, NEW P \in {Ahead, Acting}, P = Ahead \/ ~Spend("mongo"),
         Attentive(P), Unswept(P)
  PROVE  Unswept(P)'
<1> SUFFICES ASSUME NEW v \in Workers, NEW w \in Workers, pc'[w] \in P, NEW r \in todo'[v],
                    r.job = run'[w].job
             PROVE  r.gen # run'[w].gen
  BY DEF Unswept
<1>1. TypeOK /\ TypeOK'
  BY TypeStep DEF IInv
<1>2. CASE Claim(w)
  <2>1. PICK j \in Jobs : run'[w].job = j /\ run'[w].gen = doc[j].gen + 1
    BY <1>2, ClaimEffect
  <2>2. r \in todo[v]
    BY <1>2 DEF Claim
  <2>3. r.gen <= doc[j].gen /\ r.gen \in Nat /\ doc[j].gen \in Nat
    BY <1>1, <2>1, <2>2 DEF IInv, SweepsBehind, TypeOK, JobDoc
  <2> QED
    BY <2>1, <2>3
<1>3. CASE pc[w] \in P /\ run'[w] = run[w]
  <2>1. CASE r \in todo[v]
    BY <1>3, <2>1 DEF Unswept
  <2>2. CASE r \notin todo[v]
    <3>1. PICK u \in Workers : Sweep(u)
      BY <2>2, StepSweeps DEF SweepsKept
    <3>2. u = v
      BY <1>1, <2>2, <3>1 DEF Sweep, TypeOK
    <3>3. PICK k \in Abandoned : r = [job |-> k, gen |-> doc[k].gen, attempts |-> doc[k].attempts]
      BY <1>1, <3>1, <3>2 DEF Sweep, TypeOK
    <3>4. k = run[w].job
      BY <1>3, <3>3
    <3>5. Attends(w)
      BY <1>3 DEF Attentive
    <3> QED
      BY <3>3, <3>4, <3>5 DEF Abandoned, Attends
  <2> QED
    BY <2>1, <2>2
<1> QED
  BY <1>2, <1>3, PointsEntered DEF Entered

LEMMA HeededStep ==
  ASSUME IInv, Heeded, Next, Attentive(Ahead)
  PROVE  Heeded'
<1> SUFFICES ASSUME NEW w \in Workers
             PROVE  /\ pc'[w] # "finCancel"
                    /\ pc'[w] \in {"finWrite", "after"} => call'[w].kind # "cancelled"
                    /\ (pc'[w] = "finRead" /\ call'[w].kind = "cancelled")
                         => Owns(w)' /\ doc'[run'[w].job].status = "cancelled"
  BY DEF Heeded
<1>1. /\ pc[w] # "finCancel"
      /\ pc[w] \in {"finWrite", "after"} => call[w].kind # "cancelled"
      /\ (pc[w] = "finRead" /\ call[w].kind = "cancelled")
           => Owns(w) /\ doc[run[w].job].status = "cancelled"
  BY DEF Heeded
<1>2. Route(w) /\ Rescue.kind = "fail"
  BY Routes DEF Rescue
<1>3. CASE Stays(w)
  <2>1. ASSUME pc[w] = "finRead", Owns(w), doc[run[w].job].status = "cancelled"
        PROVE  Keeps(run[w].job)
    <3>1. run[w].job \in Jobs
      BY <2>1 DEF IInv, TypeOK, InHand, Holding
    <3>2. CASE Quiet \/ ChangesIdle \/ ChangesLost \/ ChangesSwept
      BY <2>1, <3>1, <3>2 DEF Quiet, ChangesIdle, Enqueue, Retry, ChangesLost, ChangesSwept,
         GoesStale, Only
    <3>3. CASE ChangesOwn
      <4>1. PICK v \in Workers : /\ pc[v] \in {"gateDefer", "shutWrite", "finWrite"}
                                 /\ Owns(v) /\ Only(run[v].job)
        BY <3>3 DEF ChangesOwn
      <4>2. run[v].job # run[w].job
        BY <2>1, <4>1 DEF Owns
      <4> QED
        BY <3>1, <4>1, <4>2 DEF Only
    <3> QED
      BY <3>2, <3>3, StepChanges DEF Changes
  <2> QED
    BY <1>1, <1>3, <2>1 DEF Stays, Keeps, Owns
<1>4. CASE HasNone(w)
  BY <1>4 DEF HasNone, Holding
<1>5. CASE Claim(w)
  BY <1>5, ClaimEffect DEF Running
<1>6. CASE GateRoute(w)
  <2>1. CASE pc'[w] = "finRead"
    <3>1. /\ pc[w] = "work" /\ run'[w] = run[w] /\ UNCHANGED doc
          /\ call'[w].kind = "cancelled" => doc[run[w].job].status = "cancelled"
      BY <1>6, <2>1 DEF GateRoute, Hop
    <3>2. Owns(w)
      BY <3>1 DEF Attentive, Ahead, Attends
    <3> QED
      BY <2>1, <3>1, <3>2 DEF Owns
  <2>2. CASE pc'[w] # "finRead"
    BY <1>6, <2>2 DEF GateRoute, Hop
  <2> QED
    BY <2>1, <2>2
<1>7. CASE EndRoute(w)
  <2>1. CASE pc[w] = "shutRead" /\ pc'[w] = "finRead"
    <3>1. /\ run'[w] = run[w] /\ UNCHANGED doc
          /\ Owns(w) => doc[run[w].job].status = "cancelled"
      BY <1>7, <2>1 DEF EndRoute, Hop
    <3>2. Owns(w)
      BY <2>1 DEF Attentive, Ahead, Attends
    <3> QED
      BY <2>1, <3>1, <3>2 DEF Owns
  <2>2. CASE ~(pc[w] = "shutRead" /\ pc'[w] = "finRead")
    BY <1>1, <1>2, <1>7, <2>2 DEF EndRoute, Hop, CallStays
  <2> QED
    BY <2>1, <2>2
<1> QED
  BY <1>2, <1>3, <1>4, <1>5, <1>6, <1>7 DEF Route

-----------------------------------------------------------------------------
(* Without a cancel either, a job that is attended is running.             *)

\* The statuses a job may be given but by a cancel.
Written(k) == doc'[k].status \in {doc[k].status, "queued", "running", "done", "dead"}

LEMMA BecomesWritten ==
  ASSUME NEW j \in Jobs, NEW s \in {"queued", "running", "done", "dead"}, NEW v, NEW g,
         Becomes(j, s, v, g)
  PROVE  \A k \in Jobs : Written(k)
  BY DEF Becomes, Still, Written

LEMMA StillWritten ==
  ASSUME AllStill
  PROVE  \A k \in Jobs : Written(k)
  BY DEF AllStill, Still, Written

LEMMA WorkerWrites ==
  ASSUME IInv, NEW w \in Workers, pc[w] # "finCancel",
         Loop(w) \/ Beat(w) \/ Restart(w) \/ Disturb(w)
  PROVE  (\A k \in Jobs : Written(k)) /\ UNCHANGED cancelling
<1>1. TypeOK
  BY DEF IInv
<1>2. UNCHANGED cancelling
  BY DEF Loop, Claim, NothingDue, Exits, Sweep, Reap, Bury, GateRead, WaitRead, GateDefer,
     Succeeds, Fails, Raises, SeesCancel, Interrupted, Ends, ShutRead, ShutWrite, FinRead,
     FinCancel, FinWrite, After, Beat, Restart, Disturb, Crash, Stop, MongoFails, Bid
<1>3. CASE Claim(w) \/ Reap(w) \/ Move(w)
  BY <1>2, <1>3, ClaimEffect, ReapEffect, MoveEffect, BecomesWritten, StillWritten
<1>4. CASE GateDefer(w) \/ FinWrite(w)
  <2>1. run[w].job \in Jobs
    BY <1>1, <1>4 DEF TypeOK, InHand, GateDefer, FinWrite, Holding
  <2>2. EndStatus(w) \in {"queued", "done", "dead"}
    BY EndStatusType
  <2> QED
    BY <1>2, <1>4, <2>1, <2>2, DeferEffect, FinishEffect, BecomesWritten, StillWritten
<1>5. CASE ShutWrite(w)
  <2> DEFINE j == run[w].job
             d == Returned(doc[j], doc[j].attempts - 1, TRUE)
  <2>1. j \in Jobs /\ doc[j] \in JobDoc /\ doc[j].attempts - 1 \in Int
    BY <1>1, <1>5 DEF TypeOK, InHand, ShutWrite, Holding, JobDoc
  <2>2. d.status = "queued"
    BY <2>1, ReturnedFields
  <2>3. UNCHANGED doc \/ Put(j, d)
    BY <1>5 DEF ShutWrite
  <2> HIDE DEF d, j
  <2>4. CASE Put(j, d)
    BY <1>1, <1>2, <2>1, <2>2, <2>4, PutBecomes, BecomesWritten
  <2>5. CASE UNCHANGED doc
    BY <1>2, <2>5 DEF Written
  <2> QED
    BY <2>3, <2>4, <2>5
<1>6. CASE Exits(w) \/ Stop(w) \/ SeesCancel(w) \/ Interrupted(w) \/ ShutRead(w)
  BY <1>2, <1>6 DEF Exits, Stop, SeesCancel, Interrupted, ShutRead, Ends, Written
<1> QED
  BY <1>3, <1>4, <1>5, <1>6 DEF Loop, Disturb, Move, FinCancel

LEMMA JobWrites ==
  ASSUME IInv, NEW j \in Jobs,
         Enqueue(j) \/ Extend(j) \/ Retry(j) \/ Clock(j) \/ CancelRead(j)
  PROVE  \A k \in Jobs : Written(k)
<1>1. TypeOK
  BY DEF IInv
<1>2. CASE CancelRead(j)
  BY <1>2 DEF CancelRead, Written
<1> QED
  BY <1>1, <1>2, OpenEffect, ClockEffect, BecomesWritten, StillWritten

LEMMA UncancelledStep ==
  ASSUME IInv, Heeded, Uncancelled, ~Spend("cancel"), Next
  PROVE  Uncancelled'
<1>1. ASSUME NEW w \in Workers, Loop(w) \/ Beat(w) \/ Restart(w) \/ Disturb(w)
      PROVE  Uncancelled'
  BY <1>1, WorkerWrites DEF Heeded, Uncancelled, Written
<1>2. ASSUME NEW j \in Jobs, Estimator(j) \/ Clock(j) PROVE Uncancelled'
  <2>1. /\ Enqueue(j) \/ Extend(j) \/ Retry(j) \/ Clock(j)
        /\ UNCHANGED cancelling
    BY <1>2 DEF Estimator, CancelRead, CancelWrite, Supersede, CancelActive, Uncancelled,
       Enqueue, Extend, Retry, Clock, ComesDue, GoesStale, Bid
  <2> QED
    BY <2>1, JobWrites DEF Uncancelled, Written
<1> QED
  BY <1>1, <1>2 DEF Next

\* The gate: a session that passes finds no rival running, and those that have
\* passed are running.
LEMMA ApartStep ==
  ASSUME IInv, Apart, Uncancelled, Attentive(Ahead), Next
  PROVE  Apart'
<1> DEFINE Past(w) == pc[w] \in {"waitRead", "work"}
           Same(w) == Past(w) /\ run'[w] = run[w]
           Passes(w) == /\ pc[w] = "gateRead" /\ run'[w] = run[w]
                        /\ RunningRivals(run[w].job) = {}
           Free(w) == run'[w].job \notin Exclusive
<1>1. ASSUME NEW w \in Workers, pc'[w] \in {"waitRead", "work"}
      PROVE  Same(w) \/ Passes(w) \/ Free(w)
  <2>1. Route(w)
    BY Routes
  <2>2. CASE Claim(w)
    <3>1. PICK j \in Candidates(w) :
            /\ run' = [run EXCEPT ![w] = [job |-> j, gen |-> Claimed(w, j).gen,
                                          attempts |-> Claimed(w, j).attempts]]
            /\ Goto(w, IF j \in Exclusive THEN "gateRead" ELSE "work")
      BY <2>2 DEF Claim
    <3>2. run'[w].job = j /\ (j \in Exclusive => pc'[w] = "gateRead")
      BY <3>1 DEF IInv, TypeOK, Goto
    <3> QED
      BY <1>1, <3>2
  <2>3. CASE GateRoute(w)
    BY <1>1, <2>3 DEF GateRoute, Hop
  <2>4. CASE EndRoute(w)
    BY <1>1, <2>4 DEF EndRoute, Hop
  <2> QED
    BY <1>1, <2>1, <2>2, <2>3, <2>4 DEF Route, Stays, HasNone, Holding
\* Past the gate or at it, one's job is running.
<1>2. ASSUME NEW w \in Workers, pc[w] \in Ahead
      PROVE  run[w].job \in Jobs /\ doc[run[w].job].status = "running"
  BY <1>2 DEF IInv, TypeOK, InHand, Ahead, Holding, Attentive, Attends, Uncancelled
<1> SUFFICES ASSUME NEW v \in Workers, NEW w \in Workers, v # w,
                    pc'[v] \in {"waitRead", "work"}, pc'[w] \in {"waitRead", "work"},
                    run'[w].job \in Rivals(run'[v].job)
             PROVE  FALSE
  BY DEF Apart, Rivals
<1>3. /\ run'[w].job \in Exclusive /\ run'[v].job \in Exclusive
      /\ run'[v].job \in Rivals(run'[w].job)
  BY DEF Rivals
<1>4. (Same(v) \/ Passes(v)) /\ (Same(w) \/ Passes(w))
  BY <1>1, <1>3
<1>5. CASE Passes(w)
  BY <1>2, <1>3, <1>4, <1>5 DEF RunningRivals, Ahead, Rivals
<1>6. CASE Passes(v)
  BY <1>2, <1>3, <1>4, <1>6 DEF RunningRivals, Ahead, Rivals
<1>7. CASE Same(v) /\ Same(w)
  BY <1>7 DEF Apart
<1> QED
  BY <1>4, <1>5, <1>6, <1>7

\* A job that is done stays done.
LEMMA DoneStays ==
  ASSUME IInv, Heeded, Attentive(Acting), Uncancelled', Next, NEW j \in Jobs,
         doc[j].status = "done"
  PROVE  doc'[j].status = "done"
<1>1. CASE ChangesOwn
  <2>1. PICK v \in Workers : pc[v] \in Acting /\ Only(run[v].job)
    BY <1>1 DEF ChangesOwn, Acting, Ahead
  <2>2. run[v].job # j
    BY <2>1 DEF Attentive, Attends
  <2> QED
    BY <2>1, <2>2 DEF Only, Keeps, Uncancelled
<1>2. CASE ~ChangesOwn
  BY <1>2, StepChanges DEF Changes, Quiet, ChangesIdle, Enqueue, Retry, ChangesLost,
     ChangesSwept, GoesStale, Only, Keeps, Uncancelled
<1> QED
  BY <1>1, <1>2

LEMMA DoneInHandStep ==
  ASSUME IInv, Heeded, Attentive(Acting), Uncancelled', DoneInHand, Next
  PROVE  DoneInHand'
<1> SUFFICES ASSUME NEW w \in Workers, pc'[w] = "after", call'[w].kind = "ok"
             PROVE  doc'[run'[w].job].status = "done"
  BY DEF DoneInHand
<1>1. CASE Stays(w)
  <2>1. doc[run[w].job].status = "done" /\ run[w].job \in Jobs
    BY <1>1 DEF Stays, DoneInHand, IInv, TypeOK, InHand, Holding
  <2> QED
    BY <1>1, <2>1, DoneStays DEF Stays
<1>2. CASE Hop(w, "finWrite", "after") /\ CallStays(w) /\ FinUpdate(w)
  <2>1. run[w].job \in Jobs /\ doc[run[w].job] \in JobDoc /\ Owns(w)
    BY <1>2 DEF Hop, IInv, TypeOK, InHand, Holding, Attentive, Acting, Attends
  <2>2. EndStatus(w) = "done"
    BY <1>2 DEF CallStays, EndStatus
  <2> DEFINE d == [doc[run[w].job] EXCEPT !.status = EndStatus(w), !.beat = "none",
                                          !.due = ~Retryable(w)]
  <2>3. d.status = "done" /\ Put(run[w].job, d)
    BY <1>2, <2>1, <2>2 DEF FinUpdate, JobDoc
  <2> HIDE DEF d
  <2> QED
    BY <1>2, <2>1, <2>3, PutOnly DEF Hop, IInv
<1>3. CASE GateRoute(w)
  BY <1>3 DEF GateRoute, Hop
<1>4. CASE EndRoute(w)
  BY <1>2, <1>4 DEF EndRoute, Hop
<1>5. CASE Claim(w)
  BY <1>5, ClaimEffect DEF Running
<1> QED
  BY <1>1, <1>3, <1>4, <1>5, Routes DEF Route, HasNone, Holding

LEMMA ToldStep ==
  ASSUME Next
  PROVE  UNCHANGED told \/ \E w \in Workers : After(w) \/ Bury(w)
  BY DEF Next, Loop, Claim, NothingDue, Exits, Sweep, Reap, GateRead, WaitRead, GateDefer,
     Succeeds, Fails, Raises, SeesCancel, Interrupted, Ends, ShutRead, ShutWrite, FinRead,
     FinCancel, FinWrite, Beat, Restart, Disturb, Crash, Stop, MongoFails,
     Estimator, Enqueue, Extend, Retry, CancelRead, CancelWrite, Supersede, CancelActive,
     Clock, ComesDue, GoesStale, Bid

LEMMA AnnouncedStep ==
  ASSUME IInv, Heeded, Attentive(Acting), Uncancelled', DoneInHand, AnnouncedIsDone, Next
  PROVE  AnnouncedIsDone'
<1> SUFFICES ASSUME NEW e \in told', e.status = "done" PROVE doc'[e.job].status = "done"
  BY DEF AnnouncedIsDone
<1>1. TypeOK
  BY DEF IInv
<1>2. CASE e \in told
  BY <1>1, <1>2, DoneStays DEF AnnouncedIsDone, TypeOK, Ending
<1>3. CASE e \notin told
  <2>1. PICK w \in Workers : After(w) \/ Bury(w)
    BY <1>3, ToldStep
  <2>2. After(w) /\ e = [job |-> run[w].job, status |-> EndStatus(w)]
    BY <1>3, <2>1 DEF After, Bury, Announce
  <2>3. call[w].kind = "ok" /\ pc[w] = "after"
    BY <2>2 DEF After, EndStatus
  <2>4. run[w].job \in Jobs /\ doc[run[w].job].status = "done"
    BY <1>1, <2>3 DEF DoneInHand, TypeOK, InHand, Holding
  <2> QED
    BY <2>2, <2>4, DoneStays
<1> QED
  BY <1>2, <1>3

-----------------------------------------------------------------------------
(* The theorems.                                                           *)

LEMMA SInvInit == Init => SInv
<1> SUFFICES ASSUME Init PROVE SInv
  OBVIOUS
<1>1. IInv /\ Within
  BY InvInit, LInvInit DEF LInv
<1>2. \A P \in {Ahead, Acting} : Attentive(P) /\ Unswept(P)
  BY DEF Init, Attentive, Unswept, Ahead, Acting
<1>3. Heeded /\ Uncancelled /\ Apart /\ DoneInHand /\ AnnouncedIsDone
  BY DEF Init, Heeded, Uncancelled, Apart, DoneInHand, AnnouncedIsDone, NoDoc
<1> QED
  BY <1>1, <1>2, <1>3 DEF SInv

LEMMA SInvStep == SInv /\ [Next]_vars => SInv'
<1> SUFFICES ASSUME SInv, [Next]_vars PROVE SInv'
  OBVIOUS
<1>1. IInv /\ Within /\ TypeOK /\ IInv' /\ Within'
  BY InvStep, WithinStep DEF SInv, IInv
<1>2. CASE UNCHANGED vars
  <2>1. /\ \A P : (Attentive(P) => Attentive(P)') /\ (Unswept(P) => Unswept(P)')
        /\ Heeded => Heeded'
        /\ Uncancelled => Uncancelled'
        /\ Apart => Apart'
        /\ DoneInHand => DoneInHand'
        /\ AnnouncedIsDone => AnnouncedIsDone'
    BY <1>2 DEF vars, Attentive, Attends, Unswept, Owns, Heeded, Uncancelled, Apart,
       DoneInHand, AnnouncedIsDone
  <2>2. /\ Firm' <=> Firm
        /\ Whole' <=> Whole
        /\ Unspent("cancel")' <=> Unspent("cancel")
    BY <1>2 DEF vars, Firm, Whole, Unspent
  <2> QED
    BY <1>1, <2>1, <2>2 DEF SInv
<1>3. CASE Next
  <2>1. {"stall", "mongo", "cancel"} \subseteq Faults
    BY DEF Faults
  <2>2. /\ Firm' => Firm /\ ~Spend("stall")
        /\ Whole' => Whole /\ Firm' /\ ~Spend("mongo")
        /\ Unspent("cancel")' => Unspent("cancel") /\ ~Spend("cancel")
    BY <1>1, <2>1, WithinStep, NotSpent DEF Firm, Whole
  <2>3. Firm' => Attentive(Ahead)' /\ Unswept(Ahead)' /\ Heeded'
    BY <1>1, <1>3, <2>2, AttentiveStep, UnsweptStep, HeededStep DEF SInv
  <2>4. Whole' => Attentive(Acting)' /\ Unswept(Acting)'
    BY <1>1, <1>3, <2>2, AttentiveStep, UnsweptStep DEF SInv
  <2>5. (Firm' /\ Unspent("cancel")') => Uncancelled' /\ Apart'
    BY <1>1, <1>3, <2>2, UncancelledStep, ApartStep DEF SInv
  <2>6. (Whole' /\ Unspent("cancel")') => DoneInHand' /\ AnnouncedIsDone'
    BY <1>1, <1>3, <2>2, <2>5, DoneInHandStep, AnnouncedStep DEF SInv
  <2> QED
    BY <1>1, <2>3, <2>4, <2>5, <2>6 DEF SInv
<1> QED
  BY <1>2, <1>3

\* defer_if_bid_busy: as long as no live worker loses its heartbeat and nothing
\* is cancelled, two workers never work on one bid at a time - with the unique
\* index or without it, through crashes, reaps, shutdowns, MongoDB failures and
\* retries.
THEOREM OneSessionOnABid ==
  Spec => []((Firm /\ Unspent("cancel")) => OneSessionPerBid)
<1>1. SInv => ((Firm /\ Unspent("cancel")) => OneSessionPerBid)
  <2> SUFFICES ASSUME SInv, Firm, Unspent("cancel"), NEW v \in Workers, NEW w \in Workers,
                      v # w, pc[v] = "work", pc[w] = "work"
               PROVE  run[v].job # run[w].job /\ run[w].job \notin Rivals(run[v].job)
    BY DEF OneSessionPerBid
  <2>1. Owns(v) /\ Owns(w)
    BY DEF SInv, Attentive, Ahead, Attends
  <2> QED
    BY <2>1 DEF SInv, Apart, Owns
<1> QED
  BY <1>1, SInvInit, SInvStep, PTL DEF Spec

\* finish() announces a job as done only if it is done, and it stays done: as
\* long as no heartbeat is lost, no update fails and nothing is cancelled,
\* whatever crashes, reaps, shutdowns and retries there are.
THEOREM DoneAsAnnounced ==
  Spec => []((Whole /\ Unspent("cancel")) => AnnouncedIsDone)
<1>1. SInv => ((Whole /\ Unspent("cancel")) => AnnouncedIsDone)
  BY DEF SInv
<1> QED
  BY <1>1, SInvInit, SInvStep, PTL DEF Spec
=============================================================================
