------------------------------ MODULE CostCaps ------------------------------
(***************************************************************************)
(* The spend caps of the workers.  A worker with a cap for the day or for  *)
(* a bid looks at the queued jobs one at a time, the oldest first, sums    *)
(* what runMetrics says was spent in 24 hours, and passes over a job whose *)
(* cap is reached.  After a pass its metrics go to runMetrics, one         *)
(* document for each attempt of a job.                                     *)
(*                                                                         *)
(* MongoDB compares within a type: a field that holds a string is never at *)
(* or after a date, nor equal to an ObjectId.                              *)
(***************************************************************************)
EXTENDS Naturals, FiniteSetsExt

CONSTANTS
  Workers,
  Jobs,        \* jobs, by age: 1 is the oldest
  BidOf,       \* the bid of each
  TypeOf,      \* the type of each
  Claimable,   \* the types these workers claim
  Costs,       \* what a pass may cost
  DayCap,      \* WORKER_MAX_COST_USD_PER_DAY, 0 when it is not set
  ProjectCap,  \* WORKER_MAX_COST_USD_PER_PROJECT, 0 when it is not set
  MaxAttempts, \* WORKER_MAX_ATTEMPTS
  MaxNow,      \* bound: days
  MaxPasses    \* bound: passes

None == 0  \* no candidate

VARIABLES
  now,     \* the day
  doc,     \* the jobs: status, attempts, startedAt
  worker,  \* where each worker stands, its candidate or job, the attempt it
           \* claimed, and whom it passed over
  metrics, \* runMetrics
  bills    \* history: every cost that was recorded

vars == <<now, doc, worker, metrics, bills>>

Idle == [at |-> "idle", job |-> None, attempt |-> 0, skipped |-> {}]

Init ==
  /\ now = 1
  /\ doc = [j \in Jobs |-> [status |-> "queued", attempts |-> 0, started |-> 0]]
  /\ worker = [w \in Workers |-> Idle]
  /\ metrics = {} /\ bills = {}

-----------------------------------------------------------------------------
(* Values as MongoDB compares them, and what is kept of a pass.            *)

Date(t)     == [type |-> "date", value |-> t]
ObjectId(b) == [type |-> "objectId", value |-> b]
String(v)   == [type |-> "string", value |-> v]

SameAs(v, u)    == v = u
AtOrAfter(v, u) == v.type = u.type /\ v.value >= u.value

\* startedAt goes in as its ISO text, projectId as its hexadecimal text.
document_for(j, attempt, cost) ==
  [id |-> <<j, attempt>>, jobType |-> TypeOf[j], totalCostUsd |-> cost,
   startedAt |-> String(doc[j].started), projectId |-> String(BidOf[j])]

\* replace_one under the attempt: a job that is retried counts from one again.
record(j, attempt, cost) ==
  metrics' = {m \in metrics : m.id # <<j, attempt>>} \cup {document_for(j, attempt, cost)}

-----------------------------------------------------------------------------
(* cost_budget.                                                            *)

Since == now - 1

spend_usd(rows) ==
  LET cost(m) == m.totalCostUsd
  IN MapThenSumSet(cost, {m \in rows : /\ AtOrAfter(m.startedAt, Date(Since))
                                       /\ m.jobType \in Claimable})

caps_enabled == DayCap > 0 \/ ProjectCap > 0

over_day == DayCap > 0 /\ spend_usd(metrics) >= DayCap

over_project(b) ==
  /\ ProjectCap > 0
  /\ spend_usd({m \in metrics : SameAs(m.projectId, ObjectId(b))}) >= ProjectCap

-----------------------------------------------------------------------------
(* The worker: claim() with a cap set, and the pass.                       *)

Due(j, w) == doc[j].status = "queued" /\ TypeOf[j] \in Claimable /\ j \notin worker[w].skipped

Looks(w) ==
  /\ caps_enabled /\ worker[w].at = "idle"
  /\ \E j \in Jobs :
       /\ Due(j, w) /\ \A k \in Jobs : Due(k, w) => j <= k
       /\ worker' = [worker EXCEPT ![w].at = "budget", ![w].job = j]
  /\ UNCHANGED <<now, doc, metrics, bills>>

FindsNone(w) ==
  /\ worker[w].at = "idle" /\ worker[w].skipped # {}
  /\ \A j \in Jobs : ~Due(j, w)
  /\ worker' = [worker EXCEPT ![w] = Idle]
  /\ UNCHANGED <<now, doc, metrics, bills>>

PassedOver(w) == [Idle EXCEPT !.skipped = worker[w].skipped \cup {worker[w].job}]

\* The day's cap blocks every job, a bid's the jobs of that bid.
Weighs(w) ==
  /\ worker[w].at = "budget"
  /\ worker' = [worker EXCEPT ![w] =
       IF over_day THEN Idle
       ELSE IF over_project(BidOf[worker[w].job]) THEN PassedOver(w)
       ELSE [worker[w] EXCEPT !.at = "take"]]
  /\ UNCHANGED <<now, doc, metrics, bills>>

\* Another worker may have taken it by now.
Takes(w) ==
  LET j == worker[w].job
  IN /\ worker[w].at = "take"
     /\ IF doc[j].status = "queued"
        THEN /\ doc' = [doc EXCEPT ![j] = [status |-> "running", started |-> now,
                                           attempts |-> doc[j].attempts + 1]]
             /\ worker' = [worker EXCEPT ![w] = [Idle EXCEPT
                              !.at = "work", !.job = j, !.attempt = doc[j].attempts + 1]]
        ELSE worker' = [worker EXCEPT ![w] = PassedOver(w)] /\ UNCHANGED doc
     /\ UNCHANGED <<now, metrics, bills>>

Endings(j) == {"done", IF doc[j].attempts < MaxAttempts THEN "queued" ELSE "dead"}

\* finish() comes first; a job that is put back keeps its startedAt.
Finishes(w) ==
  LET j == worker[w].job
  IN /\ worker[w].at = "work"
     /\ \E ending \in Endings(j) : doc' = [doc EXCEPT ![j].status = ending]
     /\ worker' = [worker EXCEPT ![w].at = "record"]
     /\ UNCHANGED <<now, metrics, bills>>

\* _record_runmetrics reads the job again, though not its attempt, and never raises.
Records(w) ==
  LET j == worker[w].job
  IN /\ worker[w].at = "record"
     /\ worker' = [worker EXCEPT ![w] = Idle]
     /\ \/ \E cost \in Costs :
             /\ record(j, worker[w].attempt, cost)
             /\ bills' = bills \cup {[number |-> Cardinality(bills) + 1, bid |-> BidOf[j],
                                      type |-> TypeOf[j], at |-> doc[j].started, cost |-> cost]}
        \/ UNCHANGED <<metrics, bills>>
     /\ Cardinality(bills) < MaxPasses
     /\ UNCHANGED <<now, doc>>

-----------------------------------------------------------------------------
(* Around the workers.                                                     *)

\* An operator gives a dead job its attempts back.
Retries(j) ==
  /\ doc[j].status = "dead"
  /\ doc' = [doc EXCEPT ![j].status = "queued", ![j].attempts = 0]
  /\ UNCHANGED <<now, worker, metrics, bills>>

DayPasses ==
  /\ now < MaxNow /\ now' = now + 1
  /\ UNCHANGED <<doc, worker, metrics, bills>>

Next ==
  \/ \E w \in Workers : \/ Looks(w) \/ FindsNone(w) \/ Weighs(w)
                        \/ Takes(w) \/ Finishes(w) \/ Records(w)
  \/ \E j \in Jobs : Retries(j)
  \/ DayPasses

Spec == Init /\ [][Next]_vars

-----------------------------------------------------------------------------
(* Property.                                                               *)

Spent(rows) ==
  LET cost(b) == b.cost
  IN MapThenSumSet(cost, {b \in rows : b.at >= Since /\ b.type \in Claimable})

\* "When WORKER_MAX_COST_USD_* caps are set, peek candidates oldest-first and
\* skip (leave queued) any whose project/day spend is already at cap"
\* (WorkerLoop.py:125-127): no job is taken whose bid, or whose day, had reached
\* its cap when it was weighed.
SkipsAtCap ==
  [][\A w \in Workers :
       worker[w].at = "budget" /\ worker'[w].at = "take" =>
         /\ DayCap > 0 => Spent(bills) < DayCap
         /\ ProjectCap > 0 =>
              Spent({b \in bills : b.bid = BidOf[worker[w].job]}) < ProjectCap]_vars
=============================================================================
