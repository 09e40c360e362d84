----------------------------- MODULE ClaimLease -----------------------------
(***************************************************************************)
(* What the job queue promises: every job has at most one lease, granted   *)
(* and revoked under a generation that only grows.  A session may outlive  *)
(* its lease - its worker does not know yet - but then it changes nothing. *)
(***************************************************************************)
EXTENDS Integers

CONSTANTS Jobs, Workers

VARIABLES
  status,   \* of each job
  gen,      \* of each job: how many leases have been granted or revoked
  session   \* of each worker: the job and generation it works under, or <<>>

vars == <<status, gen, session>>

Settled == {"queued", "done", "dead"}

Init ==
  /\ status = [j \in Jobs |-> "absent"]
  /\ gen = [j \in Jobs |-> 0]
  /\ session = [w \in Workers |-> <<>>]

\* A new job, or a dead one an operator retries.
Open(j) ==
  /\ status[j] \in {"absent", "dead"}
  /\ status' = [status EXCEPT ![j] = "queued"]
  /\ UNCHANGED <<gen, session>>

Grant(w, j) ==
  /\ session[w] = <<>>
  /\ status[j] = "queued"
  /\ status' = [status EXCEPT ![j] = "running"]
  /\ gen' = [gen EXCEPT ![j] = @ + 1]
  /\ session' = [session EXCEPT ![w] = <<j, gen[j] + 1>>]

Holds(w, j) == session[w] = <<j, gen[j]>> /\ status[j] = "running"

\* The holder of the lease ends it, and its session then or later.
Settle(w, j) ==
  /\ Holds(w, j)
  /\ \E s \in Settled : status' = [status EXCEPT ![j] = s]
  /\ session' \in {session, [session EXCEPT ![w] = <<>>]}
  /\ UNCHANGED gen

\* A lease is taken away from a holder presumed dead.
Revoke(j) ==
  /\ status[j] = "running"
  /\ \E s \in {"queued", "dead"} : status' = [status EXCEPT ![j] = s]
  /\ gen' = [gen EXCEPT ![j] = @ + 1]
  /\ UNCHANGED session

\* A session ends, by itself or by a crash.
Leave(w) ==
  /\ session' = [session EXCEPT ![w] = <<>>]
  /\ UNCHANGED <<status, gen>>

Next ==
  \/ \E j \in Jobs : Open(j) \/ Revoke(j)
  \/ \E w \in Workers : Leave(w) \/ \E j \in Jobs : Grant(w, j) \/ Settle(w, j)

Spec == Init /\ [][Next]_vars

=============================================================================
