------------------------------- MODULE Proposal -------------------------------
(***************************************************************************)
(* The proposal of a bid and its hand-off.  Settings of the proposal and   *)
(* the artifacts of a pass are upserted into the bid's document; signing   *)
(* it off checks the price sheets behind the lines, freezes the totals     *)
(* with the name of who approved them, and routes the bid to a             *)
(* salesperson, one write after the other.  Any of these requests may run  *)
(* beside another, and none of the writes is conditional; the collection   *)
(* has no unique index on the bid.                                         *)
(***************************************************************************)
EXTENDS Naturals, Sequences

CONSTANTS
  Requests,   \* requests that sign the proposal off
  Estimators, \* who may make them
  MaxActs,    \* bound: edits of the quote, upserts and dates that pass, together
  MaxCrashes  \* bound: requests that die on the way

Nobody == "nobody"

VARIABLES
  proposals, \* the documents of the bid, the oldest first, which a find returns
  totals,    \* the quote's totals: how often they have changed
  lapsed,    \* a line is priced from a sheet past its review window
  sign,      \* where each request stands, and what it has read
  routed,    \* handedOffTo is set on the bid
  acts, deaths

vars == <<proposals, totals, lapsed, sign, routed, acts, deaths>>

Draft == [approvedBy |-> Nobody, totalsSnapshot |-> 0, lapsedAcknowledgedBy |-> Nobody,
          completedBy |-> Nobody, claudeArtifacts |-> FALSE]

Idle == [at |-> "idle", by |-> Nobody, totals |-> 0, stored |-> "none"]

Init ==
  /\ proposals = <<>>
  /\ totals = 0
  /\ lapsed \in BOOLEAN
  /\ sign = [r \in Requests |-> Idle]
  /\ routed = FALSE
  /\ acts = 0 /\ deaths = 0

Stored == IF proposals = <<>> THEN Draft ELSE Head(proposals)

\* update_one with a filter on the bid: the oldest document, or none.
Updated(new) == IF proposals = <<>> THEN proposals ELSE [proposals EXCEPT ![1] = new]

Upserted(new) == IF proposals = <<>> THEN <<new>> ELSE Updated(new)

-----------------------------------------------------------------------------
(* Signing off.                                                            *)

\* The one gate: a lapsed sheet that nobody has answered for.
blocking == lapsed /\ Stored.lapsedAcknowledgedBy = Nobody

Checks(r, actor) ==
  /\ sign[r].at = "idle"
  /\ sign' = [sign EXCEPT ![r] =
       [@ EXCEPT !.at = IF blocking THEN "refused" ELSE "totals", !.by = actor]]
  /\ UNCHANGED <<proposals, totals, lapsed, routed, acts, deaths>>

totals_for(r) ==
  /\ sign[r].at = "totals"
  /\ sign' = [sign EXCEPT ![r] = [@ EXCEPT !.at = "find", !.totals = totals]]
  /\ UNCHANGED <<proposals, totals, lapsed, routed, acts, deaths>>

Finds(r) ==
  /\ sign[r].at = "find"
  /\ sign' = [sign EXCEPT ![r] =
       [@ EXCEPT !.at = "approve",
                 !.stored = IF proposals = <<>> THEN "none"
                            ELSE IF Stored.approvedBy = Nobody THEN "draft" ELSE "approved"]]
  /\ UNCHANGED <<proposals, totals, lapsed, routed, acts, deaths>>

approve(doc, actor, frozen) ==
  [doc EXCEPT !.approvedBy = actor, !.totalsSnapshot = frozen]

\* Mutant: only a proposal that does not exist yet is approved.
ApprovedOnInsert(r) ==
  IF sign[r].stored = "none" THEN Append(proposals, approve(Draft, sign[r].by, sign[r].totals))
  ELSE proposals

\* A draft is stamped where it was found, a missing one inserted; an approval
\* that was found stands.
Approved(r) ==
  CASE sign[r].stored = "none"  -> Append(proposals, approve(Draft, sign[r].by, sign[r].totals))
    [] sign[r].stored = "draft" -> Updated(approve(Stored, sign[r].by, sign[r].totals))
    [] OTHER -> proposals

Approves(r) ==
  /\ sign[r].at = "approve"
  /\ proposals' = Approved(r)
  /\ sign' = [sign EXCEPT ![r].at = "complete"]
  /\ UNCHANGED <<totals, lapsed, routed, acts, deaths>>

Completes(r) ==
  /\ sign[r].at = "complete"
  /\ proposals' = Updated([Stored EXCEPT !.completedBy = sign[r].by])
  /\ sign' = [sign EXCEPT ![r].at = "route"]
  /\ UNCHANGED <<totals, lapsed, routed, acts, deaths>>

record_hand_off(r) ==
  /\ sign[r].at = "route"
  /\ routed' = TRUE
  /\ sign' = [sign EXCEPT ![r].at = "done"]
  /\ UNCHANGED <<proposals, totals, lapsed, acts, deaths>>

Dies(r) ==
  /\ sign[r].at \notin {"idle", "refused", "done", "dead"}
  /\ deaths < MaxCrashes
  /\ deaths' = deaths + 1
  /\ sign' = [sign EXCEPT ![r].at = "dead"]
  /\ UNCHANGED <<proposals, totals, lapsed, routed, acts>>

-----------------------------------------------------------------------------
(* Around it.                                                              *)

Acts == acts < MaxActs /\ acts' = acts + 1

\* The settings, an acknowledgement among them or not.
update_proposal(actor) ==
  /\ Acts
  /\ \E acknowledged \in {Stored.lapsedAcknowledgedBy, actor} :
       proposals' = Upserted([Stored EXCEPT !.lapsedAcknowledgedBy = acknowledged])
  /\ UNCHANGED <<totals, lapsed, sign, routed, deaths>>

import_proposal_artifacts ==
  /\ Acts
  /\ proposals' = Upserted([Stored EXCEPT !.claudeArtifacts = TRUE])
  /\ UNCHANGED <<totals, lapsed, sign, routed, deaths>>

\* A line is edited, or a day goes by.
Changes ==
  /\ Acts
  /\ \/ totals' = totals + 1 /\ lapsed' \in BOOLEAN
     \/ totals' = totals /\ ~lapsed /\ lapsed' = TRUE
  /\ UNCHANGED <<proposals, sign, routed, deaths>>

Next ==
  \/ \E r \in Requests :
       \/ \E actor \in Estimators : Checks(r, actor)
       \/ totals_for(r) \/ Finds(r) \/ Approves(r) \/ Completes(r) \/ record_hand_off(r)
       \/ Dies(r)
  \/ \E actor \in Estimators : update_proposal(actor)
  \/ import_proposal_artifacts
  \/ Changes

Spec == Init /\ [][Next]_vars

-----------------------------------------------------------------------------
(* Properties.                                                             *)

ProposalTypeOK ==
  /\ \A i \in DOMAIN proposals :
       proposals[i] \in [approvedBy : Estimators \cup {Nobody}, totalsSnapshot : 0 .. MaxActs,
                         lapsedAcknowledgedBy : Estimators \cup {Nobody},
                         completedBy : Estimators \cup {Nobody}, claudeArtifacts : BOOLEAN]
  /\ \A r \in Requests : sign[r].at \in {"idle", "totals", "find", "approve", "complete",
                                         "route", "done", "refused", "dead"}
  /\ totals \in 0 .. MaxActs /\ lapsed \in BOOLEAN /\ routed \in BOOLEAN

\* "No estimate reaches a customer without explicit estimator approval, and
\* explicit is a person's name": a bid that is in a salesperson's queue has a
\* proposal that somebody approved, whatever else was written to the proposal
\* meanwhile and wherever a request died (domain/proposals.py:48-53,
\* MarkComplete.py:65-91).
RoutedIsApproved ==
  routed => \E i \in DOMAIN proposals : proposals[i].approvedBy # Nobody
=============================================================================
