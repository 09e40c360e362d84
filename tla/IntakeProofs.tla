---------------------------- MODULE IntakeProofs ----------------------------
(***************************************************************************)
(* Uploads, addenda and requests for a version, side by side, leave the    *)
(* chain of versions to snapshot(): Intake implements Versions, and what   *)
(* VersionsProofs proves of the chain holds under the uploads.  The types  *)
(* of Intake follow, with one document per content, for any number of      *)
(* requests.                                                               *)
(***************************************************************************)
EXTENDS Intake, TLAPS

\* Where a request stands in snapshot(): nowhere, to Versions, while it is at
\* its upload.
standing == [r \in Requests |-> IF pc[r] \in Steps THEN pc[r] ELSE "idle"]

V == INSTANCE VersionsProofs WITH pc <- standing

\* The shape of what Versions does not have.
Shape ==
  /\ pc \in [Requests -> Points]
  /\ raw \in [Files -> Contents \cup {Nothing}]
  /\ rows \subseteq Rows
  /\ up \in [Requests -> InHand]
  /\ job \in Job

OnePerContent == \A d, e \in rows : d.content = e.content => d = e

\* A request outside snapshot() has nothing of it in hand: to break off there
\* is no step of Versions.
HandsEmpty == \A r \in Requests : pc[r] \notin Steps => snap[r] = NoSnap

\* From its hash to its document row an upload has a file and a content.
Carrying(u, there) ==
  there \in {"stored", "persist"} \/ (there \in Steps /\ u.kind \in Uploaded)

Holds(u) == u.file \in Files /\ u.content \in Contents

Carries == \A r \in Requests : Carrying(up[r], pc[r]) => Holds(up[r])

Desk == Shape /\ OnePerContent /\ HandsEmpty /\ Carries

IntakeInv == V!IInv /\ Desk

-----------------------------------------------------------------------------
(* The steps of Versions that the steps of Intake are.                     *)

LEMMA ChainTypes == ASSUME V!IInv PROVE VersionsTypeOK
BY DEF V!IInv, V!VersionsTypeOK, V!Version, V!Snap, VersionsTypeOK, Version, Snap

LEMMA StandingMoves ==
  ASSUME pc \in [Requests -> Points], NEW r \in Requests, NEW there, Goto(r, there)
  PROVE  standing' = [standing EXCEPT ![r] = IF there \in Steps THEN there ELSE "idle"]
BY DEF Goto, standing

\* To leave snapshot() is to break it off; to leave an upload is no step of it.
LEMMA LeavesSteps ==
  ASSUME IntakeInv, NEW r \in Requests, Leaves(r)
  PROVE  V!Breaks(r) \/ UNCHANGED V!verVars
<1>1. standing' = [standing EXCEPT ![r] = "idle"] /\ ver' = ver /\ asked' = asked
  BY StandingMoves DEF IntakeInv, Desk, Shape, Leaves, Steps
<1>2. snap' = [snap EXCEPT ![r] = NoSnap] /\ snap \in [Requests -> Snap]
  BY ChainTypes DEF Leaves, IntakeInv, VersionsTypeOK
<1>3. CASE pc[r] \in Steps
  <2>1. standing[r] \in V!Steps
    BY <1>3 DEF standing, Steps, V!Steps
  <2> QED
    BY <1>1, <1>2, <2>1 DEF V!Breaks, V!NoSnap, NoSnap
<1>4. CASE pc[r] \notin Steps
  <2>1. snap' = snap
    BY <1>2, <1>4 DEF IntakeInv, Desk, HandsEmpty
  <2>2. standing' = standing
    BY <1>1, <1>4 DEF standing
  <2> QED
    BY <1>1, <2>1, <2>2 DEF V!verVars
<1> QED
  BY <1>3, <1>4

\* An addendum, or a request with a document, enters snapshot() from its upload.
LEMMA EntersSteps ==
  ASSUME Desk, NEW r \in Requests, pc[r] \notin Steps, Room, Goto(r, "find"), KeepsVersions
  PROVE  V!Asks(r)
<1>1. standing' = [standing EXCEPT ![r] = "find"] /\ standing[r] = "idle"
  BY StandingMoves DEF Desk, Shape, Steps, standing
<1>2. V!Freezing = Freezing
  BY DEF V!Freezing, Freezing, standing, Steps, V!Steps
<1>3. V!Cardinality(Freezing) = Cardinality(Freezing)
  BY DEF V!Cardinality, Cardinality
<1> QED
  BY <1>1, <1>2, <1>3 DEF V!Asks, V!At, V!Room, Room, KeepsVersions

\* Moving between the points of an upload is no step of it.
LEMMA WalksSteps ==
  ASSUME Desk, NEW r \in Requests, NEW there, pc[r] \notin Steps, there \notin Steps,
         Goto(r, there), KeepsVersions
  PROVE  UNCHANGED V!verVars
<1>1. standing' = [standing EXCEPT ![r] = "idle"] /\ standing[r] = "idle"
  BY StandingMoves DEF Desk, Shape, standing
<1> QED
  BY <1>1 DEF V!verVars, KeepsVersions, standing

\* Each operation of snapshot() is itself.
LEMMA SnapshotSteps ==
  ASSUME Desk, NEW r \in Requests, Snapshot(r)
  PROVE  V!Snapshot(r)
<1>1. ASSUME NEW here \in Steps, NEW there \in Steps \cup {"idle"}, At(r, here, there)
      PROVE  V!At(r, here, there)
  <2>1. Goto(r, there) /\ standing[r] = here
    BY <1>1 DEF At, Goto, standing
  <2>2. (IF there \in Steps THEN there ELSE "idle") = there
    OBVIOUS
  <2> QED
    BY <2>1, <2>2, StandingMoves DEF V!At, Desk, Shape
<1>2. V!head = head
  BY DEF V!head, head, V!Open, Open
<1>3. CASE Previous(r)
  BY <1>1, <1>2, <1>3 DEF V!Snapshot, Previous, V!Previous, Steps, NoSnap, V!NoSnap
<1>4. CASE Latest(r)
  BY <1>1, <1>4 DEF V!Snapshot, Latest, V!Latest, Steps
<1>5. CASE Inserts(r)
  BY <1>1, <1>5 DEF V!Snapshot, Inserts, V!Inserts, New, V!New, Steps
<1>6. CASE Collides(r)
  BY <1>1, <1>6 DEF V!Snapshot, Collides, V!Collides, Steps
<1>7. CASE GivesUp(r)
  BY <1>1, <1>7 DEF V!Snapshot, GivesUp, V!GivesUp, NoSnap, V!NoSnap, Steps
<1>8. CASE Seals(r)
  BY <1>1, <1>8 DEF V!Snapshot, Seals, V!Seals, Sealed, V!Sealed, Steps
<1> QED
  BY <1>3, <1>4, <1>5, <1>6, <1>7, <1>8 DEF Snapshot, V!Snapshot

LEMMA UploadSteps ==
  ASSUME IntakeInv, NEW r \in Requests, Uploads(r)
  PROVE  [V!VersionsNext]_(V!verVars)
<1>1. Desk
  BY DEF IntakeInv
<1>2. CASE Leaves(r)
  BY <1>2, LeavesSteps DEF V!VersionsNext
<1>3. ASSUME NEW kind, Reserves(r, kind)
      PROVE  UNCHANGED V!verVars
  BY <1>1, <1>3, WalksSteps DEF Reserves, Steps
<1>4. CASE Supersedes(r) /\ ~Leaves(r)
  BY <1>1, <1>4, WalksSteps DEF Supersedes, Steps
<1>5. ASSUME NEW content, Receives(r, content), ~Leaves(r)
      PROVE  UNCHANGED V!verVars
  BY <1>1, <1>5, WalksSteps DEF Receives, Steps
<1>6. CASE Duplicate(r) /\ ~Leaves(r)
  BY <1>1, <1>6, WalksSteps DEF Duplicate, Steps
<1>7. CASE Fresh(r)
  <2>1. CASE up[r].kind = "addendum"
    BY <1>1, <1>7, <2>1, EntersSteps DEF Fresh, Steps, V!VersionsNext
  <2>2. CASE up[r].kind # "addendum"
    BY <1>1, <1>7, <2>2, WalksSteps DEF Fresh, Steps
  <2> QED
    BY <2>1, <2>2
<1>8. CASE AsksFreeze(r)
  BY <1>1, <1>8, EntersSteps DEF AsksFreeze, Asks, At, Goto, KeepsVersions, Steps, V!VersionsNext
<1>9. CASE AsksPass(r)
  BY <1>1, <1>9, EntersSteps DEF AsksPass, Steps, V!VersionsNext
<1>10. CASE Freezes(r)
  BY <1>1, <1>10, SnapshotSteps DEF Freezes, V!VersionsNext
<1>11. CASE Frozen(r)
  <2>1. Goto(r, "idle") /\ pc[r] = "frozen" /\ standing[r] = "frozen"
    BY <1>11 DEF Frozen, Answers, At, Goto, standing, Steps
  <2>2. V!At(r, "frozen", "idle")
    BY <1>1, <2>1, StandingMoves DEF V!At, Desk, Shape, Steps
  <2> QED
    BY <1>11, <2>2 DEF Frozen, Answers, V!Answers, NoSnap, V!NoSnap, V!VersionsNext
<1> QED
  BY <1>2, <1>3, <1>4, <1>5, <1>6, <1>7, <1>8, <1>9, <1>10, <1>11
     DEF Uploads, Extends, Persists, Refused, Crashes, QueuesPass

\* Every step of Intake is one of Versions, or none of its.
LEMMA IntakeSteps ==
  ASSUME IntakeInv, [Next]_vars
  PROVE  [V!VersionsNext]_(V!verVars)
<1>1. CASE UNCHANGED verVars
  BY <1>1 DEF verVars, V!verVars, standing
<1>2. ASSUME NEW r \in Requests, Uploads(r)
      PROVE  [V!VersionsNext]_(V!verVars)
  BY <1>2, UploadSteps
<1>3. CASE Diffs
  <2>1. RecordsDiff(job.number) /\ job.number \in 1 .. Len(ver) /\ standing' = standing
    BY <1>3 DEF Diffs, RecordsDiff, standing
  <2>2. V!RecordsDiff(job.number)
    BY <2>1 DEF RecordsDiff, V!RecordsDiff
  <2> QED
    BY <2>1, <2>2 DEF V!VersionsNext
<1>4. CASE Reviews
  <2>1. PICK n \in 1 .. Len(ver) : GuardsReconcile(n) \/ Reconciles(n)
    BY <1>4 DEF Reviews
  <2>2. standing' = standing
    BY <2>1 DEF GuardsReconcile, Reconciles, standing
  <2>3. V!GuardsReconcile(n) \/ V!Reconciles(n)
    BY <2>1, <2>2 DEF GuardsReconcile, V!GuardsReconcile, Reconciles, V!Reconciles
  <2> QED
    BY <2>3 DEF V!VersionsNext
<1>5. [Next]_vars => \/ \E r \in Requests : Uploads(r)
                     \/ Diffs \/ Reviews \/ UNCHANGED verVars
  BY DEF Next, Deletes, Reruns, Tick, Claims, Ends, vars
<1> QED
  BY <1>1, <1>2, <1>3, <1>4, <1>5

-----------------------------------------------------------------------------
(* What an upload has, and the shape of the rest.                          *)

\* The earlier of two ticks.
LEMMA MinIsOne ==
  ASSUME NEW a \in Nat, NEW b \in Nat
  PROVE  Min({a, b}) \in Nat
BY DEF Min

LEMMA JobShapes ==
  /\ \A status \in {"cancelled", "ended"} : Over(status) \in Job
  /\ \A kind : \A number \in Nat : Queued(kind, number) \in Job
  /\ \A j \in Job : capped_next_attempt(j) \in Job
<1>1. Min({Quiet, Ceiling}) \in Nat /\ \A left \in Nat : Min({Quiet, left}) \in Nat
  BY MinIsOne, IntakeAssumption
<1> QED
  BY <1>1, IntakeAssumption DEF Job, Over, Queued, Type, capped_next_attempt

\* A request moves, with what it carries; files, rows and job keep their shape.
LEMMA MovesDesk ==
  ASSUME Desk, snap \in [Requests -> Snap],
         NEW r \in Requests, NEW there \in Points, NEW u \in InHand, NEW s,
         Goto(r, there),
         up' = [up EXCEPT ![r] = u],
         snap' = [snap EXCEPT ![r] = s],
         there \notin Steps => s = NoSnap,
         Carrying(u, there) => Holds(u),
         raw' \in [Files -> Contents \cup {Nothing}],
         rows' \subseteq Rows, OnePerContent',
         job' \in Job
  PROVE  Desk'
<1>1. Shape'
  BY DEF Desk, Shape, Goto
<1>2. pc'[r] = there /\ up'[r] = u /\ snap'[r] = s
  BY DEF Desk, Shape, Goto
<1>3. ASSUME NEW q \in Requests, q # r
      PROVE  pc'[q] = pc[q] /\ up'[q] = up[q] /\ snap'[q] = snap[q]
  BY <1>3 DEF Desk, Shape, Goto
<1>4. HandsEmpty'
  BY <1>2, <1>3 DEF Desk, HandsEmpty
<1>5. ASSUME NEW q \in Requests
      PROVE  Carrying(up'[q], pc'[q]) => Holds(up'[q])
  BY <1>2, <1>3 DEF Desk, Carries
<1>6. Carries'
  BY <1>5 DEF Carries
<1> QED
  BY <1>1, <1>4, <1>6 DEF Desk

\* A request that leaves carries nothing.
LEMMA LeavesDesk ==
  ASSUME Desk, snap \in [Requests -> Snap], NEW r \in Requests, Leaves(r),
         raw' \in [Files -> Contents \cup {Nothing}],
         rows' \subseteq Rows, OnePerContent',
         job' \in Job
  PROVE  Desk'
<1>1. "idle" \in Points /\ "idle" \notin Steps /\ ~Carrying(Cleared, "idle")
  BY DEF Points, Steps, Carrying
<1>2. Cleared \in InHand
  BY DEF Cleared, InHand, Kinds, Uploaded
<1> QED
  BY <1>1, <1>2, MovesDesk DEF Leaves

\* A request that moves and touches nothing but its own hand.
LEMMA WalksDesk ==
  ASSUME Desk, snap \in [Requests -> Snap],
         NEW r \in Requests, NEW there \in Points, NEW u \in InHand,
         Goto(r, there),
         up' = [up EXCEPT ![r] = u],
         \/ snap' = snap /\ (pc[r] \notin Steps \/ there \in Steps)
         \/ \E s : snap' = [snap EXCEPT ![r] = s] /\ (there \notin Steps => s = NoSnap),
         Carrying(u, there) => Holds(u),
         UNCHANGED <<raw, rows, job>>
  PROVE  Desk'
<1>1. /\ raw' \in [Files -> Contents \cup {Nothing}]
      /\ rows' \subseteq Rows /\ OnePerContent' /\ job' \in Job
  BY DEF Desk, Shape, OnePerContent
<1>2. CASE snap' = snap /\ (pc[r] \notin Steps \/ there \in Steps)
  <2>1. snap' = [snap EXCEPT ![r] = snap[r]]
    BY <1>2
  <2>2. there \notin Steps => snap[r] = NoSnap
    BY <1>2 DEF Desk, HandsEmpty
  <2> QED
    BY <1>1, <2>1, <2>2, MovesDesk
<1>3. ASSUME NEW s, snap' = [snap EXCEPT ![r] = s], there \notin Steps => s = NoSnap
      PROVE  Desk'
  BY <1>1, <1>3, MovesDesk
<1> QED
  BY <1>2, <1>3

\* Only the files, the rows or the job change, in their shape.
LEMMA StandsDesk ==
  ASSUME Desk, UNCHANGED <<pc, up>>, snap' = snap,
         raw' = raw, rows' \subseteq rows, job' \in Job
  PROVE  Desk'
<1>1. Shape' /\ OnePerContent'
  BY DEF Desk, Shape, OnePerContent
<1>2. HandsEmpty' /\ Carries'
  BY DEF Desk, HandsEmpty, Carries
<1> QED
  BY <1>1, <1>2 DEF Desk

-----------------------------------------------------------------------------
(* The steps of an upload.                                                 *)

LEMMA EnqueueShape ==
  ASSUME Desk, snap \in [Requests -> Snap], NEW r \in Requests, enqueue_pipeline(r)
  PROVE  job' \in Job
<1>1. job \in Job /\ snap[r].number \in Nat
  BY DEF Desk, Shape, Snap
<1> DEFINE number == IF up[r].kind # "plan" THEN snap[r].number ELSE 0
<1>2. number \in Nat
  BY <1>1
<1>3. job' \in {Queued(up[r].kind, number), capped_next_attempt(job), job}
  BY DEF enqueue_pipeline
<1> HIDE DEF number
<1> QED
  BY <1>1, <1>2, <1>3, JobShapes

\* The files, but for the one a request removes.
LEMMA UnlinkShape ==
  ASSUME Desk, NEW r \in Requests
  PROVE  Unlinks(r) \in [Files -> Contents \cup {Nothing}]
BY DEF Desk, Shape, Unlinks

LEMMA ReserveDesk ==
  ASSUME Desk, snap \in [Requests -> Snap], NEW r \in Requests,
         (\E kind \in Roles[r] : Reserves(r, kind)) \/ Supersedes(r)
  PROVE  Desk'
<1>1. ASSUME NEW kind \in Roles[r], Reserves(r, kind)
      PROVE  Desk'
  <2> DEFINE u == [Cleared EXCEPT !.kind = kind]
  <2>1. u \in InHand
    BY IntakeAssumption DEF Cleared, InHand
  <2>2. PICK there \in {"reserved", "cancel"} : Goto(r, there)
    BY <1>1 DEF Reserves
  <2>3. there \in Points /\ there \notin Steps /\ ~Carrying(u, there) /\ pc[r] \notin Steps
    BY <1>1, <2>2 DEF Points, Steps, Carrying, Reserves
  <2>4. up' = [up EXCEPT ![r] = u] /\ snap' = snap /\ UNCHANGED <<raw, rows, job>>
    BY <1>1 DEF Reserves, KeepsVersions
  <2> HIDE DEF u
  <2> QED
    BY <2>1, <2>2, <2>3, <2>4, WalksDesk
<1>2. CASE Supersedes(r)
  <2>1. /\ raw' \in [Files -> Contents \cup {Nothing}]
        /\ rows' \subseteq Rows /\ OnePerContent' /\ job' \in Job
    BY <1>2, JobShapes DEF Supersedes, Desk, Shape, OnePerContent
  <2>2. CASE Leaves(r)
    BY <2>1, <2>2, LeavesDesk
  <2>3. CASE ~Leaves(r)
    <3>1. /\ Goto(r, "reserved") /\ pc[r] \notin Steps
          /\ snap' = [snap EXCEPT ![r] = NoSnap] /\ up' = [up EXCEPT ![r] = up[r]]
      BY <1>2, <2>3 DEF Supersedes, KeepsVersions, Steps, Desk, Shape, HandsEmpty
    <3>2. /\ "reserved" \in Points /\ ~Carrying(up[r], "reserved") /\ up[r] \in InHand
      BY DEF Points, Steps, Carrying, Desk, Shape
    <3> QED
      BY <2>1, <3>1, <3>2, MovesDesk
  <2> QED
    BY <2>2, <2>3
<1> QED
  BY <1>1, <1>2

\* The file and its content are in hand together.
LEMMA ReceivesDesk ==
  ASSUME Desk, snap \in [Requests -> Snap], NEW r \in Requests,
         NEW content \in Contents, Receives(r, content)
  PROVE  Desk'
<1>1. rows' \subseteq Rows /\ OnePerContent' /\ job' \in Job
  BY DEF Receives, Desk, Shape, OnePerContent
<1>2. CASE Leaves(r) /\ UNCHANGED raw
  BY <1>1, <1>2, LeavesDesk DEF Desk, Shape
<1>3. CASE Unused # {} /\ Goto(r, "stored") /\ KeepsVersions
           /\ \E file \in Unused :
                /\ raw' = [raw EXCEPT ![file] = content]
                /\ up' = [up EXCEPT ![r].file = file, ![r].content = content]
  <2>1. PICK file \in Unused :
          /\ raw' = [raw EXCEPT ![file] = content]
          /\ up' = [up EXCEPT ![r].file = file, ![r].content = content]
    BY <1>3
  <2> DEFINE u == [up[r] EXCEPT !.file = file, !.content = content]
  <2>2. file \in Files /\ up[r] \in InHand /\ pc[r] \notin Steps
    BY DEF Unused, Desk, Shape, Receives, Steps
  <2>3. u \in InHand /\ Holds(u) /\ up' = [up EXCEPT ![r] = u]
    BY <2>1, <2>2 DEF InHand, Holds, Desk, Shape
  <2>4. raw' \in [Files -> Contents \cup {Nothing}]
    BY <2>1, <2>2 DEF Desk, Shape
  <2>5. snap' = [snap EXCEPT ![r] = NoSnap] /\ "stored" \in Points
    BY <1>3, <2>2 DEF KeepsVersions, Desk, HandsEmpty, Points
  <2> HIDE DEF u
  <2> QED
    BY <1>1, <1>3, <2>3, <2>4, <2>5, MovesDesk
<1>4. Unused # {} => (CHOOSE f \in Unused : TRUE) \in Unused
  OBVIOUS
<1> QED
  BY <1>2, <1>3, <1>4 DEF Receives

LEMMA HashDesk ==
  ASSUME Desk, snap \in [Requests -> Snap], NEW r \in Requests,
         Duplicate(r) \/ Extends(r) \/ Fresh(r)
  PROVE  Desk'
<1>1. rows' \subseteq Rows /\ OnePerContent' /\ job' \in Job
  BY JobShapes DEF Duplicate, Extends, Fresh, docVars, Desk, Shape, OnePerContent
<1>2. raw' \in [Files -> Contents \cup {Nothing}]
  BY UnlinkShape DEF Duplicate, Extends, Fresh, docVars, Desk, Shape
<1>3. CASE Leaves(r)
  BY <1>1, <1>2, <1>3, LeavesDesk
<1>4. CASE Duplicate(r) /\ ~Leaves(r)
  <2>1. /\ Goto(r, "extend") /\ pc[r] \notin Steps /\ up' = [up EXCEPT ![r] = Cleared]
        /\ snap' = [snap EXCEPT ![r] = NoSnap]
    BY <1>4 DEF Duplicate, KeepsVersions, Steps, Desk, HandsEmpty
  <2>2. "extend" \in Points /\ ~Carrying(Cleared, "extend") /\ Cleared \in InHand
    BY DEF Points, Steps, Carrying, Cleared, InHand, Kinds, Uploaded
  <2> QED
    BY <1>1, <1>2, <2>1, <2>2, MovesDesk
<1>5. CASE Fresh(r)
  <2>1. PICK there \in {"find", "persist"} : Goto(r, there)
    BY <1>5 DEF Fresh
  <2>2. /\ there \in Points /\ pc[r] \notin Steps /\ up[r] \in InHand /\ Holds(up[r])
        /\ up' = [up EXCEPT ![r] = up[r]] /\ snap' = snap /\ UNCHANGED <<raw, rows, job>>
    BY <1>5, <2>1 DEF Fresh, KeepsVersions, docVars, Points, Steps, Desk, Shape, Carries, Carrying
  <2> QED
    BY <2>1, <2>2, WalksDesk
<1> QED
  BY <1>3, <1>4, <1>5 DEF Extends

\* The row is of the file and the content in hand, and of no content a row is
\* of already.
LEMMA PersistsDesk ==
  ASSUME Desk, snap \in [Requests -> Snap], NEW r \in Requests, Persists(r)
  PROVE  Desk'
<1>1. Holds(up[r])
  BY DEF Persists, Ready, Desk, Carries, Carrying, Steps
<1>2. Row(r) \in Rows /\ rows' \subseteq Rows
  BY <1>1 DEF Row, Rows, Holds, Persists, Desk, Shape
<1>3. OnePerContent'
  <2>1. \A d \in rows : d.content # Row(r).content
    BY DEF Persists, FreeContent, Known, Row
  <2> QED
    BY <2>1 DEF Desk, OnePerContent, Persists
<1>4. raw' \in [Files -> Contents \cup {Nothing}]
  BY DEF Persists, Desk, Shape
<1> QED
  BY <1>2, <1>3, <1>4, EnqueueShape, LeavesDesk DEF Persists

\* A refusal, a crash and a request for a version that is answered.
LEMMA AnsweredDesk ==
  ASSUME Desk, snap \in [Requests -> Snap], NEW r \in Requests,
         Refused(r) \/ Crashes(r) \/ QueuesPass(r) \/ Frozen(r)
  PROVE  Desk'
<1>1. /\ rows' \subseteq Rows /\ OnePerContent'
      /\ raw' \in [Files -> Contents \cup {Nothing}]
      /\ job' \in Job
  <2>1. rows' = rows /\ (raw' = raw \/ raw' = Unlinks(r))
        /\ (job' = job \/ enqueue_pipeline(r))
    BY DEF Refused, Crashes, QueuesPass, Frozen
  <2> QED
    BY <2>1, UnlinkShape, EnqueueShape DEF Desk, Shape, OnePerContent
<1>2. Leaves(r)
  BY DEF Refused, Crashes, QueuesPass, Frozen, Answers, At, Leaves, Goto
<1> QED
  BY <1>1, <1>2, LeavesDesk

\* A request for a version carries nothing into snapshot().
LEMMA VersionDesk ==
  ASSUME Desk, snap \in [Requests -> Snap], NEW r \in Requests,
         AsksFreeze(r) \/ AsksPass(r)
  PROVE  Desk'
<1> DEFINE u == IF AsksFreeze(r) THEN [Cleared EXCEPT !.kind = "freeze"] ELSE up[r]
<1>1. /\ Goto(r, "find") /\ pc[r] \notin Steps /\ snap' = snap
      /\ UNCHANGED <<raw, rows, job>>
  BY DEF AsksFreeze, AsksPass, Asks, At, Goto, KeepsVersions, docVars, Steps
<1>2. "find" \in Points /\ u \in InHand /\ ~Carrying(u, "find")
  BY DEF AsksPass, AsksFreeze, Points, Steps, Carrying, Cleared, InHand, Kinds, Uploaded, Desk,
         Shape
<1>3. up' = [up EXCEPT ![r] = u]
  BY DEF AsksFreeze, AsksPass, docVars, Desk, Shape
<1> HIDE DEF u
<1> QED
  BY <1>1, <1>2, <1>3, WalksDesk

\* What an addendum carries it carries through snapshot().
LEMMA FreezesDesk ==
  ASSUME Desk, snap \in [Requests -> Snap], NEW r \in Requests, Freezes(r)
  PROVE  Desk'
<1>1. PICK there \in Steps \cup {"idle"} :
        /\ Goto(r, there) /\ pc[r] \in Steps
        /\ \/ snap' = snap /\ there \in Steps
           \/ \E s : snap' = [snap EXCEPT ![r] = s] /\ (there \notin Steps => s = NoSnap)
  <2>1. ASSUME NEW here, NEW there, At(r, here, there)
        PROVE  Goto(r, there) /\ pc[r] = here
    BY <2>1 DEF At, Goto
  <2>2. CASE Previous(r)
    BY <2>1, <2>2 DEF Previous, Steps
  <2>3. CASE Latest(r)
    <3>1. snap' = [snap EXCEPT ![r] = [snap[r] EXCEPT !.number = Len(ver) + 1]]
      BY <2>3 DEF Latest
    <3> QED
      BY <2>1, <2>3, <3>1 DEF Latest, Steps
  <2>4. CASE Inserts(r)
    BY <2>1, <2>4 DEF Inserts, Steps
  <2>5. CASE Collides(r)
    <3>1. snap' = [snap EXCEPT ![r] = [snap[r] EXCEPT !.tries = snap[r].tries + 1]]
      BY <2>5 DEF Collides
    <3> QED
      BY <2>1, <2>5, <3>1 DEF Collides, Steps
  <2>6. CASE GivesUp(r)
    BY <2>1, <2>6 DEF GivesUp, Steps
  <2>7. CASE Seals(r)
    BY <2>1, <2>7 DEF Seals, Steps
  <2> QED
    BY <2>2, <2>3, <2>4, <2>5, <2>6, <2>7 DEF Freezes, Snapshot
<1>2. pc'[r] = there /\ there \in Points /\ up[r] \in InHand
  BY <1>1 DEF Goto, Points, Desk, Shape
<1> DEFINE u == IF there = "idle" THEN Cleared ELSE up[r]
<1>3. up' = [up EXCEPT ![r] = u] /\ UNCHANGED <<raw, rows, job>>
  BY <1>2 DEF Freezes, Desk, Shape
<1>4. u \in InHand /\ (Carrying(u, there) => Holds(u))
  BY <1>1, <1>2 DEF Carrying, Cleared, InHand, Kinds, Uploaded, Desk, Carries, Steps
<1> HIDE DEF u
<1> QED
  BY <1>1, <1>2, <1>3, <1>4, WalksDesk

-----------------------------------------------------------------------------
(* The invariant.                                                          *)

LEMMA InitIntake == Init => IntakeInv
<1> SUFFICES ASSUME Init PROVE IntakeInv
  OBVIOUS
<1>1. V!VersionsInit
  BY DEF Init, VersionsInit, V!VersionsInit, standing, Steps, NoSnap, V!NoSnap
<1>2. Shape
  BY JobShapes DEF Init, VersionsInit, Shape, Points, Cleared, InHand, Kinds, Uploaded
<1>3. OnePerContent /\ HandsEmpty /\ Carries
  BY DEF Init, VersionsInit, OnePerContent, HandsEmpty, Carries, Carrying, Steps
<1> QED
  BY <1>1, <1>2, <1>3, V!InitIInv, VersionsAssumption DEF V!InitIInv, IntakeInv, Desk

LEMMA StepDesk ==
  ASSUME IntakeInv, [Next]_vars
  PROVE  Desk'
<1>1. Desk /\ snap \in [Requests -> Snap]
  BY ChainTypes DEF IntakeInv, VersionsTypeOK
<1>2. ASSUME NEW r \in Requests, Uploads(r)
      PROVE  Desk'
  BY <1>1, <1>2, ReserveDesk, ReceivesDesk, HashDesk, PersistsDesk, AnsweredDesk, VersionDesk,
     FreezesDesk DEF Uploads
<1>3. job \in Job /\ rows \subseteq Rows
  BY <1>1 DEF Desk, Shape
<1>4. CASE \E d \in rows : Deletes(d)
  BY <1>1, <1>3, <1>4, StandsDesk DEF Deletes, verVars
<1>5. CASE Reruns
  <2>1. job' \in Job
    <3>1. Queued("plan", 0) \in Job
      BY JobShapes
    <3> QED
      BY <1>5, <3>1, JobShapes DEF Reruns, Job
  <2> QED
    BY <1>1, <1>5, <2>1, StandsDesk DEF Reruns, verVars
<1>6. CASE Tick
  <2> DEFINE due == IF job.due > 0 THEN job.due - 1 ELSE 0
             left == IF job.left > 0 THEN job.left - 1 ELSE 0
  <2>2. due \in Nat /\ left \in Nat /\ job' = [job EXCEPT !.due = due, !.left = left]
    BY <1>3, <1>6 DEF Tick, Job
  <2> HIDE DEF due, left
  <2>1. job' \in Job
    BY <1>3, <2>2 DEF Job
  <2> QED
    BY <1>1, <1>6, <2>1, StandsDesk DEF Tick, verVars
<1>7. CASE Claims
  <2>1. job' \in Job
    BY <1>3, <1>7 DEF Claims, Job
  <2> QED
    BY <1>1, <1>7, <2>1, StandsDesk DEF Claims, verVars
<1>8. CASE Ends
  <2>1. Over("ended") \in Job
    BY JobShapes
  <2>2. job' \in Job
    BY <1>3, <1>8, <2>1, IntakeAssumption DEF Ends, Job
  <2> QED
    BY <1>1, <1>8, <2>2, StandsDesk DEF Ends, verVars
<1>9. CASE Diffs \/ Reviews
  <2>1. UNCHANGED <<pc, snap, docVars>>
    BY <1>9 DEF Diffs, Reviews, RecordsDiff, GuardsReconcile, Reconciles
  <2> QED
    BY <1>1, <1>3, <2>1, StandsDesk DEF docVars
<1>10. CASE UNCHANGED vars
  BY <1>1, <1>3, <1>10, StandsDesk DEF vars, verVars
<1> QED
  BY <1>2, <1>4, <1>5, <1>6, <1>7, <1>8, <1>9, <1>10 DEF Next

LEMMA StepIntake == IntakeInv /\ [Next]_vars => IntakeInv'
BY IntakeSteps, StepDesk, V!StepInv, VersionsAssumption DEF V!StepInv, IntakeInv

LEMMA IntakeInvariant == Spec => []IntakeInv
BY InitIntake, StepIntake, PTL DEF Spec

-----------------------------------------------------------------------------

\* The shape of uploads, jobs and versions is kept by any number of requests,
\* and no two document rows are of the same bytes, whoever looked for them
\* before either was written (UploadDocument.py:75-107,
\* intake/infrastructure/collections.py:31-39).
THEOREM IntakeTypeCorrect == Spec => []IntakeTypeOK
<1>1. IntakeInv => IntakeTypeOK
  BY ChainTypes DEF IntakeInv, Desk, Shape, OnePerContent, IntakeTypeOK
<1> QED
  BY <1>1, IntakeInvariant, PTL

\* Uploads, addenda, crashed and refused requests do to the versions what
\* snapshot(), the review and the diff do, and nothing else
\* (UploadDocument.py:122-131, CreateVersion.py:18-46).
THEOREM IntakeImplementsVersions == Spec => V!VersionsSpec
<1>1. Init => V!VersionsInit
  BY DEF Init, VersionsInit, V!VersionsInit, standing, Steps, NoSnap, V!NoSnap
<1>2. IntakeInv /\ [Next]_vars => [V!VersionsNext]_(V!verVars)
  BY IntakeSteps
<1> QED
  BY <1>1, <1>2, IntakeInvariant, PTL DEF Spec, V!VersionsSpec

\* The chain can be walked both ways from every sealed version, whatever
\* uploads, refusals and crashes there are around snapshot()
\* (snapshot.py:101-107, UploadDocument.py:128-177).
THEOREM UploadsKeepTheChain == Spec => []SealedBySuccessor
<1>1. V!VersionsSpec => []V!SealedBySuccessor
  BY V!SealsNameSuccessors, VersionsAssumption DEF V!SealsNameSuccessors
<1>2. V!SealedBySuccessor => SealedBySuccessor
  BY DEF V!SealedBySuccessor, SealedBySuccessor
<1> QED
  BY <1>1, <1>2, IntakeImplementsVersions, PTL

\* No version becomes reconciled once sealed, though the seal of an addendum
\* falls between the guard and the write (MarkReconciled.py:27-41).
THEOREM UploadsKeepTheSeal == Spec => ReconcileRespectsSeal
<1>1. V!VersionsSpec => V!ReconcileRespectsSeal
  BY V!SealStopsReconciling, VersionsAssumption DEF V!SealStopsReconciling
<1>2. V!ReconcileRespectsSeal => ReconcileRespectsSeal
  BY PTL DEF V!ReconcileRespectsSeal, ReconcileRespectsSeal
<1> QED
  BY <1>1, <1>2, IntakeImplementsVersions, PTL

=============================================================================
