------------------------------ MODULE Versions ------------------------------
(***************************************************************************)
(* The versions of one bid: snapshot() freezes the openings and the quote   *)
(* lines as a new version and seals the one before it.                      *)
(*                                                                         *)
(* snapshot() is a row of single-document operations with nothing around    *)
(* them.  Requests run it side by side, and one that dies leaves what it    *)
(* has written.  The unique index on (projectId, version) numbers the       *)
(* versions; which version is the head is read once, at the start.  The    *)
(* estimateVersionId of the live rows and the version of the bid, which     *)
(* snapshot() sets on the way, are read by no step of it and left out.      *)
(***************************************************************************)
EXTENDS Naturals, Sequences, FiniteSets

CONSTANTS
  Requests,     \* requests that may run snapshot() at the same time
  Tries,        \* how often a request tries to allocate a number (5)
  MaxVersions,  \* bound: versions a bid may come to have
  Reviewed      \* bound: versions somebody marks reconciled

ASSUME VersionsAssumption == Tries \in Nat \ {0} /\ MaxVersions \in Nat /\ Reviewed \subseteq Nat

VARIABLES
  ver,       \* the versions; version n is ver[n]
  pc,        \* where each request stands
  snap,      \* what each request's snapshot() has in hand
  asked      \* versions whose reconcile request has passed its guard

verVars == <<ver, pc, snap, asked>>

\* A version.  by = 0: nothing supersedes it.  prev = 0: it is the first.
Version == [prev : Nat, by : Nat, locked : BOOLEAN, reconciled : BOOLEAN]

Snap == [head : Nat, number : Nat, tries : Nat]

Steps == {"find", "latest", "insert", "seal", "frozen"}

\* supersededByVersionId: None
Open == {n \in 1 .. Len(ver) : ver[n].by = 0}

\* The open version with the highest number; 0 when the bid has none.
head == IF Open = {} THEN 0 ELSE CHOOSE n \in Open : \A m \in Open : m <= n

Freezing == {r \in Requests : pc[r] \in Steps \ {"frozen"}}

\* Bound: every snapshot under way may add a version.
Room == Len(ver) + Cardinality(Freezing) < MaxVersions

At(r, here, there) == pc[r] = here /\ pc' = [pc EXCEPT ![r] = there]

NoSnap == [head |-> 0, number |-> 0, tries |-> 0]

VersionsInit ==
  /\ ver = <<>>
  /\ pc = [r \in Requests |-> "idle"]
  /\ snap = [r \in Requests |-> NoSnap]
  /\ asked = {}

-----------------------------------------------------------------------------
(* snapshot(), one operation at a time.                                    *)

\* A request for a version without an addendum.
Asks(r) ==
  /\ Room
  /\ At(r, "idle", "find")
  /\ UNCHANGED <<ver, snap, asked>>

\* The version this one will follow.
Previous(r) ==
  /\ At(r, "find", "latest")
  /\ snap' = [snap EXCEPT ![r] = [NoSnap EXCEPT !.head = head]]
  /\ UNCHANGED <<ver, asked>>

\* Mutant: the predecessor is sealed before its successor is there.
SealsFirst(r) ==
  /\ At(r, "latest", "insert")
  /\ snap' = [snap EXCEPT ![r].number = Len(ver) + 1]
  /\ ver' = IF snap[r].head = 0 THEN ver
            ELSE [ver EXCEPT ![snap[r].head].by = Len(ver) + 1, ![snap[r].head].locked = TRUE]
  /\ UNCHANGED asked

\* The number after the highest one there is.
Latest(r) ==
  /\ At(r, "latest", "insert")
  /\ snap' = [snap EXCEPT ![r].number = Len(ver) + 1]
  /\ UNCHANGED <<ver, asked>>

New(r) == [prev |-> snap[r].head, by |-> 0, locked |-> FALSE, reconciled |-> FALSE]

\* The number is still free.
Inserts(r) ==
  /\ snap[r].number > Len(ver)
  /\ At(r, "insert", "seal")
  /\ ver' = Append(ver, New(r))
  /\ UNCHANGED <<snap, asked>>

\* DuplicateKeyError: another request took the number.
Collides(r) ==
  /\ snap[r].number <= Len(ver)
  /\ snap[r].tries + 1 < Tries
  /\ At(r, "insert", "latest")
  /\ snap' = [snap EXCEPT ![r].tries = @ + 1]
  /\ UNCHANGED <<ver, asked>>

\* "could not allocate a version number"
GivesUp(r) ==
  /\ snap[r].number <= Len(ver)
  /\ snap[r].tries + 1 = Tries
  /\ At(r, "insert", "idle")
  /\ snap' = [snap EXCEPT ![r] = NoSnap]
  /\ UNCHANGED <<ver, asked>>

\* supersede, written whatever has become of the version meanwhile.
Sealed(n, number) == [ver EXCEPT ![n].by = number, ![n].locked = TRUE]

\* Mutant: the head is looked up again, and is the new version by now.
SealsTheHead(r) ==
  /\ At(r, "seal", "frozen")
  /\ ver' = Sealed(head, snap[r].number)
  /\ UNCHANGED <<snap, asked>>

Seals(r) ==
  /\ At(r, "seal", "frozen")
  /\ ver' = IF snap[r].head = 0 THEN ver ELSE Sealed(snap[r].head, snap[r].number)
  /\ UNCHANGED <<snap, asked>>

Answers(r) ==
  /\ At(r, "frozen", "idle")
  /\ snap' = [snap EXCEPT ![r] = NoSnap]
  /\ UNCHANGED <<ver, asked>>

\* The process dies, or an operation fails: nothing is undone.
Breaks(r) ==
  /\ pc[r] \in Steps
  /\ pc' = [pc EXCEPT ![r] = "idle"]
  /\ snap' = [snap EXCEPT ![r] = NoSnap]
  /\ UNCHANGED <<ver, asked>>

Snapshot(r) ==
  Previous(r) \/ Latest(r) \/ Inserts(r) \/ Collides(r) \/ GivesUp(r) \/ Seals(r)

-----------------------------------------------------------------------------
(* The two other writers of a version.                                     *)

\* record_addendum_diff: of whatever version the job was given.
RecordsDiff(n) ==
  /\ ver' = [ver EXCEPT ![n].reconciled = FALSE]
  /\ UNCHANGED <<pc, snap, asked>>

\* mark_reconciled: the guard on what was read ...
GuardsReconcile(n) ==
  /\ n \in Reviewed \ asked
  /\ ~ver[n].locked
  /\ asked' = asked \cup {n}
  /\ UNCHANGED <<ver, pc, snap>>

\* Mutant: without the condition on lockedAt.
ReconcilesBlindly(n) ==
  /\ n \in asked
  /\ asked' = asked \ {n}
  /\ ver' = [ver EXCEPT ![n].reconciled = TRUE]
  /\ UNCHANGED <<pc, snap>>

\* ... and the write: refused when the version was sealed in between.
Reconciles(n) ==
  /\ n \in asked
  /\ asked' = asked \ {n}
  /\ ver' = IF ver[n].locked THEN ver ELSE [ver EXCEPT ![n].reconciled = TRUE]
  /\ UNCHANGED <<pc, snap>>

VersionsNext ==
  \/ \E r \in Requests : Asks(r) \/ Snapshot(r) \/ Answers(r) \/ Breaks(r)
  \/ \E n \in 1 .. Len(ver) : RecordsDiff(n) \/ GuardsReconcile(n) \/ Reconciles(n)

VersionsSpec == VersionsInit /\ [][VersionsNext]_verVars

-----------------------------------------------------------------------------
(* Properties.                                                             *)

VersionsTypeOK ==
  /\ ver \in Seq(Version)
  /\ snap \in [Requests -> Snap]
  /\ asked \subseteq 1 .. Len(ver)

\* The newest version is never the sealed one: whatever requests overlap or
\* die half way, there is a head for the next addendum to follow, and it is
\* the last version frozen (snapshot.py:50-53, 101-107).
NewestIsOpen == ver # <<>> => Len(ver) \in Open /\ ~ver[Len(ver)].locked

\* A sealed version names a later version that exists and that names it as
\* its predecessor: the chain can be walked both ways from any sealed link,
\* also when two requests followed the same head and sealed it twice, or one
\* died between the insert and the seal (snapshot.py:101-107).
SealedBySuccessor ==
  \A n \in 1 .. Len(ver) :
    /\ ver[n].prev < n
    /\ ver[n].locked <=> ver[n].by # 0
    /\ ver[n].locked => /\ ver[n].by \in n + 1 .. Len(ver)
                        /\ ver[ver[n].by].prev = n

\* No version becomes reconciled once it is sealed, though the seal may fall
\* between mark_reconciled's guard and its write (MarkReconciled.py:27-41).
ReconcileRespectsSeal ==
  [][\A n \in 1 .. Len(ver) :
       ver[n].locked /\ ver'[n].reconciled => ver[n].reconciled]_ver

=============================================================================
