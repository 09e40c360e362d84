--------------------------- MODULE VersionsProofs ---------------------------
(***************************************************************************)
(* The chain of a bid's versions holds together for any number of          *)
(* requests that run snapshot() side by side or die half way.              *)
(*                                                                         *)
(* Neither property is inductive: that a seal names a version that names   *)
(* the sealed one back needs what a request has in hand between its steps. *)
(***************************************************************************)
EXTENDS Versions, SequenceTheorems, TLAPS

\* What a request has read of the chain: the head it will follow comes before
\* the number it means to take, and after its insert that number follows it.
Hand(r) ==
  /\ pc[r] = "latest" => snap[r].head <= Len(ver)
  /\ pc[r] = "insert" => /\ snap[r].head < snap[r].number
                         /\ snap[r].number <= Len(ver) + 1
  /\ pc[r] = "seal"   => /\ snap[r].head < snap[r].number
                         /\ snap[r].number <= Len(ver)
                         /\ ver[snap[r].number].prev = snap[r].head

IInv ==
  /\ VersionsTypeOK
  /\ pc \in [Requests -> {"idle"} \cup Steps]
  /\ NewestIsOpen
  /\ SealedBySuccessor
  /\ \A r \in Requests : Hand(r)

-----------------------------------------------------------------------------

\* While the newest version is open it is the head.
LEMMA HeadIsNewest ==
  ASSUME ver \in Seq(Version), NewestIsOpen
  PROVE  head = Len(ver)
<1>1. Len(ver) \in Nat
  OBVIOUS
<1>2. CASE ver = <<>>
  BY <1>2 DEF head, Open
<1>3. CASE ver # <<>>
  <2>1. Len(ver) \in Open /\ \A m \in Open : m \in 1 .. Len(ver)
    BY <1>3 DEF NewestIsOpen, Open
  <2>2. \A n \in Open : (\A m \in Open : m <= n) => n = Len(ver)
    BY <1>1, <2>1
  <2>3. head = CHOOSE n \in Open : \A m \in Open : m <= n
    BY <2>1 DEF head
  <2>4. \E n \in Open : \A m \in Open : m <= n
    BY <1>1, <2>1
  <2> QED
    BY <2>2, <2>3, <2>4
<1> QED
  BY <1>2, <1>3

\* Steps that only move a request, and leave every version as it is.
LEMMA ChainUnchanged ==
  ASSUME NewestIsOpen, SealedBySuccessor, ver' = ver
  PROVE  NewestIsOpen' /\ SealedBySuccessor'
BY DEF NewestIsOpen, SealedBySuccessor, Open

LEMMA InitIInv == VersionsInit => IInv
BY DEF VersionsInit, IInv, VersionsTypeOK, NewestIsOpen, SealedBySuccessor, Hand, NoSnap, Snap,
       Steps, Open

\* A step that moves one request and leaves every version as it is keeps the
\* chain; what is left to show is what that request has in hand.
LEMMA RequestMoves ==
  ASSUME IInv, NEW r \in Requests, NEW there \in {"idle"} \cup Steps, NEW s \in Snap,
         ver' = ver, asked' = asked,
         pc' = [pc EXCEPT ![r] = there], snap' = [snap EXCEPT ![r] = s],
         there = "latest" => s.head <= Len(ver),
         there = "insert" => s.head < s.number /\ s.number <= Len(ver) + 1,
         there # "seal"
  PROVE  IInv'
<1>1. VersionsTypeOK'
  BY DEF IInv, VersionsTypeOK
<1>2. NewestIsOpen' /\ SealedBySuccessor'
  BY ChainUnchanged DEF IInv
<1>3. pc' \in [Requests -> {"idle"} \cup Steps]
  BY DEF IInv
<1>4. ASSUME NEW q \in Requests PROVE Hand(q)'
  <2>1. CASE q = r
    BY <2>1 DEF IInv, VersionsTypeOK, Hand
  <2>2. CASE q # r
    BY <2>2 DEF IInv, VersionsTypeOK, Hand
  <2> QED
    BY <2>1, <2>2
<1> QED
  BY <1>1, <1>2, <1>3, <1>4 DEF IInv

\* A step that writes one version, neither its predecessor nor its seal, and
\* moves no request.
LEMMA Annotates ==
  ASSUME IInv, NEW n \in 1 .. Len(ver), NEW value \in BOOLEAN,
         ver' = [ver EXCEPT ![n].reconciled = value],
         pc' = pc, snap' = snap, asked' \subseteq asked
  PROVE  IInv'
<1>1. /\ ver' \in Seq(Version) /\ Len(ver') = Len(ver)
      /\ \A m \in 1 .. Len(ver) : /\ ver'[m].prev = ver[m].prev
                                  /\ ver'[m].by = ver[m].by
                                  /\ ver'[m].locked = ver[m].locked
  <2>1. ver \in Seq(Version) /\ ver[n] \in Version
    BY DEF IInv, VersionsTypeOK
  <2>2. [ver[n] EXCEPT !.reconciled = value] \in Version
    BY <2>1 DEF Version
  <2> QED
    BY <2>1, <2>2 DEF Version
<1>2. VersionsTypeOK'
  BY <1>1 DEF IInv, VersionsTypeOK
<1>3. NewestIsOpen'
  BY <1>1 DEF IInv, VersionsTypeOK, NewestIsOpen, Open
<1>5. SealedBySuccessor'
  <2> SUFFICES ASSUME NEW m \in 1 .. Len(ver)
               PROVE  /\ ver[m].prev < m
                      /\ ver[m].locked <=> ver[m].by # 0
                      /\ ver[m].locked => /\ ver[m].by \in m + 1 .. Len(ver)
                                          /\ ver'[ver[m].by].prev = m
    BY <1>1 DEF SealedBySuccessor
  <2>1. ver[m].by \in m + 1 .. Len(ver) => ver[m].by \in 1 .. Len(ver)
    BY DEF IInv, VersionsTypeOK
  <2> QED
    BY <1>1, <2>1 DEF IInv, SealedBySuccessor
<1>4. \A q \in Requests : Hand(q)'
  BY <1>1 DEF IInv, VersionsTypeOK, Hand, Snap
<1> QED
  BY <1>2, <1>3, <1>4, <1>5 DEF IInv

-----------------------------------------------------------------------------
(* The steps of snapshot().                                                *)

LEMMA AsksInv ==
  ASSUME IInv, NEW r \in Requests, Asks(r)
  PROVE  IInv'
<1>1. snap[r] \in Snap /\ snap' = [snap EXCEPT ![r] = snap[r]]
  BY DEF Asks, IInv, VersionsTypeOK
<1>2. /\ ver' = ver /\ asked' = asked /\ "find" \in Steps
      /\ pc' = [pc EXCEPT ![r] = "find"]
  BY DEF Asks, At, Steps
<1> QED
  BY <1>1, <1>2, RequestMoves

LEMMA PreviousInv ==
  ASSUME IInv, NEW r \in Requests, Previous(r)
  PROVE  IInv'
<1>1. head = Len(ver) /\ Len(ver) \in Nat
  BY HeadIsNewest DEF IInv, VersionsTypeOK
<1>2. DEFINE s == [NoSnap EXCEPT !.head = head]
<1>3. s \in Snap /\ s.head = Len(ver)
  BY <1>1 DEF NoSnap, Snap
<1>4. /\ ver' = ver /\ asked' = asked /\ "latest" \in Steps
      /\ pc' = [pc EXCEPT ![r] = "latest"] /\ snap' = [snap EXCEPT ![r] = s]
  BY DEF Previous, At, Steps
<1>5. s.head <= Len(ver)
  BY <1>1, <1>3
<1> HIDE DEF s
<1> QED
  BY <1>3, <1>4, <1>5, RequestMoves

LEMMA LatestInv ==
  ASSUME IInv, NEW r \in Requests, Latest(r)
  PROVE  IInv'
<1>1. DEFINE s == [snap[r] EXCEPT !.number = Len(ver) + 1]
<1>2. s \in Snap /\ s.head < s.number /\ s.number <= Len(ver) + 1
  BY DEF Latest, At, IInv, VersionsTypeOK, Snap, Hand
<1>3. /\ ver' = ver /\ asked' = asked /\ "insert" \in Steps
      /\ pc' = [pc EXCEPT ![r] = "insert"]
  BY DEF Latest, At, Steps
<1>4. snap' = [snap EXCEPT ![r] = s]
  BY DEF Latest, IInv, VersionsTypeOK
<1> QED
  BY <1>2, <1>3, <1>4, RequestMoves

LEMMA CollidesInv ==
  ASSUME IInv, NEW r \in Requests, Collides(r)
  PROVE  IInv'
<1>1. DEFINE s == [snap[r] EXCEPT !.tries = @ + 1]
<1>2. s \in Snap /\ s.head <= Len(ver)
  BY DEF Collides, At, IInv, VersionsTypeOK, Snap, Hand
<1>3. /\ ver' = ver /\ asked' = asked /\ "latest" \in Steps
      /\ pc' = [pc EXCEPT ![r] = "latest"]
  BY DEF Collides, At, Steps
<1>4. snap' = [snap EXCEPT ![r] = s]
  BY DEF Collides, IInv, VersionsTypeOK
<1> QED
  BY <1>2, <1>3, <1>4, RequestMoves

\* A request that is answered, gives up or dies has nothing in hand.
LEMMA LeavesInv ==
  ASSUME IInv, NEW r \in Requests, GivesUp(r) \/ Answers(r) \/ Breaks(r)
  PROVE  IInv'
<1>1. /\ ver' = ver /\ asked' = asked
      /\ pc' = [pc EXCEPT ![r] = "idle"] /\ snap' = [snap EXCEPT ![r] = NoSnap]
  BY DEF GivesUp, Answers, Breaks, At
<1>2. NoSnap \in Snap
  BY DEF NoSnap, Snap
<1> QED
  BY <1>1, <1>2, RequestMoves

\* The new version takes the number that was read and follows the head that
\* was read; both are still in order, whoever else inserted meanwhile.
LEMMA InsertsInv ==
  ASSUME IInv, NEW r \in Requests, Inserts(r)
  PROVE  IInv'
<1> DEFINE N == Len(ver)
<1>1. /\ ver \in Seq(Version) /\ N \in Nat /\ snap[r] \in Snap
      /\ \A n \in 1 .. N : ver[n] \in Version
  BY DEF IInv, VersionsTypeOK
<1>2. snap[r].number = N + 1 /\ snap[r].head < N + 1 /\ snap[r].head \in Nat
  BY <1>1 DEF Inserts, At, IInv, Hand, Snap
<1>3. New(r) \in Version
  BY <1>2 DEF New, Version
<1>4. /\ ver' = Append(ver, New(r)) /\ snap' = snap /\ asked' = asked
      /\ pc' = [pc EXCEPT ![r] = "seal"]
  BY DEF Inserts, At
<1>5. /\ ver' \in Seq(Version) /\ Len(ver') = N + 1
      /\ \A n \in 1 .. N : ver'[n] = ver[n]
      /\ ver'[N + 1] = New(r)
  BY <1>1, <1>3, <1>4
<1>6. VersionsTypeOK'
  BY <1>1, <1>4, <1>5 DEF IInv, VersionsTypeOK
<1>7. NewestIsOpen'
  BY <1>1, <1>5 DEF NewestIsOpen, Open, New
<1>8. SealedBySuccessor'
  <2> SUFFICES ASSUME NEW n \in 1 .. N + 1
               PROVE  /\ ver'[n].prev < n
                      /\ ver'[n].locked <=> ver'[n].by # 0
                      /\ ver'[n].locked => /\ ver'[n].by \in n + 1 .. N + 1
                                           /\ ver'[ver'[n].by].prev = n
    BY <1>5 DEF SealedBySuccessor
  <2>1. CASE n = N + 1
    BY <2>1, <1>2, <1>5 DEF New
  <2>2. CASE n \in 1 .. N
    BY <2>2, <1>1, <1>5 DEF IInv, SealedBySuccessor
  <2> QED
    BY <2>1, <2>2, <1>1
<1>9. ASSUME NEW q \in Requests PROVE Hand(q)'
  <2>1. CASE q = r
    BY <2>1, <1>1, <1>2, <1>4, <1>5 DEF IInv, Hand, New
  <2>2. CASE q # r
    BY <2>2, <1>1, <1>4, <1>5 DEF IInv, VersionsTypeOK, Hand, Snap
  <2> QED
    BY <2>1, <2>2
<1>10. pc' \in [Requests -> {"idle"} \cup Steps]
  BY <1>4 DEF IInv, Steps
<1> QED
  BY <1>6, <1>7, <1>8, <1>9, <1>10 DEF IInv

\* The seal names a version that is there and that names the sealed one, and
\* never falls on the newest, which has a higher number than any head read
\* before its insert.
LEMMA SealsInv ==
  ASSUME IInv, NEW r \in Requests, Seals(r)
  PROVE  IInv'
<1> DEFINE N == Len(ver)
           h == snap[r].head
           k == snap[r].number
<1>1. /\ ver \in Seq(Version) /\ N \in Nat /\ h \in Nat /\ k \in Nat
      /\ \A n \in 1 .. N : ver[n] \in Version
  BY DEF IInv, VersionsTypeOK, Snap
<1>2. h < k /\ k <= N /\ ver[k].prev = h
  BY DEF Seals, At, IInv, Hand
<1>3. snap' = snap /\ asked' = asked /\ pc' = [pc EXCEPT ![r] = "frozen"]
  BY DEF Seals, At
<1>4. pc' \in [Requests -> {"idle"} \cup Steps]
  BY <1>3 DEF IInv, Steps
<1>5. /\ ver' \in Seq(Version) /\ Len(ver') = N
      /\ \A n \in 1 .. N : n # h => ver'[n] = ver[n]
      /\ h # 0 => /\ ver'[h].prev = ver[h].prev
                  /\ ver'[h].by = k /\ ver'[h].locked
  <2>1. CASE h = 0
    BY <2>1, <1>1 DEF Seals
  <2>2. CASE h # 0
    <3>1. h \in 1 .. N /\ ver[h] \in Version
      BY <2>2, <1>1, <1>2
    <3>2. ver' = [ver EXCEPT ![h] = [@ EXCEPT !.by = k, !.locked = TRUE]]
      BY <2>2, <3>1, <1>1 DEF Seals, Sealed, Version
    <3>3. [ver[h] EXCEPT !.by = k, !.locked = TRUE] \in Version
      BY <3>1, <1>1 DEF Version
    <3> QED
      BY <1>1, <3>1, <3>2, <3>3 DEF Version
  <2> QED
    BY <2>1, <2>2
<1>6. VersionsTypeOK'
  BY <1>3, <1>5 DEF IInv, VersionsTypeOK
<1>7. NewestIsOpen'
  BY <1>1, <1>2, <1>5 DEF IInv, NewestIsOpen, Open
<1>8. \A n \in 1 .. N : ver'[n].prev = ver[n].prev
  BY <1>1, <1>5
<1>9. SealedBySuccessor'
  <2> SUFFICES ASSUME NEW n \in 1 .. N
               PROVE  /\ ver'[n].prev < n
                      /\ ver'[n].locked <=> ver'[n].by # 0
                      /\ ver'[n].locked => /\ ver'[n].by \in n + 1 .. N
                                           /\ ver'[ver'[n].by].prev = n
    BY <1>5 DEF SealedBySuccessor
  <2>1. CASE n = h
    BY <2>1, <1>1, <1>2, <1>5, <1>8 DEF IInv, SealedBySuccessor
  <2>2. CASE n # h
    BY <2>2, <1>1, <1>5, <1>8 DEF IInv, SealedBySuccessor
  <2> QED
    BY <2>1, <2>2
<1>10. ASSUME NEW q \in Requests PROVE Hand(q)'
  <2>1. CASE q = r
    BY <2>1, <1>1, <1>3, <1>5 DEF IInv, Hand, Steps
  <2>2. CASE q # r
    BY <2>2, <1>1, <1>3, <1>5, <1>8 DEF IInv, VersionsTypeOK, Hand, Snap
  <2> QED
    BY <2>1, <2>2
<1> QED
  BY <1>4, <1>6, <1>7, <1>9, <1>10 DEF IInv

-----------------------------------------------------------------------------
(* The other two writers.                                                  *)

LEMMA AnnotatesInv ==
  ASSUME IInv, NEW n \in 1 .. Len(ver),
         RecordsDiff(n) \/ Reconciles(n) \/ GuardsReconcile(n)
  PROVE  IInv'
<1>1. CASE RecordsDiff(n)
  BY <1>1, Annotates DEF RecordsDiff
<1>2. CASE Reconciles(n) /\ ~ver[n].locked
  BY <1>2, Annotates DEF Reconciles
<1>3. CASE UNCHANGED <<ver, pc, snap>> /\ asked' \subseteq 1 .. Len(ver)
  <2>1. VersionsTypeOK' /\ \A q \in Requests : Hand(q)'
    BY <1>3 DEF IInv, VersionsTypeOK, Hand
  <2> QED
    BY <1>3, <2>1, ChainUnchanged DEF IInv
<1>4. GuardsReconcile(n) => asked' \subseteq 1 .. Len(ver)
  BY DEF GuardsReconcile, IInv, VersionsTypeOK
<1>5. Reconciles(n) /\ ver[n].locked => asked' \subseteq 1 .. Len(ver)
  BY DEF Reconciles, IInv, VersionsTypeOK
<1> QED
  BY <1>1, <1>2, <1>3, <1>4, <1>5 DEF GuardsReconcile, Reconciles

LEMMA StepInv == IInv /\ [VersionsNext]_verVars => IInv'
<1> SUFFICES ASSUME IInv, [VersionsNext]_verVars
             PROVE  IInv'
  OBVIOUS
<1>1. CASE UNCHANGED verVars
  <2>1. VersionsTypeOK' /\ \A q \in Requests : Hand(q)'
    BY <1>1 DEF verVars, IInv, VersionsTypeOK, Hand
  <2> QED
    BY <1>1, <2>1, ChainUnchanged DEF verVars, IInv
<1>2. ASSUME NEW r \in Requests, Asks(r) \/ Snapshot(r) \/ Answers(r) \/ Breaks(r)
      PROVE  IInv'
  BY <1>2, AsksInv, PreviousInv, LatestInv, CollidesInv, LeavesInv, InsertsInv, SealsInv
     DEF Snapshot
<1>3. ASSUME NEW n \in 1 .. Len(ver), RecordsDiff(n) \/ GuardsReconcile(n) \/ Reconciles(n)
      PROVE  IInv'
  BY <1>3, AnnotatesInv
<1> QED
  BY <1>1, <1>2, <1>3 DEF VersionsNext

LEMMA ChainInvariant == VersionsSpec => []IInv
  BY InitIInv, StepInv, PTL DEF VersionsSpec

-----------------------------------------------------------------------------

\* The versions and the requests' hands keep their types.
THEOREM VersionsTypeCorrect == VersionsSpec => []VersionsTypeOK
<1>1. IInv => VersionsTypeOK
  BY DEF IInv
<1> QED
  BY <1>1, ChainInvariant, PTL

\* Of any number of overlapping or broken snapshots, none seals the newest
\* version (snapshot.py:50-53, 101-107).
THEOREM NewestStaysOpen == VersionsSpec => []NewestIsOpen
<1>1. IInv => NewestIsOpen
  BY DEF IInv
<1> QED
  BY <1>1, ChainInvariant, PTL

\* Every sealed version names a later one that names it back
\* (snapshot.py:101-107).
THEOREM SealsNameSuccessors == VersionsSpec => []SealedBySuccessor
<1>1. IInv => SealedBySuccessor
  BY DEF IInv
<1> QED
  BY <1>1, ChainInvariant, PTL

\* No step reconciles a sealed version (MarkReconciled.py:25-41).
THEOREM SealStopsReconciling == VersionsSpec => ReconcileRespectsSeal
<1> DEFINE Respects == \A n \in 1 .. Len(ver) :
                         ver[n].locked /\ ver'[n].reconciled => ver[n].reconciled
<1>1. ASSUME IInv, [VersionsNext]_verVars
      PROVE  [Respects]_ver
  <2>1. ver \in Seq(Version) /\ Len(ver) \in Nat
    BY <1>1 DEF IInv, VersionsTypeOK
  <2>2. CASE ver' = ver
    BY <2>2
  <2>3. ASSUME NEW r \in Requests, Inserts(r)
        PROVE  Respects
    BY <2>1, <2>3 DEF Inserts
  <2>4. ASSUME NEW r \in Requests, Seals(r)
        PROVE  Respects
    <3>1. ver' = ver \/ ver' = Sealed(snap[r].head, snap[r].number)
      BY <2>4 DEF Seals
    <3>2. ASSUME NEW n \in 1 .. Len(ver), ver' = Sealed(snap[r].head, snap[r].number)
          PROVE  ver'[n].reconciled = ver[n].reconciled
      <4>1. ver[n] \in Version /\ DOMAIN ver = 1 .. Len(ver)
        BY <2>1
      <4>2. \/ ver'[n] = ver[n]
            \/ ver'[n] = [ver[n] EXCEPT !.by = snap[r].number, !.locked = TRUE]
        BY <3>2, <4>1 DEF Sealed
      <4> QED
        BY <4>1, <4>2 DEF Version
    <3> QED
      BY <3>1, <3>2
  <2>5. ASSUME NEW n \in 1 .. Len(ver), RecordsDiff(n) \/ Reconciles(n)
        PROVE  Respects
    <3> SUFFICES ASSUME NEW m \in 1 .. Len(ver), ver[m].locked, ver'[m].reconciled
                 PROVE  ver[m].reconciled
      OBVIOUS
    <3>1. ver[m] \in Version /\ DOMAIN ver = 1 .. Len(ver)
      BY <2>1
    <3>2. CASE RecordsDiff(n)
      <4>1. ver'[m] = IF m = n THEN [ver[m] EXCEPT !.reconciled = FALSE] ELSE ver[m]
        BY <3>1, <3>2 DEF RecordsDiff
      <4> QED
        BY <3>1, <4>1 DEF Version
    <3>3. CASE Reconciles(n)
      <4>1. m = n => ver'[m] = ver[m]
        BY <3>3 DEF Reconciles
      <4>2. m # n => ver'[m] = ver[m]
        BY <3>1, <3>3 DEF Reconciles
      <4> QED
        BY <4>1, <4>2
    <3> QED
      BY <2>5, <3>2, <3>3
  <2> QED
    BY <1>1, <2>2, <2>3, <2>4, <2>5
       DEF VersionsNext, Snapshot, Asks, Previous, Latest, Collides, GivesUp, Answers, Breaks,
           GuardsReconcile, verVars
<1> QED
  BY <1>1, ChainInvariant, PTL DEF VersionsSpec, ReconcileRespectsSeal

=============================================================================
