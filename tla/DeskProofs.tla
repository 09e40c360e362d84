------------------------------ MODULE DeskProofs ------------------------------
(***************************************************************************)
(* Proofs about the parts of Desk: Workspace, PriceBooks, Openings,        *)
(* Takeoff and Terminal, each from its own specification.                  *)
(***************************************************************************)
EXTENDS Desk, FiniteSetTheorems, SequenceTheorems, WellFoundedInduction, TLAPS

-----------------------------------------------------------------------------
(* Workspace.                                                              *)

NothingText == [f \in Files |-> W!Absent]

WorkspaceActions ==
  \/ \E r \in W!Runs : \/ W!Claim(r) \/ W!prepare(r) \/ W!PrepareFails(r)
                       \/ W!Succeeds(r) \/ W!Fails(r) \/ W!Discards(r)
                       \/ W!promote(r) \/ W!cleanup(r) \/ W!Syncs(r) \/ W!Crash(r)
  \/ \E r \in W!Runs, f \in Files : W!Writes(r, f) \/ W!Copies(r, f)
  \/ W!Reap \/ W!Export

\* What a claim finds in its scratch: what it wrote, and what it cloned else.
Own(r, f) == IF wrote[r][f] = W!Absent THEN base[r][f] ELSE wrote[r][f]

\* A claim not made yet is idle, and has written nothing before its pass; a
\* pass in the live tree has nothing to promote.
ClaimsOrdered ==
  /\ \A r \in W!Runs :
       /\ r > wJob.run => wPc[r] = "idle"
       /\ wPc[r] \in {"idle", "prepare"} => wrote[r] = NothingText /\ ~onLive[r]
       /\ wPc[r] \in {"promote", "copy"} => ~onLive[r]
  /\ \A fault \in W!Faults : wBudget[fault] <= Disturbances[fault]

\* Without a stall only the claim that holds the lease is at work, so its
\* scratch is its own.
SingleHolder ==
  W!Intact("stall") =>
    \A r \in W!Runs :
      /\ W!Alive(r) => W!HoldsLease(r)
      /\ wPc[r] \in {"work", "promote", "copy"} /\ ~onLive[r]
           => made /\ \A f \in Files : scratch.text[f] = Own(r, f)

\* The files a claim has put, if anywhere, in the live tree.
OnTheWay(r, f) ==
  \/ wPc[r] = "work" /\ onLive[r]
  \/ wPc[r] = "copy" /\ f \notin rest[r]
  \/ wPc[r] = "sync"

\* Nobody else writes to the live tree either: what the claim has written
\* there, or copied there, stands until it is synced.
LiveIsOwn ==
  W!Intact("stall") /\ W!Intact("export") =>
    \A r \in W!Runs, f \in Files :
      OnTheWay(r, f) /\ wrote[r][f] # W!Absent => live.text[f] = wrote[r][f]

WorkspaceInv ==
  W!WorkspaceTypeOK /\ ClaimsOrdered /\ SingleHolder /\ LiveIsOwn /\ W!SyncedIsOwn

LEMMA WorkspaceSteps == W!Next => WorkspaceActions
BY DEF W!Next, W!Steps, WorkspaceActions

\* A fault happens once less often, and the others as often as before.
LEMMA SpentType ==
  ASSUME NEW fault \in W!Faults, wBudget \in [W!Faults -> Nat], W!Spend(fault)
  PROVE  wBudget' \in [W!Faults -> Nat]
BY DEF W!Spend

LEMMA FinishedType ==
  ASSUME W!WorkspaceTypeOK, NEW r \in W!Runs,
         NEW statuses \in SUBSET {"queued", "running", "done", "dead"},
         W!Finished(r, statuses)
  PROVE  wJob' \in [status: {"queued", "running", "done", "dead"}, run: W!Runs \cup {W!NoRun}]
BY DEF W!Finished, W!WorkspaceTypeOK

\* What a pass writes, it writes to the tree it works in.
LEMMA Written ==
  ASSUME NEW r \in W!Runs, NEW f \in Files, W!Writes(r, f)
  PROVE  \E text \in {r} \cup (IF f = Quote THEN {W!Empty} ELSE {}) :
           /\ wrote' = [wrote EXCEPT ![r][f] = text]
           /\ onLive[r] =>
                /\ live' = [text  |-> [live.text EXCEPT ![f] = text],
                            trail |-> live.trail \cup {r}]
                /\ UNCHANGED <<scratch, made>>
           /\ ~onLive[r] =>
                /\ scratch' = [text  |-> [(IF made THEN scratch ELSE W!Bare({})).text
                                           EXCEPT ![f] = text],
                               trail |-> (IF made THEN scratch ELSE W!Bare({})).trail \cup {r}]
                /\ made' = TRUE
                /\ UNCHANGED live
BY DEF W!Writes

LEMMA WorkspaceTypes ==
  W!WorkspaceTypeOK /\ [W!Next]_W!vars => W!WorkspaceTypeOK'
<1> SUFFICES ASSUME W!WorkspaceTypeOK, [W!Next]_W!vars PROVE W!WorkspaceTypeOK'
  OBVIOUS
<1> USE WorkspaceAssumption DEF W!WorkspaceTypeOK, W!Tree
<1>t. /\ W!Given \in W!Text /\ W!Empty \in W!Text /\ W!Absent \in W!Text /\ W!Runs \subseteq W!Text
  BY DEF W!Text
<1>b. W!Bare({}) \in W!Tree /\ W!Bare({}).text \in [Files -> W!Text]
  BY <1>t DEF W!Bare
<1>1. ASSUME NEW r \in W!Runs, W!Claim(r) PROVE W!WorkspaceTypeOK'
  BY <1>1, <1>b DEF W!Claim, W!Goto, W!Points
<1>2. ASSUME NEW r \in W!Runs, W!prepare(r) PROVE W!WorkspaceTypeOK'
  BY <1>2 DEF W!prepare, W!Goto, W!Points
<1>3. ASSUME NEW r \in W!Runs, W!PrepareFails(r) PROVE W!WorkspaceTypeOK'
  BY <1>3, SpentType DEF W!PrepareFails, W!Goto, W!Points, W!Faults
<1>4. ASSUME NEW r \in W!Runs, W!Succeeds(r) \/ W!Fails(r) PROVE W!WorkspaceTypeOK'
  BY <1>4 DEF W!Succeeds, W!Fails, W!Goto, W!Points
<1>5. ASSUME NEW r \in W!Runs, W!Discards(r) PROVE W!WorkspaceTypeOK'
  BY <1>5, <1>b, FinishedType DEF W!Discards, W!Goto, W!Points
<1>6. ASSUME NEW r \in W!Runs, W!promote(r) PROVE W!WorkspaceTypeOK'
  <2>1. wJob' \in [status: {"queued", "running", "done", "dead"}, run: W!Runs \cup {W!NoRun}]
    BY <1>6, FinishedType DEF W!promote
  <2>2. rest' \in [W!Runs -> SUBSET Files] /\ wPc' \in [W!Runs -> W!Points]
    <3>1. rest' = rest \/ rest' = [rest EXCEPT ![r] = Files] \/ rest' = [rest EXCEPT ![r] = {}]
      BY <1>6 DEF W!promote
    <3>2. wPc' = [wPc EXCEPT ![r] = "copy"] \/ wPc' = [wPc EXCEPT ![r] = "gone"]
      BY <1>6 DEF W!promote, W!Goto
    <3>3. Files \in SUBSET Files /\ {} \in SUBSET Files
      OBVIOUS
    <3>4. rest' \in [W!Runs -> SUBSET Files]
      BY <3>1, <3>3
    <3> QED
      BY <3>2, <3>4 DEF W!Points
  <2> QED
    BY <1>6, <2>1, <2>2 DEF W!promote
<1>7. ASSUME NEW r \in W!Runs, NEW f \in Files, W!Copies(r, f) PROVE W!WorkspaceTypeOK'
  BY <1>7 DEF W!Copies, W!_append_new_lines
<1>8. ASSUME NEW r \in W!Runs, W!cleanup(r) PROVE W!WorkspaceTypeOK'
  BY <1>8, <1>b DEF W!cleanup, W!Goto, W!Points
<1>9. ASSUME NEW r \in W!Runs, W!Syncs(r) PROVE W!WorkspaceTypeOK'
  BY <1>9, FinishedType DEF W!Syncs, W!Goto, W!Points
<1>10. ASSUME NEW r \in W!Runs, W!Crash(r) PROVE W!WorkspaceTypeOK'
  BY <1>10, SpentType DEF W!Crash, W!Goto, W!Points, W!Faults
<1>11. ASSUME NEW r \in W!Runs, NEW f \in Files, W!Writes(r, f) PROVE W!WorkspaceTypeOK'
  <2>1. PICK text \in {r} \cup (IF f = Quote THEN {W!Empty} ELSE {}) :
          /\ wrote' = [wrote EXCEPT ![r][f] = text]
          /\ onLive[r] =>
               /\ live' = [text  |-> [live.text EXCEPT ![f] = text],
                           trail |-> live.trail \cup {r}]
               /\ UNCHANGED <<scratch, made>>
          /\ ~onLive[r] =>
               /\ scratch' = [text  |-> [(IF made THEN scratch ELSE W!Bare({})).text
                                          EXCEPT ![f] = text],
                              trail |-> (IF made THEN scratch ELSE W!Bare({})).trail \cup {r}]
               /\ made' = TRUE
               /\ UNCHANGED live
    BY <1>11, Written, ZenonT(60)
  <2>2. text \in W!Text
    BY <1>t
  <2>3. wrote' \in [W!Runs -> [Files -> W!Text]]
    BY <2>1, <2>2
  <2>4. \A tree \in W!Tree :
          [text |-> [tree.text EXCEPT ![f] = text], trail |-> tree.trail \cup {r}] \in W!Tree
    BY <2>2 DEF W!Tree
  <2>5. live' \in W!Tree /\ scratch' \in W!Tree /\ made' \in BOOLEAN
    <3>1. CASE onLive[r]
      BY <2>1, <2>4, <3>1
    <3>2. CASE ~onLive[r] /\ made
      BY <2>1, <2>4, <3>2
    <3>3. CASE ~onLive[r] /\ ~made
      BY <2>1, <2>4, <1>b, <3>3
    <3> QED
      BY <3>1, <3>2, <3>3
  <2> QED
    BY <1>11, <2>3, <2>5 DEF W!Writes
<1>12. ASSUME W!Reap PROVE W!WorkspaceTypeOK'
  BY <1>12, SpentType DEF W!Reap, W!Faults
<1>13. ASSUME W!Export PROVE W!WorkspaceTypeOK'
  BY <1>13, <1>t, SpentType DEF W!Export, W!Faults
<1>14. ASSUME UNCHANGED W!vars PROVE W!WorkspaceTypeOK'
  BY <1>14 DEF W!vars
<1> QED
  BY <1>1, <1>2, <1>3, <1>4, <1>5, <1>6, <1>7, <1>8, <1>9, <1>10, <1>11, <1>12, <1>13, <1>14,
     WorkspaceSteps DEF WorkspaceActions

LEMMA WorkspaceInit == W!Init => W!WorkspaceTypeOK
<1> SUFFICES ASSUME W!Init PROVE W!WorkspaceTypeOK
  OBVIOUS
<1>1. W!Bare({}) \in W!Tree /\ W!Bare({}).text \in [Files -> W!Text]
  BY DEF W!Bare, W!Tree, W!Text
<1>2. live \in W!Tree /\ synced \in [Files -> W!Text]
  BY DEF W!Init, W!Tree, W!Text
<1>3. wrote \in [W!Runs -> [Files -> W!Text]]
  BY DEF W!Init, W!Text
<1> QED
  BY <1>1, <1>2, <1>3, WorkspaceAssumption DEF W!Init, W!WorkspaceTypeOK, W!Points, W!NoRun

LEMMA OrderedKept ==
  ASSUME W!WorkspaceTypeOK, ClaimsOrdered, [W!Next]_W!vars
  PROVE  ClaimsOrdered'
<1> USE WorkspaceAssumption DEF W!WorkspaceTypeOK, ClaimsOrdered, W!Runs, W!NoRun, NothingText, W!Alive
<1>1. ASSUME NEW r \in W!Runs, W!Claim(r) PROVE ClaimsOrdered'
  <2>1. r > wJob.run /\ wPc[r] = "idle" /\ wJob'.run = r
    BY <1>1 DEF W!Claim
  <2>2. /\ wPc' = [wPc EXCEPT ![r] = "prepare"]
        /\ \A q \in W!Runs : wPc[q] # "gone" => wrote'[q] = wrote[q]
        /\ \A q \in W!Runs : onLive'[q] => onLive[q]
        /\ wBudget' = wBudget
    BY <1>1 DEF W!Claim, W!Goto
  <2>3. ASSUME NEW q \in W!Runs, q > wJob'.run PROVE wPc'[q] = "idle"
    BY <2>1, <2>2, <2>3, <1>1 DEF W!Claim
  <2> QED
    BY <2>1, <2>2, <2>3
<1>2. ASSUME NEW r \in W!Runs, W!prepare(r) PROVE ClaimsOrdered'
  BY <1>2 DEF W!prepare, W!Goto
<1>3. ASSUME NEW r \in W!Runs, W!PrepareFails(r) PROVE ClaimsOrdered'
  BY <1>3 DEF W!PrepareFails, W!Goto, W!Spend
<1>4. ASSUME NEW r \in W!Runs, W!Succeeds(r) PROVE ClaimsOrdered'
  BY <1>4 DEF W!Succeeds, W!Goto
<1>5. ASSUME NEW r \in W!Runs, W!Fails(r) PROVE ClaimsOrdered'
  BY <1>5 DEF W!Fails, W!Goto
<1>6. ASSUME NEW r \in W!Runs, W!Discards(r) PROVE ClaimsOrdered'
  BY <1>6 DEF W!Discards, W!Finished, W!Goto
<1>7. ASSUME NEW r \in W!Runs, W!promote(r) PROVE ClaimsOrdered'
  BY <1>7 DEF W!promote, W!Finished, W!Goto
<1>8. ASSUME NEW r \in W!Runs, W!cleanup(r) PROVE ClaimsOrdered'
  BY <1>8 DEF W!cleanup, W!Goto
<1>9. ASSUME NEW r \in W!Runs, W!Syncs(r) PROVE ClaimsOrdered'
  BY <1>9 DEF W!Syncs, W!Finished, W!Goto
<1>10. ASSUME NEW r \in W!Runs, W!Crash(r) PROVE ClaimsOrdered'
  BY <1>10 DEF W!Crash, W!Goto, W!Spend
<1>11. ASSUME NEW r \in W!Runs, NEW f \in Files, W!Writes(r, f) PROVE ClaimsOrdered'
  BY <1>11 DEF W!Writes
<1>12. ASSUME NEW r \in W!Runs, NEW f \in Files, W!Copies(r, f) PROVE ClaimsOrdered'
  BY <1>12 DEF W!Copies
<1>13. ASSUME W!Reap PROVE ClaimsOrdered'
  <2>1. wJob'.run = wJob.run /\ UNCHANGED <<wPc, wrote, onLive>>
    BY <1>13 DEF W!Reap
  <2>2. \A fault \in W!Faults : wBudget'[fault] <= wBudget[fault]
    BY <1>13 DEF W!Reap, W!Spend, W!Faults
  <2>3. wBudget' \in [W!Faults -> Nat]
    BY WorkspaceTypes
  <2> QED
    BY <2>1, <2>2, <2>3 DEF W!Faults
<1>14. ASSUME W!Export PROVE ClaimsOrdered'
  BY <1>14 DEF W!Export, W!Spend
<1>15. ASSUME UNCHANGED W!vars PROVE ClaimsOrdered'
  BY <1>15 DEF W!vars
<1> QED
  BY <1>1, <1>2, <1>3, <1>4, <1>5, <1>6, <1>7, <1>8, <1>9, <1>10, <1>11, <1>12, <1>13, <1>14, <1>15,
     WorkspaceSteps DEF WorkspaceActions

LEMMA SingleKept ==
  ASSUME W!WorkspaceTypeOK, ClaimsOrdered, SingleHolder, [W!Next]_W!vars
  PROVE  SingleHolder'
<1> USE WorkspaceAssumption DEF W!WorkspaceTypeOK, ClaimsOrdered, SingleHolder, W!Alive, W!HoldsLease, W!Intact, Own, NothingText, W!Tree, W!Faults
<1>1. ASSUME NEW r \in W!Runs, W!Claim(r) PROVE SingleHolder'
  BY <1>1 DEF W!Claim, W!Goto, W!Bare
<1>2. ASSUME NEW r \in W!Runs, W!prepare(r) PROVE SingleHolder'
  <2>1. wrote[r] = NothingText /\ ~onLive[r] /\ W!Alive(r)
    BY <1>2 DEF W!prepare
  <2>2. \A f \in Files : scratch'.text[f] = Own(r, f)'
    BY <1>2, <2>1 DEF W!prepare
  <2>3. ASSUME W!Intact("stall"), NEW q \in W!Runs, q # r PROVE ~W!Alive(q)
    BY <2>1, <2>3
  <2> QED
    BY <1>2, <2>1, <2>2, <2>3 DEF W!prepare, W!Goto
<1>3. ASSUME NEW r \in W!Runs, W!PrepareFails(r) PROVE SingleHolder'
  BY <1>3 DEF W!PrepareFails, W!Goto, W!Spend
<1>4. ASSUME NEW r \in W!Runs, W!Succeeds(r) PROVE SingleHolder'
  BY <1>4 DEF W!Succeeds, W!Goto
<1>5. ASSUME NEW r \in W!Runs, W!Fails(r) PROVE SingleHolder'
  BY <1>5 DEF W!Fails, W!Goto
<1>6. ASSUME NEW r \in W!Runs, W!Discards(r) PROVE SingleHolder'
  BY <1>6 DEF W!Discards, W!Finished, W!Goto
<1>7. ASSUME NEW r \in W!Runs, W!promote(r) PROVE SingleHolder'
  BY <1>7 DEF W!promote, W!Finished, W!Goto
<1>8. ASSUME NEW r \in W!Runs, W!cleanup(r) PROVE SingleHolder'
  BY <1>8 DEF W!cleanup, W!Goto
<1>9. ASSUME NEW r \in W!Runs, W!Syncs(r) PROVE SingleHolder'
  BY <1>9 DEF W!Syncs, W!Finished, W!Goto
<1>10. ASSUME NEW r \in W!Runs, W!Crash(r) PROVE SingleHolder'
  BY <1>10 DEF W!Crash, W!Goto, W!Spend
<1>11. ASSUME NEW r \in W!Runs, NEW f \in Files, W!Writes(r, f) PROVE SingleHolder'
  <2>1. PICK text \in {r} \cup (IF f = Quote THEN {W!Empty} ELSE {}) :
          /\ wrote' = [wrote EXCEPT ![r][f] = text]
          /\ onLive[r] =>
               /\ live' = [text  |-> [live.text EXCEPT ![f] = text],
                           trail |-> live.trail \cup {r}]
               /\ UNCHANGED <<scratch, made>>
          /\ ~onLive[r] =>
               /\ scratch' = [text  |-> [(IF made THEN scratch ELSE W!Bare({})).text
                                          EXCEPT ![f] = text],
                              trail |-> (IF made THEN scratch ELSE W!Bare({})).trail \cup {r}]
               /\ made' = TRUE
               /\ UNCHANGED live
    BY <1>11, Written, ZenonT(20)
  <2>2. text # W!Absent /\ wPc[r] = "work"
    BY <1>11 DEF W!Writes, W!Runs, W!Absent, W!Empty
  <2>3. UNCHANGED <<wJob, wPc, base, onLive, wBudget>>
    BY <1>11 DEF W!Writes
  <2>4. ASSUME W!Intact("stall"), NEW q \in W!Runs, q # r PROVE ~W!Alive(q)
    BY <2>2, <2>4
  <2>5. ASSUME W!Intact("stall"), ~onLive[r]
        PROVE  made' /\ \A g \in Files : scratch'.text[g] = Own(r, g)'
    BY <2>1, <2>2, <2>3, <2>5
  <2> QED
    BY <2>2, <2>3, <2>4, <2>5
<1>12. ASSUME NEW r \in W!Runs, NEW f \in Files, W!Copies(r, f) PROVE SingleHolder'
  BY <1>12 DEF W!Copies
<1>13. ASSUME W!Reap PROVE SingleHolder'
  BY <1>13 DEF W!Reap, W!Spend
<1>14. ASSUME W!Export PROVE SingleHolder'
  BY <1>14 DEF W!Export, W!Spend
<1>15. ASSUME UNCHANGED W!vars PROVE SingleHolder'
  BY <1>15 DEF W!vars
<1> QED
  BY <1>1, <1>2, <1>3, <1>4, <1>5, <1>6, <1>7, <1>8, <1>9, <1>10, <1>11, <1>12, <1>13, <1>14, <1>15,
     WorkspaceSteps DEF WorkspaceActions

\* What is intact after a step was intact before it.
LEMMA IntactBefore ==
  ASSUME W!WorkspaceTypeOK, ClaimsOrdered, [W!Next]_W!vars,
         NEW fault \in W!Faults, W!Intact(fault)'
  PROVE  W!Intact(fault) /\ wBudget'[fault] = wBudget[fault]
<1>1. wBudget'[fault] <= wBudget[fault]
  <2> USE DEF W!WorkspaceTypeOK, W!Faults
  <2>1. ASSUME NEW spent \in W!Faults, W!Spend(spent) PROVE wBudget'[fault] <= wBudget[fault]
    BY <2>1 DEF W!Spend
  <2>2. UNCHANGED wBudget \/ \E spent \in W!Faults : W!Spend(spent)
    BY WorkspaceSteps
       DEF WorkspaceActions, W!vars, W!Claim, W!prepare, W!PrepareFails, W!Succeeds, W!Fails,
           W!Discards, W!promote, W!cleanup, W!Syncs, W!Crash, W!Writes, W!Copies, W!Reap,
           W!Export
  <2> QED
    BY <2>1, <2>2
<1>2. wBudget' \in [W!Faults -> Nat] /\ wBudget \in [W!Faults -> Nat]
  BY WorkspaceTypes DEF W!WorkspaceTypeOK
<1> QED
  BY <1>1, <1>2, WorkspaceAssumption DEF W!Intact, ClaimsOrdered

LEMMA LiveKept ==
  ASSUME W!WorkspaceTypeOK, ClaimsOrdered, SingleHolder, LiveIsOwn, [W!Next]_W!vars
  PROVE  LiveIsOwn'
<1> SUFFICES ASSUME W!Intact("stall")', W!Intact("export")',
                    NEW q \in W!Runs, NEW g \in Files,
                    OnTheWay(q, g)', wrote'[q][g] # W!Absent
             PROVE  live'.text[g] = wrote'[q][g]
  BY DEF LiveIsOwn, OnTheWay
<1>a. /\ W!Intact("stall") /\ W!Intact("export")
      /\ wBudget'["export"] = wBudget["export"] /\ wBudget["export"] \in Nat
  BY IntactBefore DEF W!Faults, W!WorkspaceTypeOK
<1>b. \A r \in W!Runs : W!Alive(r) /\ W!Alive(q) => r = q
  BY <1>a DEF SingleHolder, W!HoldsLease
<1>c. OnTheWay(q, g) /\ wrote[q][g] # W!Absent => live.text[g] = wrote[q][g]
  BY <1>a DEF LiveIsOwn, OnTheWay
<1>d. W!Alive(q)'
  BY DEF OnTheWay, W!Alive
<1>e. ASSUME OnTheWay(q, g), wrote'[q] = wrote[q], live'.text[g] = live.text[g]
      PROVE  live'.text[g] = wrote'[q][g]
  BY <1>c, <1>e
<1> USE WorkspaceAssumption DEF W!WorkspaceTypeOK, W!Tree
<1>1. ASSUME NEW r \in W!Runs, W!Claim(r) PROVE live'.text[g] = wrote'[q][g]
  <2>1. q # r
    BY <1>1 DEF W!Claim, W!Goto, OnTheWay
  <2>2. wPc'[q] = wPc[q]
    BY <1>1, <2>1 DEF W!Claim, W!Goto
  <2>3. wPc[q] # "gone" => wrote'[q] = wrote[q] /\ onLive'[q] = onLive[q] /\ rest'[q] = rest[q]
    BY <1>1 DEF W!Claim
  <2>4. wPc[q] # "gone"
    BY <2>2 DEF OnTheWay
  <2> QED
    BY <1>1, <1>e, <2>2, <2>3, <2>4 DEF OnTheWay, W!Claim
<1>2. ASSUME NEW r \in W!Runs, W!prepare(r) PROVE live'.text[g] = wrote'[q][g]
  <2>1. ~onLive[r]
    BY <1>2 DEF W!prepare, ClaimsOrdered
  <2> QED
    BY <1>2, <1>e, <2>1 DEF W!prepare, W!Goto, OnTheWay
<1>3. ASSUME NEW r \in W!Runs, W!PrepareFails(r) PROVE live'.text[g] = wrote'[q][g]
  <2>1. wrote[r] = NothingText
    BY <1>3 DEF W!PrepareFails, ClaimsOrdered
  <2>2. q # r
    BY <1>3, <2>1 DEF W!PrepareFails, NothingText
  <2> QED
    BY <1>3, <1>e, <2>2 DEF W!PrepareFails, W!Goto, OnTheWay
<1>4. ASSUME NEW r \in W!Runs, W!Succeeds(r) \/ W!Fails(r)
      PROVE  live'.text[g] = wrote'[q][g]
  <2>1. UNCHANGED <<live, wrote, onLive, rest>> /\ wPc[r] = "work"
    BY <1>4 DEF W!Succeeds, W!Fails
  <2>2. /\ \A p \in W!Runs : p # r => wPc'[p] = wPc[p]
        /\ \/ onLive[r] /\ wPc'[r] = "sync"
           \/ wPc'[r] \in {"promote", "failed"}
    BY <1>4 DEF W!Succeeds, W!Fails, W!Goto
  <2>3. OnTheWay(q, g)
    BY <2>1, <2>2 DEF OnTheWay
  <2> QED
    BY <1>e, <2>1, <2>3
<1>5. ASSUME NEW r \in W!Runs, W!Discards(r) \/ W!Syncs(r) \/ W!Crash(r)
      PROVE  live'.text[g] = wrote'[q][g]
  <2>1. UNCHANGED <<live, wrote, onLive, rest>> /\ wPc' = [wPc EXCEPT ![r] = "gone"]
    BY <1>5 DEF W!Discards, W!Syncs, W!Crash, W!Goto
  <2> QED
    BY <1>e, <2>1 DEF OnTheWay
<1>6. ASSUME NEW r \in W!Runs, W!promote(r) PROVE live'.text[g] = wrote'[q][g]
  <2>1. UNCHANGED <<live, wrote, onLive>> /\ wPc[r] = "promote"
    BY <1>6 DEF W!promote
  <2>2. q # r
    <3>1. made
      BY <2>1, <1>a DEF SingleHolder, ClaimsOrdered
    <3>2. wPc'[r] = "gone" \/ (wPc'[r] = "copy" /\ rest'[r] = Files)
      BY <1>6, <3>1 DEF W!promote, W!Goto
    <3> QED
      BY <3>2 DEF OnTheWay
  <2>3. wPc'[q] = wPc[q] /\ rest'[q] = rest[q]
    BY <1>6, <2>2 DEF W!promote, W!Goto
  <2> QED
    BY <1>e, <2>1, <2>3 DEF OnTheWay
<1>7. ASSUME NEW r \in W!Runs, W!cleanup(r) PROVE live'.text[g] = wrote'[q][g]
  <2>1. UNCHANGED <<live, wrote, onLive, rest>> /\ wPc[r] = "copy" /\ rest[r] = {}
    BY <1>7 DEF W!cleanup
  <2>2. wPc' = [wPc EXCEPT ![r] = "sync"]
    BY <1>7 DEF W!cleanup, W!Goto
  <2> QED
    BY <1>e, <2>1, <2>2 DEF OnTheWay
<1>8. ASSUME NEW r \in W!Runs, NEW f \in Files, W!Writes(r, f)
      PROVE  live'.text[g] = wrote'[q][g]
  <2>1. PICK text \in {r} \cup (IF f = Quote THEN {W!Empty} ELSE {}) :
          /\ wrote' = [wrote EXCEPT ![r][f] = text]
          /\ onLive[r] =>
               /\ live' = [text  |-> [live.text EXCEPT ![f] = text],
                           trail |-> live.trail \cup {r}]
               /\ UNCHANGED <<scratch, made>>
          /\ ~onLive[r] =>
               /\ scratch' = [text  |-> [(IF made THEN scratch ELSE W!Bare({})).text
                                          EXCEPT ![f] = text],
                              trail |-> (IF made THEN scratch ELSE W!Bare({})).trail \cup {r}]
               /\ made' = TRUE
               /\ UNCHANGED live
    BY <1>8, Written, ZenonT(60)
  <2>2. UNCHANGED <<wPc, onLive, rest>> /\ W!Alive(r)
    BY <1>8 DEF W!Writes, W!Alive
  <2>3. q = r /\ wPc[r] = "work" /\ OnTheWay(q, g)
    BY <1>8, <1>b, <1>d, <2>2 DEF W!Writes, W!Alive, OnTheWay
  <2>4. onLive[r]
    BY <2>2, <2>3 DEF OnTheWay
  <2>5. live'.text = [live.text EXCEPT ![f] = text]
    BY <2>1, <2>4
  <2>6. CASE g = f
    BY <2>1, <2>3, <2>5, <2>6
  <2>7. CASE g # f
    BY <2>1, <2>3, <2>5, <2>7, <1>c
  <2> QED
    BY <2>6, <2>7
<1>9. ASSUME NEW r \in W!Runs, NEW f \in Files, W!Copies(r, f)
      PROVE  live'.text[g] = wrote'[q][g]
  <2>1. /\ UNCHANGED <<wPc, wrote, onLive>> /\ W!Alive(r)
        /\ wPc[r] = "copy" /\ f \in rest[r]
        /\ rest' = [rest EXCEPT ![r] = @ \ {f}]
    BY <1>9 DEF W!Copies, W!Alive
  <2>2. live'.text = IF scratch.text[f] = W!Absent THEN live.text
                     ELSE [live.text EXCEPT ![f] = scratch.text[f]]
    BY <1>9 DEF W!Copies
  <2>3. q = r
    BY <1>b, <1>d, <2>1 DEF W!Alive
  <2>4. CASE g = f
    <3>1. ~onLive[r]
      BY <2>1 DEF ClaimsOrdered
    <3>2. scratch.text[f] = Own(r, f)
      BY <1>a, <2>1, <3>1 DEF SingleHolder
    <3>3. scratch.text[f] = wrote[r][f]
      BY <2>1, <2>3, <2>4, <3>2 DEF Own
    <3> QED
      BY <2>1, <2>2, <2>3, <2>4, <3>3
  <2>5. CASE g # f
    <3>1. OnTheWay(q, g)
      BY <2>1, <2>3, <2>5 DEF OnTheWay
    <3>2. live'.text[g] = live.text[g]
      BY <2>2, <2>5
    <3> QED
      BY <1>e, <2>1, <3>1, <3>2
  <2> QED
    BY <2>4, <2>5
<1>10. ASSUME W!Reap \/ UNCHANGED W!vars PROVE live'.text[g] = wrote'[q][g]
  BY <1>10, <1>e DEF W!Reap, W!vars, OnTheWay
<1>11. ASSUME W!Export PROVE live'.text[g] = wrote'[q][g]
  BY <1>11, <1>a DEF W!Export, W!Spend, W!Faults
<1> QED
  BY <1>1, <1>2, <1>3, <1>4, <1>5, <1>6, <1>7, <1>8, <1>9, <1>10, <1>11,
     WorkspaceSteps DEF WorkspaceActions

LEMMA SyncedKept ==
  ASSUME W!WorkspaceTypeOK, ClaimsOrdered, SingleHolder, LiveIsOwn, W!SyncedIsOwn, [W!Next]_W!vars
  PROVE  W!SyncedIsOwn'
<1> USE WorkspaceAssumption
       DEF W!WorkspaceTypeOK, ClaimsOrdered, SingleHolder, LiveIsOwn, OnTheWay, W!SyncedIsOwn,
           W!Alive, W!HoldsLease, W!Intact, W!Tree, W!Faults
<1>1. ASSUME NEW r \in W!Runs, W!Claim(r) PROVE W!SyncedIsOwn'
  BY <1>1 DEF W!Claim, W!Goto, W!Bare
<1>2. ASSUME NEW r \in W!Runs, W!prepare(r) PROVE W!SyncedIsOwn'
  BY <1>2 DEF W!prepare, W!Goto
<1>3. ASSUME NEW r \in W!Runs, W!PrepareFails(r) PROVE W!SyncedIsOwn'
  BY <1>3 DEF W!PrepareFails, W!Goto, W!Spend
<1>4. ASSUME NEW r \in W!Runs, W!Succeeds(r) PROVE W!SyncedIsOwn'
  BY <1>4 DEF W!Succeeds, W!Goto
<1>5. ASSUME NEW r \in W!Runs, W!Fails(r) PROVE W!SyncedIsOwn'
  BY <1>5 DEF W!Fails, W!Goto
<1>6. ASSUME NEW r \in W!Runs, W!Discards(r) PROVE W!SyncedIsOwn'
  BY <1>6 DEF W!Discards, W!Finished, W!Goto
<1>7. ASSUME NEW r \in W!Runs, W!promote(r) PROVE W!SyncedIsOwn'
  BY <1>7 DEF W!promote, W!Finished, W!Goto
<1>8. ASSUME NEW r \in W!Runs, W!cleanup(r) PROVE W!SyncedIsOwn'
  BY <1>8 DEF W!cleanup, W!Goto
<1>9. ASSUME NEW r \in W!Runs, W!Syncs(r) PROVE W!SyncedIsOwn'
  <2>1. UNCHANGED <<live, wrote, wBudget>> /\ wPc[r] = "sync"
    BY <1>9 DEF W!Syncs
  <2>2. CASE W!HoldsLease(r)
    <3>1. wJob'.run = r /\ synced' = live.text
      BY <1>9, <2>2 DEF W!Syncs, W!Finished
    <3> QED
      BY <2>1, <3>1
  <2>3. CASE ~W!HoldsLease(r)
    BY <1>9, <2>1, <2>3 DEF W!Syncs, W!Finished
  <2> QED
    BY <2>2, <2>3
<1>10. ASSUME NEW r \in W!Runs, W!Crash(r) PROVE W!SyncedIsOwn'
  BY <1>10 DEF W!Crash, W!Goto, W!Spend
<1>11. ASSUME NEW r \in W!Runs, NEW f \in Files, W!Writes(r, f) PROVE W!SyncedIsOwn'
  <2>1. UNCHANGED <<wJob, synced, wBudget>> /\ wPc[r] = "work"
    BY <1>11 DEF W!Writes
  <2>2. ASSUME W!Intact("stall") PROVE wJob.status = "running"
    BY <2>1, <2>2
  <2> QED
    BY <2>1, <2>2
<1>12. ASSUME NEW r \in W!Runs, NEW f \in Files, W!Copies(r, f) PROVE W!SyncedIsOwn'
  BY <1>12 DEF W!Copies
<1>13. ASSUME W!Reap PROVE W!SyncedIsOwn'
  BY <1>13 DEF W!Reap, W!Spend
<1>14. ASSUME W!Export PROVE W!SyncedIsOwn'
  BY <1>14 DEF W!Export, W!Spend
<1>15. ASSUME UNCHANGED W!vars PROVE W!SyncedIsOwn'
  BY <1>15 DEF W!vars
<1> QED
  BY <1>1, <1>2, <1>3, <1>4, <1>5, <1>6, <1>7, <1>8, <1>9, <1>10, <1>11, <1>12, <1>13, <1>14, <1>15,
     WorkspaceSteps DEF WorkspaceActions

LEMMA WorkspaceStart == W!Init => WorkspaceInv
<1> SUFFICES ASSUME W!Init PROVE WorkspaceInv
  OBVIOUS
<1>1. W!WorkspaceTypeOK
  BY WorkspaceInit
<1>2. ClaimsOrdered
  BY WorkspaceAssumption DEF W!Init, ClaimsOrdered, NothingText, W!Runs, W!NoRun, W!Faults
<1> QED
  BY <1>1, <1>2 DEF W!Init, WorkspaceInv, SingleHolder, LiveIsOwn, W!SyncedIsOwn, W!Alive

LEMMA WorkspaceStep == WorkspaceInv /\ [W!Next]_W!vars => WorkspaceInv'
BY WorkspaceTypes, OrderedKept, SingleKept, LiveKept, SyncedKept DEF WorkspaceInv

\* What is synced is what the job's last claim wrote, when no claim stalled
\* and nobody exported over it.
THEOREM SyncIsOwn == W!Spec => []SyncedIsOwn
<1>1. WorkspaceInv => SyncedIsOwn
  BY DEF WorkspaceInv, SyncedIsOwn
<1> QED
  BY <1>1, WorkspaceStart, WorkspaceStep, PTL DEF W!Spec

\* What a claim copies out of its scratch it wrote itself, or cloned.
THEOREM Isolated == W!Spec => IsolatedFromTheDead
<1>1. WorkspaceInv
        => [\A r \in W!Runs, f \in Files :
              W!Copies(r, f) /\ W!Intact("stall")
                => scratch.text[f] \in {wrote[r][f], base[r][f]}]_W!vars
  BY DEF WorkspaceInv, ClaimsOrdered, SingleHolder, Own, W!Copies
<1> QED
  BY <1>1, WorkspaceStart, WorkspaceStep, PTL DEF W!Spec, IsolatedFromTheDead, W!IsolatedFromTheDead

-----------------------------------------------------------------------------
(* PriceBooks.                                                             *)

BookFields == [there : BOOLEAN, file : {B!NoSheet} \cup B!Uploads, id : {B!NoSheet} \cup B!Uploads,
               parse : {"none", "queued", "running", "parsed", "failed"}, multiplier : BOOLEAN]
IndexJobs  == [at : {"none", "queued", "save", "note", "done"}, built : 0 .. MaxClock]
ParseJobs  == [at : {"none", "queued", "window", "rows", "parsed", "failed", "done", "dead"},
               next : 1 .. B!LastPage + WindowPages, left : SUBSET (1 .. B!LastPage),
               alone : BOOLEAN]
DeleteJobs == [at : {"none", "queued", "purge", "done"}, id : {B!NoSheet} \cup B!Uploads,
               file : {B!NoSheet} \cup B!Uploads]

\* The types that BooksTypeOK leaves out.
BooksShape ==
  /\ B!BooksTypeOK
  /\ djob \in [Books -> DeleteJobs]
  /\ search \in [at : {"idle", "rank"}, mark : 0 .. MaxClock, ids : SUBSET B!Uploads]
  /\ cache \in [0 .. MaxClock -> {<<>>} \cup {<<ids>> : ids \in SUBSET B!Uploads}]
  /\ clock \in 0 .. MaxClock
  /\ bShaken \in BOOLEAN
  /\ bBudget \in [B!Faults -> Nat]
  /\ \A u \in B!Uploads \ B!Sheets :
       ijob[u].at = "none" /\ pjob[u].at = "none" /\ index[u] = 0
  /\ \A u \in B!Sheets : pjob[u].at = "rows" => pjob[u].next <= PageCount[B!Content(u)]

\* What is described up to a watermark; and one the index has reached.
Known(mark)   == {u \in B!Uploads : index[u] # 0 /\ index[u] <= mark}
Reached(mark) == mark = 0 \/ \E u \in B!Uploads : mark <= index[u]

\* A description to be saved is newer than none, of a file that has none, and
\* has a time of its own.
Fresh(u) ==
  /\ index[u] = 0 /\ ijob[u].built # 0 /\ ijob[u].built <= clock
  /\ \A v \in B!Uploads : index[v] # ijob[u].built
  /\ \A v \in B!Uploads : ijob[v].at = "save" /\ v # u => ijob[v].built # ijob[u].built

\* Until the index is shaken, an answer cached, or on its way, under a
\* watermark is what is described up to it, for good.
CacheInv ==
  /\ \A u \in B!Uploads : index[u] <= clock
  /\ \A u \in B!Uploads : ijob[u].at = "save" => Fresh(u)
  /\ ~bShaken =>
       /\ \A mark \in 0 .. MaxClock :
            cache[mark] # <<>> => cache[mark] = <<Known(mark)>> /\ Reached(mark)
       /\ search.at = "rank" => search.ids = Known(search.mark) /\ Reached(search.mark)

\* A parse nobody disturbed has the rows of the windows behind it, and those
\* of its window that it has not left.
RowsOf(u) ==
  /\ pjob[u].at \in {"window", "rows"} =>
       \A p \in 1 .. PageCount[B!Content(u)] :
         p < pjob[u].next => pages[B!Owner(u)][p] = B!Content(u)
  /\ pjob[u].at = "rows" =>
       \A p \in B!Window(u) \ pjob[u].left : pages[B!Owner(u)][p] = B!Content(u)

RowsInv ==
  /\ \A fault \in B!Faults : bBudget[fault] <= Failures[fault]
  /\ bBudget["short"] = Failures["short"] =>
       \A u \in B!Sheets : pjob[u].alone => RowsOf(u)

BooksActions ==
  \/ \E b \in Books, c \in B!Contents : B!UploadPriceBookFile(b, c)
  \/ \E b \in Books : B!DeletePriceBook(b) \/ B!RemoveIndex(b) \/ B!PurgePages(b)
  \/ \E u \in B!Sheets : \/ B!Describe(u) \/ B!Save(u) \/ B!NoteCatalog(u) \/ B!ParseStarts(u)
                         \/ B!ParseWindow(u) \/ B!UpsertRow(u) \/ B!ParseEnds(u)
                         \/ B!after_finish(u) \/ B!ParseFails(u)
  \/ B!ReadHeaders \/ B!Rank \/ B!Crash

LEMMA BooksSteps == B!Next => BooksActions
BY DEF B!Next, B!Deleting, B!Indexing, B!Parsing, BooksActions

\* A nonempty finite set of numbers has a smallest and a largest element.
LEMMA Extremes ==
  ASSUME NEW S \in SUBSET Nat, IsFiniteSet(S), S # {}
  PROVE  /\ \E n \in S : \A m \in S : m <= n
         /\ \E n \in S : \A m \in S : n <= m
<1>1. \A X \in SUBSET S : IsFiniteSet(X)
  BY FS_Subset
<1>2. ASSUME NEW C \in SUBSET SUBSET S, C # {}
      PROVE  \E A \in C : \A Y \in C : ~(Y \subseteq A /\ Y # A)
  <2>1. IsWellFoundedOn(StrictSubsetOrdering(S), FiniteSubsetsOf(S))
    BY FS_StrictSubsetOrderingWellFounded
  <2>2. C \subseteq FiniteSubsetsOf(S)
    BY <1>1, <1>2 DEF FiniteSubsetsOf
  <2>3. \E A \in C : \A Y \in C : ~(<<Y, A>> \in StrictSubsetOrdering(S))
    BY ONLY <1>2, <2>1, <2>2, WFMin, Zenon
  <2>4. \A A, Y \in C : Y \subseteq A /\ Y # A => <<Y, A>> \in StrictSubsetOrdering(S)
    BY <1>2 DEF StrictSubsetOrdering
  <2> QED
    BY <2>3, <2>4
<1> DEFINE Up(n) == {m \in S : n <= m}
           Down(n) == {m \in S : m <= n}
<1>3. \E n \in S : \A m \in S : m <= n
  <2>1. {Up(n) : n \in S} # {} /\ {Up(n) : n \in S} \in SUBSET SUBSET S
    OBVIOUS
  <2>2. PICK A \in {Up(n) : n \in S} : \A Y \in {Up(n) : n \in S} : ~(Y \subseteq A /\ Y # A)
    BY <1>2, <2>1
  <2>3. PICK n \in S : A = Up(n)
    BY <2>2
  <2>4. n \in Nat /\ \A m \in S : m \in Nat
    OBVIOUS
  <2>5. ASSUME NEW m \in S, n < m
        PROVE  FALSE
    <3>1. \A k \in S : m <= k => n <= k
      BY <2>4, <2>5
    <3>2. n <= n /\ ~(m <= n)
      BY <2>4, <2>5
    <3>3. Up(m) \subseteq Up(n)
      BY <3>1
    <3>4. n \in Up(n) /\ n \notin Up(m)
      BY <3>2
    <3>5. Up(m) \in {Up(o) : o \in S}
      OBVIOUS
    <3> HIDE DEF Up
    <3> QED
      BY <2>2, <2>3, <3>3, <3>4, <3>5
  <2> QED
    BY <2>4, <2>5
<1>4. \E n \in S : \A m \in S : n <= m
  <2>1. {Down(n) : n \in S} # {} /\ {Down(n) : n \in S} \in SUBSET SUBSET S
    OBVIOUS
  <2>2. PICK A \in {Down(n) : n \in S} :
          \A Y \in {Down(n) : n \in S} : ~(Y \subseteq A /\ Y # A)
    BY <1>2, <2>1
  <2>3. PICK n \in S : A = Down(n)
    BY <2>2
  <2>4. n \in Nat /\ \A m \in S : m \in Nat
    OBVIOUS
  <2>5. ASSUME NEW m \in S, m < n
        PROVE  FALSE
    <3>1. \A k \in S : k <= m => k <= n
      BY <2>4, <2>5
    <3>2. n <= n /\ ~(n <= m)
      BY <2>4, <2>5
    <3>3. Down(m) \subseteq Down(n)
      BY <3>1
    <3>4. n \in Down(n) /\ n \notin Down(m)
      BY <3>2
    <3>5. Down(m) \in {Down(o) : o \in S}
      OBVIOUS
    <3> HIDE DEF Down
    <3> QED
      BY <2>2, <2>3, <3>3, <3>4, <3>5
  <2> QED
    BY <2>4, <2>5
<1> QED
  BY <1>3, <1>4

LEMMA LargestAndSmallest ==
  ASSUME NEW S \in SUBSET Nat, IsFiniteSet(S), S # {}
  PROVE  /\ B!Max(S) \in S /\ \A n \in S : n <= B!Max(S)
         /\ B!Min(S) \in S /\ \A n \in S : B!Min(S) <= n
<1>1. \E n \in S : \A m \in S : m <= n
  BY Extremes
<1>2. \E n \in S : \A m \in S : n >= m
  BY <1>1
<1>3. B!Max(S) \in S /\ \A m \in S : B!Max(S) >= m
  BY <1>2 DEF B!Max
<1>4. \E n \in S : \A m \in S : n <= m
  BY Extremes
<1>5. B!Min(S) \in S /\ \A m \in S : B!Min(S) <= m
  BY <1>4 DEF B!Min
<1> QED
  BY <1>3, <1>5

\* The last page is one of a sheet.
LEMMA LastPageIsThere ==
  B!LastPage \in Nat \ {0} /\ \A c \in B!Contents : PageCount[c] \in 1 .. B!LastPage
<1> DEFINE P == {PageCount[c] : c \in B!Contents}
<1>1. P # {} /\ P \subseteq Nat \ {0}
  BY PriceBooksAssumption DEF B!Contents
<1>2. IsFiniteSet(P)
  <2>1. PageCount \in Surjection(B!Contents, P)
    BY PriceBooksAssumption DEF B!Contents, Surjection
  <2> QED
    BY <2>1, PriceBooksAssumption, FS_Surjection DEF B!Contents
<1>3. B!LastPage \in P /\ \A n \in P : n <= B!LastPage
  BY <1>1, <1>2, LargestAndSmallest DEF B!LastPage
<1> QED
  BY <1>1, <1>3

\* The windows of a sheet: a step further, or what is left of it.
LEMMA Windows ==
  ASSUME BooksShape, NEW u \in B!Sheets
  PROVE  /\ B!Window(u) = {p \in Nat : /\ pjob[u].next <= p /\ p < pjob[u].next + WindowPages
                                      /\ p <= PageCount[B!Content(u)]}
         /\ B!Window(u) \subseteq 1 .. B!LastPage /\ IsFiniteSet(B!Window(u))
         /\ B!Content(u) \in B!Contents /\ u \in B!Uploads
<1>1. u \in B!Uploads /\ B!Content(u) \in B!Contents
  <2>1. /\ bSheet \in Seq([book : Books, content : B!Contents])
        /\ Len(bSheet) <= MaxUploads /\ MaxUploads \in Nat
    BY PriceBooksAssumption DEF BooksShape, B!BooksTypeOK
  <2>2. u \in 1 .. Len(bSheet)
    BY DEF B!Sheets
  <2>3. bSheet[u] \in [book : Books, content : B!Contents]
    BY <2>1, <2>2, ElementOfSeq
  <2> QED
    BY <2>1, <2>2, <2>3 DEF B!Uploads, B!Content
<1>2. /\ pjob[u].next \in Nat \ {0} /\ PageCount[B!Content(u)] \in 1 .. B!LastPage
      /\ B!LastPage \in Nat /\ WindowPages \in Nat \ {0}
  BY <1>1, LastPageIsThere, PriceBooksAssumption DEF BooksShape, B!BooksTypeOK
<1> DEFINE E == {pjob[u].next + WindowPages - 1, PageCount[B!Content(u)]}
<1>3. E \in SUBSET Nat /\ IsFiniteSet(E) /\ E # {}
  <2>1. E \in SUBSET Nat /\ E # {}
    BY <1>2
  <2>2. IsFiniteSet({pjob[u].next + WindowPages - 1})
        /\ IsFiniteSet({PageCount[B!Content(u)]})
    BY FS_Singleton
  <2>3. E = {pjob[u].next + WindowPages - 1} \cup {PageCount[B!Content(u)]}
    OBVIOUS
  <2> HIDE DEF E
  <2> QED
    BY <2>1, <2>2, <2>3, FS_Union
<1>4. B!Min(E) \in E /\ \A n \in E : B!Min(E) <= n
  BY <1>3, LargestAndSmallest
<1>5. B!Window(u) = pjob[u].next .. B!Min(E)
  BY DEF B!Window
<1>6. B!Min(E) \in Nat
  BY <1>3, <1>4
<1> HIDE DEF E
<1>7. IsFiniteSet(B!Window(u))
  <2>1. pjob[u].next \in Int /\ B!Min(E) \in Int
    BY <1>2, <1>6
  <2>2. IsFiniteSet(pjob[u].next .. B!Min(E))
    BY <2>1, FS_Interval
  <2> QED
    BY <1>5, <2>2
<1>8. \A p \in Nat : p <= B!Min(E) <=> /\ p < pjob[u].next + WindowPages
                                       /\ p <= PageCount[B!Content(u)]
  BY <1>2, <1>4, <1>6 DEF E
<1> QED
  BY <1>1, <1>2, <1>5, <1>6, <1>7, <1>8

LEMMA BooksSpend ==
  ASSUME NEW fault \in B!Faults, bBudget \in [B!Faults -> Nat], B!Spend(fault)
  PROVE  /\ bBudget' \in [B!Faults -> Nat]
         /\ bBudget' = [bBudget EXCEPT ![fault] = @ - 1] /\ bBudget[fault] > 0
BY DEF B!Spend

\* The sheets of the files, and those of one more.
LEMMA SheetsType ==
  ASSUME BooksShape
  PROVE  /\ B!Sheets \subseteq B!Uploads
         /\ \A u \in B!Sheets : bSheet[u] \in [book : Books, content : B!Contents]
         /\ Len(bSheet) \in Nat /\ B!Sheets = 1 .. Len(bSheet)
<1>1. /\ bSheet \in Seq([book : Books, content : B!Contents])
      /\ Len(bSheet) <= MaxUploads /\ MaxUploads \in Nat
  BY PriceBooksAssumption DEF BooksShape, B!BooksTypeOK
<1>2. \A u \in B!Sheets : bSheet[u] \in [book : Books, content : B!Contents]
  BY <1>1, ElementOfSeq DEF B!Sheets
<1> QED
  BY <1>1, <1>2 DEF B!Sheets, B!Uploads

LEMMA NoteType ==
  ASSUME BooksShape, NEW u \in B!Sheets, NEW fields \in BookFields,
         B!Note(bSheet[u].book, fields)
  PROVE  book' \in [Books -> BookFields]
<1>1. book \in [Books -> BookFields]
  BY DEF BooksShape, B!BooksTypeOK, BookFields
<1> QED
  BY <1>1 DEF B!Note

\* While the files stay as they are, a job changed within its type keeps the
\* shape.
LEMMA SameSheets ==
  ASSUME BooksShape, UNCHANGED bSheet,
         book' \in [Books -> BookFields],
         index' \in [B!Uploads -> 0 .. MaxClock],
         pages' \in [B!Owners -> [1 .. B!LastPage -> B!Contents \cup {"none"}]],
         ijob' \in [B!Uploads -> IndexJobs], pjob' \in [B!Uploads -> ParseJobs],
         djob' \in [Books -> DeleteJobs],
         search' \in [at : {"idle", "rank"}, mark : 0 .. MaxClock, ids : SUBSET B!Uploads],
         cache' \in [0 .. MaxClock -> {<<>>} \cup {<<ids>> : ids \in SUBSET B!Uploads}],
         clock' \in 0 .. MaxClock, bShaken' \in BOOLEAN, bBudget' \in [B!Faults -> Nat],
         \A u \in B!Uploads \ B!Sheets : UNCHANGED <<ijob[u], pjob[u].at>>,
         \A u \in B!Uploads \ B!Sheets : index'[u] \in {0, index[u]},
         \A u \in B!Sheets : pjob'[u].at = "rows" =>
           pjob'[u].next <= PageCount[B!Content(u)]
  PROVE  BooksShape'
<1>1. \A b \in Books : djob'[b].at \in {"none", "queued", "purge", "done"}
  BY DEF DeleteJobs
<1>2. search'.at \in {"idle", "rank"}
  OBVIOUS
<1>3. B!BooksTypeOK'
  BY <1>1, <1>2 DEF BooksShape, B!BooksTypeOK, BookFields, IndexJobs, ParseJobs
<1> QED
  BY <1>3 DEF BooksShape, B!Sheets, B!Content

LEMMA JobsType ==
  ASSUME BooksShape
  PROVE  /\ book \in [Books -> BookFields] /\ index \in [B!Uploads -> 0 .. MaxClock]
         /\ pages \in [B!Owners -> [1 .. B!LastPage -> B!Contents \cup {"none"}]]
         /\ ijob \in [B!Uploads -> IndexJobs] /\ pjob \in [B!Uploads -> ParseJobs]
         /\ djob \in [Books -> DeleteJobs]
         /\ search \in [at : {"idle", "rank"}, mark : 0 .. MaxClock, ids : SUBSET B!Uploads]
         /\ cache \in [0 .. MaxClock -> {<<>>} \cup {<<ids>> : ids \in SUBSET B!Uploads}]
         /\ clock \in 0 .. MaxClock /\ bShaken \in BOOLEAN /\ bBudget \in [B!Faults -> Nat]
         /\ \A u \in B!Sheets : pjob[u].at = "rows" =>
              pjob[u].next <= PageCount[B!Content(u)]
BY DEF BooksShape, B!BooksTypeOK, BookFields, IndexJobs, ParseJobs

ParsePoints == {"none", "queued", "window", "rows", "parsed", "failed", "done", "dead"}

\* A job changed field by field is still one.
LEMMA ParseChanges ==
  ASSUME NEW j \in ParseJobs, NEW at \in ParsePoints, NEW pagesLeft \in SUBSET (1 .. B!LastPage)
  PROVE  /\ [j EXCEPT !.at = at] \in ParseJobs
         /\ [j EXCEPT !.alone = FALSE] \in ParseJobs
         /\ [j EXCEPT !.left = pagesLeft] \in ParseJobs
         /\ [j EXCEPT !.at = at, !.left = pagesLeft] \in ParseJobs
         /\ j.next <= B!LastPage => /\ [j EXCEPT !.next = @ + WindowPages] \in ParseJobs
                                   /\ [j EXCEPT !.at = at, !.next = @ + WindowPages] \in ParseJobs
<1>1. B!LastPage \in Nat /\ WindowPages \in Nat
  BY LastPageIsThere, PriceBooksAssumption
<1>2. j.next \in 1 .. B!LastPage + WindowPages
  BY DEF ParseJobs
<1>3. j.next <= B!LastPage => j.next + WindowPages \in 1 .. B!LastPage + WindowPages
  BY <1>1, <1>2
<1> QED
  BY <1>3 DEF ParseJobs, ParsePoints

\* The rows of a sheet are those of a book, or its own.
LEMMA OwnersType ==
  ASSUME BooksShape, NEW u \in B!Sheets
  PROVE  B!Owner(u) \in B!Owners
<1>1. bSheet[u].book \in Books /\ u \in B!Uploads
  BY SheetsType
<1> QED
  BY <1>1 DEF B!Owner, B!Owners

LEMMA Catalogued ==
  ASSUME BooksShape
  PROVE  /\ B!Catalogs \in SUBSET B!Uploads /\ B!headers_watermark(B!Catalogs) \in 0 .. MaxClock
         /\ \A u \in B!Uploads : index[u] <= B!headers_watermark(B!Catalogs)
         /\ \/ B!Catalogs = {} /\ B!headers_watermark(B!Catalogs) = 0
            \/ \E u \in B!Uploads : index[u] = B!headers_watermark(B!Catalogs)
<1>1. index \in [B!Uploads -> 0 .. MaxClock] /\ MaxClock \in Nat /\ MaxUploads \in Nat
  BY JobsType, PriceBooksAssumption
<1> DEFINE C == B!Catalogs
           N == {index[u] : u \in C}
<1>2. C \subseteq B!Uploads
  BY DEF B!Catalogs
<1>3. CASE C = {}
  BY <1>1, <1>3 DEF B!headers_watermark, B!Catalogs
<1>4. CASE C # {}
  <2>1. N \subseteq 0 .. MaxClock /\ N # {} /\ N \in SUBSET Nat
    BY <1>1, <1>2, <1>4
  <2>2. IsFiniteSet(0 .. MaxClock)
    BY <1>1, FS_Interval
  <2>3. IsFiniteSet(N)
    BY <2>1, <2>2, FS_Subset
  <2>4. B!Max(N) \in N /\ \A n \in N : n <= B!Max(N)
    BY <2>1, <2>3, LargestAndSmallest
  <2>5. B!headers_watermark(C) = B!Max(N)
    BY <1>4 DEF B!headers_watermark
  <2>6. \A u \in B!Uploads : index[u] <= B!Max(N)
    BY <1>1, <2>1, <2>4 DEF B!Catalogs
  <2> QED
    BY <1>2, <2>1, <2>4, <2>5, <2>6
<1> QED
  BY <1>3, <1>4

LEMMA BooksTypes ==
  BooksShape /\ [B!Next]_B!vars => BooksShape'
<1> SUFFICES ASSUME BooksShape, [B!Next]_B!vars PROVE BooksShape'
  OBVIOUS
<1>a. /\ B!Sheets \subseteq B!Uploads
      /\ \A u \in B!Sheets : bSheet[u] \in [book : Books, content : B!Contents]
      /\ Len(bSheet) \in Nat /\ B!Sheets = 1 .. Len(bSheet)
  BY SheetsType
<1>b. book \in [Books -> BookFields]
  BY JobsType
<1>i. index \in [B!Uploads -> 0 .. MaxClock] /\ ijob \in [B!Uploads -> IndexJobs]
      /\ clock \in 0 .. MaxClock /\ MaxClock \in Nat
  BY JobsType, PriceBooksAssumption
<1>p. /\ pjob \in [B!Uploads -> ParseJobs]
      /\ pages \in [B!Owners -> [1 .. B!LastPage -> B!Contents \cup {"none"}]]
      /\ \A u \in B!Sheets : pjob[u].at = "rows" => pjob[u].next <= PageCount[B!Content(u)]
  BY JobsType
<1>d. djob \in [Books -> DeleteJobs]
  BY JobsType
<1>s. /\ search \in [at : {"idle", "rank"}, mark : 0 .. MaxClock, ids : SUBSET B!Uploads]
      /\ cache \in [0 .. MaxClock -> {<<>>} \cup {<<ids>> : ids \in SUBSET B!Uploads}]
  BY JobsType
<1>o. bShaken \in BOOLEAN /\ bBudget \in [B!Faults -> Nat]
  BY JobsType
<1>1. ASSUME NEW b \in Books, NEW c \in B!Contents, B!UploadPriceBookFile(b, c)
      PROVE  BooksShape'
  <2> DEFINE u == Len(bSheet) + 1
  <2>1. u \in B!Uploads /\ u \in Nat /\ u \notin B!Sheets
    BY <1>1, <1>a DEF B!UploadPriceBookFile
  <2>2. /\ bSheet' = Append(bSheet, [book |-> b, content |-> c])
        /\ UNCHANGED <<index, pages, djob, clock, search, cache, bShaken, bBudget>>
        /\ book' \in [Books -> BookFields]
    BY <1>1, <1>b, <2>1, ZenonT(40) DEF B!UploadPriceBookFile, BookFields
  <2>3. /\ ijob' = ijob \/ ijob' = [ijob EXCEPT ![u].at = "queued"]
        /\ pjob' = pjob \/ pjob' = [pjob EXCEPT ![u].at = "queued"]
    BY <1>1 DEF B!UploadPriceBookFile
  <2>4. /\ bSheet' \in Seq([book : Books, content : B!Contents])
        /\ Len(bSheet') = u /\ B!Sheets' = B!Sheets \cup {u}
        /\ \A v \in B!Sheets : B!Content(v)' = B!Content(v)
    <3>1. bSheet \in Seq([book : Books, content : B!Contents])
      BY DEF BooksShape, B!BooksTypeOK
    <3>2. [book |-> b, content |-> c] \in [book : Books, content : B!Contents]
      OBVIOUS
    <3> QED
      BY <1>a, <2>2, <3>1, <3>2, AppendProperties DEF B!Sheets, B!Content
  <2>5. ijob' \in [B!Uploads -> IndexJobs] /\ pjob' \in [B!Uploads -> ParseJobs]
    <3>1. [pjob[u] EXCEPT !.at = "queued"] \in ParseJobs
      BY <1>p, <2>1, ParseChanges DEF ParsePoints
    <3>2. [ijob[u] EXCEPT !.at = "queued"] \in IndexJobs
      BY <1>i, <2>1 DEF IndexJobs
    <3>3. pjob' \in [B!Uploads -> ParseJobs]
      BY <1>p, <2>1, <2>3, <3>1
    <3>4. ijob' \in [B!Uploads -> IndexJobs]
      BY <1>i, <2>1, <2>3, <3>2
    <3> QED
      BY <3>3, <3>4
  <2>6. /\ \A v \in B!Uploads \ B!Sheets' :
             ijob'[v].at = "none" /\ pjob'[v].at = "none" /\ index'[v] = 0
        /\ \A v \in B!Sheets' : pjob'[v].at = "rows" => v \in B!Sheets /\ pjob'[v] = pjob[v]
    BY <1>a, <1>i, <1>p, <2>1, <2>2, <2>3, <2>4 DEF BooksShape, IndexJobs, ParseJobs
  <2>7. B!BooksTypeOK'
    BY <2>1, <2>2, <2>4, <2>5
       DEF BooksShape, B!BooksTypeOK, BookFields, IndexJobs, ParseJobs, B!Uploads
  <2> QED
    BY <2>2, <2>4, <2>6, <2>7 DEF BooksShape
<1>2. ASSUME NEW b \in Books, B!DeletePriceBook(b) PROVE BooksShape'
  <2>1. UNCHANGED <<bSheet, index, pages, ijob, pjob, clock, search, cache, bShaken, bBudget>>
    BY <1>2 DEF B!DeletePriceBook
  <2>2. book' \in [Books -> BookFields]
    BY <1>2, <1>b, <1>a DEF B!DeletePriceBook, BookFields
  <2>3. djob' \in [Books -> DeleteJobs]
    BY <1>2, <1>b, <1>d, <1>a DEF B!DeletePriceBook, BookFields, DeleteJobs
  <2> QED
    BY <2>1, <2>2, <2>3, <1>b, <1>i, <1>p, <1>d, <1>s, <1>o, SameSheets
<1>3. ASSUME NEW b \in Books, B!RemoveIndex(b) PROVE BooksShape'
  <2>1. UNCHANGED <<book, bSheet, pages, ijob, pjob, clock, search, cache, bBudget>>
    BY <1>3 DEF B!RemoveIndex
  <2>2. index' \in [B!Uploads -> 0 .. MaxClock]
    BY <1>3, <1>i, <1>a DEF B!RemoveIndex
  <2>3. bShaken' \in BOOLEAN
    BY <1>3, <1>o, <1>a DEF B!RemoveIndex
  <2>4. djob' \in [Books -> DeleteJobs]
    BY <1>3, <1>d, <1>a DEF B!RemoveIndex, DeleteJobs
  <2>5. \A u \in B!Uploads : index'[u] \in {0, index[u]}
    BY <1>3 DEF B!RemoveIndex
  <2> QED
    BY <2>1, <2>2, <2>3, <2>4, <2>5, <1>b, <1>i, <1>p, <1>d, <1>s, <1>o, SameSheets
<1>4. ASSUME NEW b \in Books, B!PurgePages(b) PROVE BooksShape'
  <2>1. UNCHANGED <<book, bSheet, index, ijob, clock, search, cache, bShaken, bBudget>>
    BY <1>4 DEF B!PurgePages
  <2>2. pages' \in [B!Owners -> [1 .. B!LastPage -> B!Contents \cup {"none"}]]
    BY <1>4, <1>p, <1>a DEF B!PurgePages
  <2>3. pjob' \in [B!Uploads -> ParseJobs]
    BY <1>4, <1>p, <1>a DEF B!PurgePages, ParseJobs
  <2>4. djob' \in [Books -> DeleteJobs]
    BY <1>4, <1>d, <1>a DEF B!PurgePages, DeleteJobs
  <2>5. /\ \A v \in B!Uploads \ B!Sheets : pjob'[v].at = pjob[v].at
        /\ \A v \in B!Sheets : pjob'[v].at = "rows" => pjob'[v].next <= PageCount[B!Content(v)]
    BY <1>4, <1>p, <1>a DEF B!PurgePages, ParseJobs
  <2> QED
    BY <2>1, <2>2, <2>3, <2>4, <2>5, <1>b, <1>i, <1>p, <1>d, <1>s, <1>o, SameSheets
<1>5. ASSUME NEW u \in B!Sheets, B!Describe(u) PROVE BooksShape'
  <2>1. UNCHANGED <<book, bSheet, index, pages, pjob, djob, search, cache, bShaken, bBudget>>
    BY <1>5 DEF B!Describe
  <2>2. ijob' \in [B!Uploads -> IndexJobs]
    <3>1. \/ ijob' = [ijob EXCEPT ![u].at = "done"]
          \/ clock < MaxClock /\ ijob' = [ijob EXCEPT ![u] = [at |-> "save", built |-> clock + 1]]
      BY <1>5 DEF B!Describe
    <3>2. [ijob[u] EXCEPT !.at = "done"] \in IndexJobs
      BY <1>i, <1>a DEF IndexJobs
    <3>3. clock < MaxClock => [at |-> "save", built |-> clock + 1] \in IndexJobs
      BY <1>i DEF IndexJobs
    <3> QED
      BY <1>i, <1>a, <3>1, <3>2, <3>3
  <2>3. clock' \in 0 .. MaxClock
    BY <1>5, <1>i, <1>a DEF B!Describe
  <2>4. \A v \in B!Uploads \ B!Sheets : ijob'[v] = ijob[v]
    BY <1>5, <1>i, <1>a DEF B!Describe, IndexJobs
  <2> QED
    BY <2>1, <2>2, <2>3, <2>4, <1>b, <1>i, <1>p, <1>d, <1>s, <1>o, SameSheets
<1>6. ASSUME NEW u \in B!Sheets, B!Save(u) PROVE BooksShape'
  <2>1. UNCHANGED <<book, bSheet, pages, pjob, djob, clock, search, cache, bBudget>>
    BY <1>6 DEF B!Save
  <2>2. index' \in [B!Uploads -> 0 .. MaxClock]
    BY <1>6, <1>i, <1>a DEF B!Save, IndexJobs
  <2>3. ijob' \in [B!Uploads -> IndexJobs]
    BY <1>6, <1>i, <1>a DEF B!Save, IndexJobs
  <2>4. bShaken' \in BOOLEAN
    BY <1>6, <1>o, <1>a DEF B!Save
  <2>5. \A v \in B!Uploads \ B!Sheets : ijob'[v] = ijob[v]
    BY <1>6, <1>i, <1>a DEF B!Save, IndexJobs
  <2>6. \A v \in B!Uploads \ B!Sheets : index'[v] = index[v]
    BY <1>6, <1>i, <1>a DEF B!Save
  <2> QED
    BY <2>6, <2>1, <2>2, <2>3, <2>4, <2>5, <1>b, <1>i, <1>p, <1>d, <1>s, <1>o, SameSheets
<1>7. ASSUME NEW u \in B!Sheets, B!NoteCatalog(u) PROVE BooksShape'
  <2>1. UNCHANGED <<bSheet, index, pages, pjob, djob, clock, search, cache, bShaken, bBudget>>
    BY <1>7 DEF B!NoteCatalog
  <2>2. book' \in [Books -> BookFields]
    BY <1>7, <1>b, <1>a, NoteType DEF B!NoteCatalog, BookFields
  <2>3. ijob' \in [B!Uploads -> IndexJobs]
    BY <1>7, <1>i, <1>a DEF B!NoteCatalog, IndexJobs
  <2>4. \A v \in B!Uploads \ B!Sheets : ijob'[v] = ijob[v]
    BY <1>7, <1>i, <1>a DEF B!NoteCatalog, IndexJobs
  <2> QED
    BY <2>1, <2>2, <2>3, <2>4, <1>b, <1>i, <1>p, <1>d, <1>s, <1>o, SameSheets
<1>8. ASSUME NEW u \in B!Sheets, B!ParseStarts(u) PROVE BooksShape'
  <2>1. UNCHANGED <<bSheet, index, pages, ijob, djob, clock, search, cache, bShaken, bBudget>>
    BY <1>8 DEF B!ParseStarts
  <2>2. book' \in [Books -> BookFields]
    BY <1>8, <1>b, <1>a, NoteType DEF B!ParseStarts, BookFields
  <2>3. pjob' \in [B!Uploads -> ParseJobs]
    BY <1>8, <1>p, <1>a, LastPageIsThere, PriceBooksAssumption DEF B!ParseStarts, ParseJobs
  <2>4. /\ \A v \in B!Uploads \ B!Sheets : pjob'[v].at = pjob[v].at
        /\ \A v \in B!Sheets : pjob'[v].at = "rows" => pjob'[v].next <= PageCount[B!Content(v)]
    BY <1>8, <1>p, <1>a DEF B!ParseStarts, ParseJobs
  <2> QED
    BY <2>1, <2>2, <2>3, <2>4, <1>b, <1>i, <1>p, <1>d, <1>s, <1>o, SameSheets
<1>9. ASSUME NEW u \in B!Sheets, B!ParseWindow(u) PROVE BooksShape'
  <2>1. UNCHANGED <<book, bSheet, index, pages, ijob, djob, clock, search, cache, bShaken>>
    BY <1>9 DEF B!ParseWindow
  <2>2. pjob' \in [B!Uploads -> ParseJobs]
    <3>1. \/ pjob' = [pjob EXCEPT ![u].next = @ + WindowPages]
          \/ \E got \in {B!Window(u), {}} : pjob' = [pjob EXCEPT ![u].at = "rows", ![u].left = got]
      BY <1>9 DEF B!ParseWindow
    <3>2. pjob[u] \in ParseJobs /\ pjob[u].next <= B!LastPage
      <4>1. /\ pjob[u] \in ParseJobs /\ pjob[u].next <= PageCount[B!Content(u)]
            /\ B!Content(u) \in B!Contents
        BY <1>9, <1>p, <1>a, Windows, SMTT(30) DEF B!ParseWindow
      <4> QED
        BY <4>1, LastPageIsThere, PriceBooksAssumption DEF ParseJobs
    <3>3. [pjob[u] EXCEPT !.next = @ + WindowPages] \in ParseJobs
      BY <3>2, ParseChanges, ZenonT(40) DEF ParsePoints
    <3>4. \A got \in {B!Window(u), {}} : [pjob[u] EXCEPT !.at = "rows", !.left = got] \in ParseJobs
      BY <3>2, ParseChanges, Windows DEF ParsePoints
    <3> QED
      BY <1>p, <1>a, <3>1, <3>3, <3>4
  <2>3. bBudget' \in [B!Faults -> Nat]
    BY <1>9, <1>o, <1>a, BooksSpend DEF B!ParseWindow, B!Faults
  <2>4. /\ \A v \in B!Uploads \ B!Sheets : pjob'[v].at = pjob[v].at
        /\ \A v \in B!Sheets : pjob'[v].at = "rows" => pjob'[v].next <= PageCount[B!Content(v)]
    BY <1>9, <1>p, <1>a, SMTT(30) DEF B!ParseWindow, ParseJobs
  <2> QED
    BY <2>1, <2>2, <2>3, <2>4, <1>b, <1>i, <1>p, <1>d, <1>s, <1>o, SameSheets
<1>10. ASSUME NEW u \in B!Sheets, B!UpsertRow(u) PROVE BooksShape'
  <2>1. UNCHANGED <<book, bSheet, index, ijob, djob, clock, search, cache, bShaken, bBudget>>
    BY <1>10 DEF B!UpsertRow
  <2>2. /\ pjob[u] \in ParseJobs /\ pjob[u].at = "rows" /\ u \in B!Uploads
        /\ pjob[u].next <= B!LastPage /\ B!Content(u) \in B!Contents
    <3>1. /\ pjob[u] \in ParseJobs /\ pjob[u].at = "rows" /\ u \in B!Uploads
          /\ pjob[u].next <= PageCount[B!Content(u)] /\ B!Content(u) \in B!Contents
      BY <1>10, <1>p, <1>a, Windows DEF B!UpsertRow
    <3> QED
      BY <3>1, LastPageIsThere, PriceBooksAssumption DEF ParseJobs
  <2>3. CASE pjob[u].left = {}
    <3>1. pages' = pages /\ pjob' = [pjob EXCEPT ![u].at = "window", ![u].next = @ + WindowPages]
      BY <1>10, <2>3 DEF B!UpsertRow
    <3>2. [pjob[u] EXCEPT !.at = "window", !.next = @ + WindowPages] \in ParseJobs
      BY <2>2, ParseChanges DEF ParsePoints
    <3>3. pjob' \in [B!Uploads -> ParseJobs]
      BY <1>p, <2>2, <3>1, <3>2
    <3>4. /\ \A v \in B!Uploads \ B!Sheets : pjob'[v] = pjob[v]
          /\ \A v \in B!Sheets : pjob'[v].at = "rows" => pjob'[v] = pjob[v]
      BY <1>p, <1>a, <2>2, <3>1 DEF ParseJobs
    <3> QED
      BY <2>1, <3>1, <3>3, <3>4, <1>b, <1>i, <1>p, <1>d, <1>s, <1>o, SameSheets
  <2>4. CASE pjob[u].left # {}
    <3> DEFINE p == B!Min(pjob[u].left)
               D == B!Disturbs(pjob, B!Owner(u), {u})
    <3>1. p \in pjob[u].left /\ p \in 1 .. B!LastPage
      <4>1. /\ pjob[u].left \in SUBSET (1 .. B!LastPage) /\ IsFiniteSet(1 .. B!LastPage)
            /\ pjob[u].left \in SUBSET Nat
        BY <2>2, FS_Interval, LastPageIsThere DEF ParseJobs
      <4>2. IsFiniteSet(pjob[u].left)
        BY <4>1, FS_Subset
      <4> QED
        BY <2>4, <4>1, <4>2, LargestAndSmallest
    <3>2. /\ pages' = [pages EXCEPT ![B!Owner(u)][p] = B!Content(u)]
          /\ pjob' = [D EXCEPT ![u].left = @ \ {p}]
      BY <1>10, <2>4 DEF B!UpsertRow
    <3> HIDE DEF p
    <3>3. pages' \in [B!Owners -> [1 .. B!LastPage -> B!Contents \cup {"none"}]]
      BY <1>p, <2>2, <3>1, <3>2, OwnersType
    <3>4. /\ D \in [B!Uploads -> ParseJobs]
          /\ \A v \in B!Uploads : /\ D[v].at = pjob[v].at /\ D[v].next = pjob[v].next
                                  /\ D[v].left = pjob[v].left
      <4>1. \A v \in B!Uploads : [pjob[v] EXCEPT !.alone = FALSE] \in ParseJobs
        BY <1>p, ParseChanges, ZenonT(40) DEF ParsePoints
      <4> QED
        BY <1>p, <4>1, SMTT(30) DEF B!Disturbs, ParseJobs
    <3> HIDE DEF D
    <3>5. [D[u] EXCEPT !.left = @ \ {p}] \in ParseJobs
      <4>1. D[u] \in ParseJobs /\ D[u].left \ {p} \in SUBSET (1 .. B!LastPage)
        BY <2>2, <3>4 DEF ParseJobs
      <4> QED
        BY <4>1, ParseChanges DEF ParsePoints
    <3>6. pjob' \in [B!Uploads -> ParseJobs]
      BY <2>2, <3>2, <3>4, <3>5
    <3>7. \A v \in B!Uploads : pjob'[v].at = pjob[v].at /\ pjob'[v].next = pjob[v].next
      BY <2>2, <3>2, <3>4 DEF ParseJobs
    <3> QED
      BY <2>1, <3>3, <3>6, <3>7, <1>a, <1>b, <1>i, <1>p, <1>d, <1>s, <1>o, SameSheets
  <2> QED
    BY <2>3, <2>4
<1>11. ASSUME NEW u \in B!Sheets, B!ParseEnds(u) PROVE BooksShape'
  <2>1. UNCHANGED <<book, bSheet, index, pages, ijob, djob, clock, search, cache, bShaken, bBudget>>
    BY <1>11 DEF B!ParseEnds
  <2>2. pjob' \in [B!Uploads -> ParseJobs]
    BY <1>11, <1>p, <1>a DEF B!ParseEnds, ParseJobs
  <2>3. /\ \A v \in B!Uploads \ B!Sheets : pjob'[v].at = pjob[v].at
        /\ \A v \in B!Sheets : pjob'[v].at = "rows" => pjob'[v].next <= PageCount[B!Content(v)]
    BY <1>11, <1>p, <1>a DEF B!ParseEnds, ParseJobs
  <2> QED
    BY <2>1, <2>2, <2>3, <1>b, <1>i, <1>p, <1>d, <1>s, <1>o, SameSheets
<1>12. ASSUME NEW u \in B!Sheets, B!after_finish(u) PROVE BooksShape'
  <2>1. UNCHANGED <<bSheet, index, pages, ijob, djob, clock, search, cache, bShaken, bBudget>>
    BY <1>12 DEF B!after_finish
  <2>2. book' \in [Books -> BookFields]
    BY <1>12, <1>b, <1>a, NoteType DEF B!after_finish, BookFields
  <2>3. pjob' \in [B!Uploads -> ParseJobs]
    BY <1>12, <1>p, <1>a DEF B!after_finish, ParseJobs
  <2>4. /\ \A v \in B!Uploads \ B!Sheets : pjob'[v].at = pjob[v].at
        /\ \A v \in B!Sheets : pjob'[v].at = "rows" => pjob'[v].next <= PageCount[B!Content(v)]
    BY <1>12, <1>p, <1>a DEF B!after_finish, ParseJobs
  <2> QED
    BY <2>1, <2>2, <2>3, <2>4, <1>b, <1>i, <1>p, <1>d, <1>s, <1>o, SameSheets
<1>13. ASSUME NEW u \in B!Sheets, B!ParseFails(u) PROVE BooksShape'
  <2>1. UNCHANGED <<book, bSheet, index, pages, ijob, djob, clock, search, cache, bShaken>>
    BY <1>13 DEF B!ParseFails
  <2>2. pjob' \in [B!Uploads -> ParseJobs]
    BY <1>13, <1>p, <1>a DEF B!ParseFails, ParseJobs
  <2>3. bBudget' \in [B!Faults -> Nat]
    BY <1>13, <1>o, <1>a, BooksSpend DEF B!ParseFails, B!Faults
  <2>4. /\ \A v \in B!Uploads \ B!Sheets : pjob'[v].at = pjob[v].at
        /\ \A v \in B!Sheets : pjob'[v].at = "rows" => pjob'[v].next <= PageCount[B!Content(v)]
    BY <1>13, <1>p, <1>a DEF B!ParseFails, ParseJobs
  <2> QED
    BY <2>1, <2>2, <2>3, <2>4, <1>b, <1>i, <1>p, <1>d, <1>s, <1>o, SameSheets
<1>14. ASSUME B!ReadHeaders PROVE BooksShape'
  <2>1. UNCHANGED <<book, bSheet, index, pages, ijob, pjob, djob, clock, cache, bShaken, bBudget>>
    BY <1>14 DEF B!ReadHeaders
  <2>2. search' \in [at : {"idle", "rank"}, mark : 0 .. MaxClock, ids : SUBSET B!Uploads]
    BY <1>14, <1>s, <1>i, <1>a, Catalogued DEF B!ReadHeaders
  <2> QED
    BY <2>1, <2>2, <1>b, <1>i, <1>p, <1>d, <1>s, <1>o, SameSheets
<1>15. ASSUME B!Rank PROVE BooksShape'
  <2>1. UNCHANGED <<book, bSheet, index, pages, ijob, pjob, djob, clock, bShaken, bBudget>>
    BY <1>15 DEF B!Rank
  <2>2. cache' \in [0 .. MaxClock -> {<<>>} \cup {<<ids>> : ids \in SUBSET B!Uploads}]
    BY <1>15, <1>s, <1>i, <1>a DEF B!Rank, B!find_pages_cache_key
  <2>3. search' \in [at : {"idle", "rank"}, mark : 0 .. MaxClock, ids : SUBSET B!Uploads]
    BY <1>15, <1>s, <1>i, <1>a DEF B!Rank
  <2> QED
    BY <2>1, <2>2, <2>3, <1>b, <1>i, <1>p, <1>d, <1>s, <1>o, SameSheets
<1>16. ASSUME B!Crash PROVE BooksShape'
  <2>1. UNCHANGED <<book, bSheet, index, pages, clock, search, cache, bShaken>>
    BY <1>16 DEF B!Crash
  <2>2. bBudget' \in [B!Faults -> Nat]
    BY <1>16, <1>o, BooksSpend DEF B!Crash, B!Faults
  <2>3. ASSUME NEW u \in B!Sheets, ijob' = [ijob EXCEPT ![u] = [at |-> "queued", built |-> 0]],
               UNCHANGED <<pjob, djob>>
        PROVE  BooksShape'
    <3>1. [at |-> "queued", built |-> 0] \in IndexJobs
      BY <1>i DEF IndexJobs
    <3>2. ijob' \in [B!Uploads -> IndexJobs] /\ \A v \in B!Uploads \ B!Sheets : ijob'[v] = ijob[v]
      BY <1>i, <1>a, <2>3, <3>1
    <3> QED
      BY <2>1, <2>2, <2>3, <3>2, <1>b, <1>i, <1>p, <1>d, <1>s, <1>o, SameSheets
  <2>4. ASSUME NEW u \in B!Sheets, UNCHANGED <<ijob, djob>>, NEW at \in ParsePoints \ {"rows"},
               NEW pagesLeft \in {pjob[u].left, {}},
               pjob' = [pjob EXCEPT ![u].at = at, ![u].left = pagesLeft]
        PROVE  BooksShape'
    <3>1. pagesLeft \in SUBSET (1 .. B!LastPage) /\ pjob[u] \in ParseJobs
      BY <1>p, <1>a, <2>4 DEF ParseJobs
    <3>2. [pjob[u] EXCEPT !.at = at, !.left = pagesLeft] \in ParseJobs
      BY <2>4, <3>1, ParseChanges
    <3>3. pjob' \in [B!Uploads -> ParseJobs]
      BY <1>p, <1>a, <2>4, <3>2
    <3>4. /\ \A v \in B!Uploads : v # u => pjob'[v] = pjob[v]
          /\ pjob'[u].at # "rows"
      BY <1>p, <1>a, <2>4 DEF ParseJobs
    <3> QED
      BY <2>1, <2>2, <2>4, <3>3, <3>4, <1>a, <1>b, <1>i, <1>p, <1>d, <1>s, <1>o, SameSheets
  <2>5. ASSUME NEW b \in Books, djob' = [djob EXCEPT ![b].at = "queued"], UNCHANGED <<ijob, pjob>>
        PROVE  BooksShape'
    <3>1. djob' \in [Books -> DeleteJobs]
      BY <1>d, <2>5 DEF DeleteJobs
    <3> QED
      BY <2>1, <2>2, <2>5, <3>1, <1>b, <1>i, <1>p, <1>d, <1>s, <1>o, SameSheets
  <2>6. ASSUME NEW u \in B!Sheets, UNCHANGED <<ijob, djob>>,
               pjob' = [pjob EXCEPT ![u].at = IF @ = "parsed" THEN "done" ELSE "dead"]
        PROVE  BooksShape'
    <3>1. pjob[u] \in ParseJobs
      BY <1>p, <1>a
    <3>2. \E at \in {"done", "dead"} :
            pjob' = [pjob EXCEPT ![u].at = at, ![u].left = pjob[u].left]
      <4>1. \A at : [pjob[u] EXCEPT !.at = at]
                      = [pjob[u] EXCEPT !.at = at, !.left = pjob[u].left]
        BY <3>1 DEF ParseJobs
      <4> QED
        BY <1>p, <1>a, <2>6, <4>1
    <3> QED
      BY <2>4, <2>6, <3>2 DEF ParsePoints
  <2> QED
    BY <1>16, <2>3, <2>4, <2>5, <2>6 DEF B!Crash, ParsePoints
<1>17. ASSUME UNCHANGED B!vars PROVE BooksShape'
  BY <1>17, <1>b, <1>i, <1>p, <1>d, <1>s, <1>o, SameSheets DEF B!vars
<1> QED
  BY <1>1, <1>2, <1>3, <1>4, <1>5, <1>6, <1>7, <1>8, <1>9, <1>10, <1>11, <1>12, <1>13, <1>14,
     <1>15, <1>16, <1>17, BooksSteps DEF BooksActions

\* Steps that leave the index and the search alone, and queue or end a
\* description at most.
LEMMA CacheFrame ==
  ASSUME CacheInv, UNCHANGED <<index, clock, search, cache, bShaken>>,
         \A u \in B!Uploads : ijob'[u].at = "save" => ijob'[u] = ijob[u]
  PROVE  CacheInv'
<1>1. \A u \in B!Uploads : ijob'[u].at = "save" => Fresh(u)'
  BY DEF CacheInv, Fresh
<1> QED
  BY <1>1 DEF CacheInv, Known, Reached

LEMMA CacheKept ==
  ASSUME BooksShape, CacheInv, [B!Next]_B!vars
  PROVE  CacheInv'
<1>a. B!Sheets \subseteq B!Uploads
  BY SheetsType
<1>i. index \in [B!Uploads -> 0 .. MaxClock] /\ ijob \in [B!Uploads -> IndexJobs]
      /\ clock \in 0 .. MaxClock /\ MaxClock \in Nat /\ bShaken \in BOOLEAN
  BY JobsType, PriceBooksAssumption
<1>s. /\ search \in [at : {"idle", "rank"}, mark : 0 .. MaxClock, ids : SUBSET B!Uploads]
      /\ cache \in [0 .. MaxClock -> {<<>>} \cup {<<ids>> : ids \in SUBSET B!Uploads}]
  BY JobsType
<1>1. ASSUME NEW b \in Books, NEW c \in B!Contents, B!UploadPriceBookFile(b, c)
      PROVE  CacheInv'
  <2>1. /\ UNCHANGED <<index, clock, search, cache, bShaken>>
        /\ ijob' = ijob \/ ijob' = [ijob EXCEPT ![Len(bSheet) + 1].at = "queued"]
    BY <1>1 DEF B!UploadPriceBookFile
  <2>2. \A u \in B!Uploads : ijob'[u].at = "save" => ijob'[u] = ijob[u]
    BY <1>i, <2>1 DEF IndexJobs
  <2> QED
    BY <2>1, <2>2, CacheFrame
<1>2. ASSUME NEW b \in Books, B!DeletePriceBook(b) \/ B!PurgePages(b) PROVE CacheInv'
  BY <1>2, CacheFrame DEF B!DeletePriceBook, B!PurgePages
<1>3. ASSUME NEW b \in Books, B!RemoveIndex(b) PROVE CacheInv'
  <2>1. /\ UNCHANGED <<ijob, clock, search, cache>>
        /\ \A u \in B!Uploads : index'[u] \in {0, index[u]}
        /\ bShaken' = (bShaken \/ index' # index)
    BY <1>3 DEF B!RemoveIndex
  <2>2. CASE index' = index
    BY <2>1, <2>2, CacheFrame, <1>i
  <2>3. CASE index' # index
    <3>1. bShaken'
      BY <2>1, <2>3
    <3>3. \A u \in B!Uploads : index'[u] <= clock
      BY <1>i, <2>1 DEF CacheInv
    <3>2. \A u \in B!Uploads : ijob[u].at = "save" => Fresh(u)'
      BY <1>i, <2>1 DEF CacheInv, Fresh
    <3> QED
      BY <2>1, <3>1, <3>2, <3>3 DEF CacheInv
  <2> QED
    BY <2>2, <2>3
<1>4. ASSUME NEW u \in B!Sheets, B!Describe(u) PROVE CacheInv'
  <2>1. UNCHANGED <<index, search, cache, bShaken>> /\ ijob[u].at = "queued" /\ u \in B!Uploads
    BY <1>4, <1>a DEF B!Describe
  <2>2. CASE B!Indexed(u)
    <3>1. clock' = clock /\ ijob' = [ijob EXCEPT ![u].at = "done"]
      BY <1>4, <2>2 DEF B!Describe
    <3>2. \A v \in B!Uploads : ijob'[v].at = "save" => ijob'[v] = ijob[v]
      BY <1>i, <2>1, <3>1 DEF IndexJobs
    <3> QED
      BY <2>1, <3>1, <3>2, CacheFrame
  <2>3. CASE ~B!Indexed(u)
    <3>1. /\ clock' = clock + 1 /\ index[u] = 0
          /\ ijob' = [ijob EXCEPT ![u] = [at |-> "save", built |-> clock + 1]]
      BY <1>4, <2>3 DEF B!Describe, B!Indexed
    <3>2. \A v \in B!Uploads : index[v] \in Nat /\ index[v] <= clock
      BY <1>i DEF CacheInv
    <3>3. \A v \in B!Uploads \ {u} : ijob'[v] = ijob[v]
      BY <1>i, <3>1
    <3>4. ijob'[u] = [at |-> "save", built |-> clock + 1]
      BY <1>i, <2>1, <3>1
    <3>5. \A v \in B!Uploads \ {u} : ijob[v].at = "save" => Fresh(v) /\ ijob[v].built <= clock
      BY DEF CacheInv, Fresh
    <3>6. \A v \in B!Uploads : ijob[v].built \in Nat
      BY <1>i DEF IndexJobs
    <3>7. Fresh(u)'
      BY <1>i, <2>1, <3>1, <3>2, <3>3, <3>4, <3>5, <3>6 DEF Fresh
    <3>8. \A v \in B!Uploads \ {u} : ijob'[v].at = "save" => Fresh(v)'
      BY <1>i, <2>1, <3>1, <3>3, <3>4, <3>5, <3>6 DEF Fresh
    <3>9. \A v \in B!Uploads : index'[v] <= clock'
      BY <1>i, <2>1, <3>1, <3>2
    <3> QED
      BY <2>1, <3>7, <3>8, <3>9 DEF CacheInv, Known, Reached
  <2> QED
    BY <2>2, <2>3
<1>5. ASSUME NEW u \in B!Sheets, B!Save(u) PROVE CacheInv'
  <2> DEFINE built == ijob[u].built
  <2>1. /\ UNCHANGED <<clock, search, cache>> /\ ijob[u].at = "save" /\ u \in B!Uploads
        /\ index' = [index EXCEPT ![u] = built]
        /\ ijob' = [ijob EXCEPT ![u].at = "note"]
        /\ bShaken' = (bShaken \/ \E v \in B!Sheets : index[v] > built)
    BY <1>5, <1>a DEF B!Save
  <2>2. Fresh(u) /\ built \in Nat /\ built # 0 /\ built <= clock
    BY <1>i, <2>1 DEF CacheInv, Fresh, IndexJobs
  <2>3. \A v \in B!Uploads : index'[v] <= clock'
    BY <1>i, <2>1, <2>2 DEF CacheInv
  <2>4. \A v \in B!Uploads : ijob'[v].at = "save" => v # u /\ ijob'[v] = ijob[v]
    BY <1>i, <2>1 DEF IndexJobs
  <2>5. \A v \in B!Uploads : ijob'[v].at = "save" => Fresh(v)'
    BY <1>i, <2>1, <2>2, <2>4 DEF CacheInv, Fresh
  <2>6. ASSUME ~bShaken' PROVE ~bShaken /\ \A v \in B!Uploads : index[v] < built
    <3>1. ~bShaken /\ \A v \in B!Sheets : ~(index[v] > built)
      BY <2>1, <2>6
    <3>2. \A v \in B!Uploads : index[v] \in Nat /\ index[v] # built
      BY <1>i, <2>2 DEF Fresh
    <3>3. \A v \in B!Uploads \ B!Sheets : index[v] = 0
      BY DEF BooksShape
    <3> QED
      BY <1>a, <2>2, <3>1, <3>2, <3>3
  <2>7. ASSUME ~bShaken', NEW mark \in 0 .. MaxClock, Reached(mark)
        PROVE  Known(mark)' = Known(mark) /\ Reached(mark)'
    <3>1. mark < built
      BY <1>i, <2>2, <2>6, <2>7 DEF Reached
    <3>2. \A v \in B!Uploads : index'[v] = IF v = u THEN built ELSE index[v]
      BY <1>i, <2>1
    <3>3. index[u] = 0
      BY <2>2 DEF Fresh
    <3>4. \A v \in B!Uploads : v \in Known(mark)' <=> v \in Known(mark)
      BY <1>i, <2>2, <3>1, <3>2, <3>3 DEF Known
    <3>5. Reached(mark)'
      BY <1>i, <2>1, <2>2, <3>1, <3>2 DEF Reached
    <3> QED
      BY <3>4, <3>5 DEF Known
  <2>8. ASSUME ~bShaken', NEW mark \in 0 .. MaxClock, cache'[mark] # <<>>
        PROVE  cache'[mark] = <<Known(mark)>>' /\ Reached(mark)'
    BY <2>1, <2>6, <2>7, <2>8 DEF CacheInv
  <2>9. ASSUME ~bShaken', search'.at = "rank"
        PROVE  search'.ids = Known(search.mark)' /\ Reached(search.mark)'
    <3>1. search.ids = Known(search.mark) /\ Reached(search.mark) /\ search.mark \in 0 .. MaxClock
      BY <1>s, <2>1, <2>6, <2>9 DEF CacheInv
    <3>2. Known(search.mark)' = {v \in B!Uploads : index'[v] # 0 /\ index'[v] <= search.mark}
      BY <2>1 DEF Known
    <3>3. \A mark : mark = search.mark => Known(mark)' = Known(mark) /\ Reached(mark)'
      BY <2>7, <2>9, <3>1
    <3> QED
      BY <2>1, <3>1, <3>3 DEF Known, Reached
  <2> QED
    BY <2>1, <2>3, <2>5, <2>8, <2>9 DEF CacheInv, Known, Reached
<1>6. ASSUME NEW u \in B!Sheets, B!NoteCatalog(u) PROVE CacheInv'
  <2>1. /\ UNCHANGED <<index, clock, search, cache, bShaken>> /\ u \in B!Uploads
        /\ ijob' = [ijob EXCEPT ![u] = [at |-> "done", built |-> 0]]
    BY <1>6, <1>a DEF B!NoteCatalog
  <2>2. \A v \in B!Uploads : ijob'[v].at = "save" => ijob'[v] = ijob[v]
    BY <1>i, <2>1
  <2> QED
    BY <2>1, <2>2, CacheFrame
<1>7. ASSUME NEW u \in B!Sheets,
             \/ B!ParseStarts(u) \/ B!ParseWindow(u) \/ B!UpsertRow(u) \/ B!ParseEnds(u)
             \/ B!after_finish(u) \/ B!ParseFails(u)
      PROVE  CacheInv'
  BY <1>7, CacheFrame
     DEF B!ParseStarts, B!ParseWindow, B!UpsertRow, B!ParseEnds, B!after_finish, B!ParseFails
<1>8. ASSUME B!ReadHeaders PROVE CacheInv'
  <2> DEFINE mark == B!headers_watermark(B!Catalogs)
  <2>1. /\ UNCHANGED <<index, ijob, clock, cache, bShaken>>
        /\ search' = [at |-> "rank", mark |-> mark, ids |-> B!Catalogs]
    BY <1>8 DEF B!ReadHeaders
  <2>2. mark \in 0 .. MaxClock /\ B!Catalogs = Known(mark) /\ Reached(mark)
    BY <1>i, Catalogued DEF Known, Reached, B!Catalogs
  <2> HIDE DEF mark
  <2>3. search'.ids = Known(search'.mark) /\ Reached(search'.mark)
    BY <2>1, <2>2
  <2> QED
    BY <2>1, <2>3 DEF CacheInv, Known, Reached, Fresh
<1>9. ASSUME B!Rank PROVE CacheInv'
  <2>1. /\ UNCHANGED <<index, ijob, clock, bShaken>> /\ search.at = "rank"
        /\ cache' = [cache EXCEPT ![search.mark] = <<search.ids \cap B!Catalogs>>]
        /\ search' = [at |-> "idle", mark |-> 0, ids |-> {}]
    BY <1>9 DEF B!Rank, B!find_pages_cache_key
  <2>2. ASSUME ~bShaken, NEW mark \in 0 .. MaxClock, cache'[mark] # <<>>
        PROVE  cache'[mark] = <<Known(mark)>> /\ Reached(mark)
    <3>1. CASE mark = search.mark
      <4>1. search.ids = Known(mark) /\ Reached(mark)
        BY <2>1, <2>2, <3>1 DEF CacheInv
      <4>2. search.ids \cap B!Catalogs = Known(mark)
        BY <4>1 DEF Known, B!Catalogs
      <4> QED
        BY <1>s, <2>1, <3>1, <4>1, <4>2
    <3>2. CASE mark # search.mark
      BY <1>s, <2>1, <2>2, <3>2 DEF CacheInv
    <3> QED
      BY <3>1, <3>2
  <2> QED
    BY <2>1, <2>2 DEF CacheInv, Known, Reached, Fresh
<1>10. ASSUME B!Crash PROVE CacheInv'
  <2>1. /\ UNCHANGED <<index, clock, search, cache, bShaken>>
        /\ \/ UNCHANGED ijob
           \/ \E u \in B!Sheets : ijob' = [ijob EXCEPT ![u] = [at |-> "queued", built |-> 0]]
    BY <1>10 DEF B!Crash
  <2>2. \A v \in B!Uploads : ijob'[v].at = "save" => ijob'[v] = ijob[v]
    BY <1>i, <2>1
  <2> QED
    BY <2>1, <2>2, CacheFrame
<1>11. ASSUME UNCHANGED B!vars PROVE CacheInv'
  BY <1>11, CacheFrame DEF B!vars
<1> QED
  BY <1>1, <1>2, <1>3, <1>4, <1>5, <1>6, <1>7, <1>8, <1>9, <1>10, <1>11, BooksSteps
     DEF BooksActions

\* A search answered from the cache is answered as a fresh one would be, until
\* a description is removed or saved after a newer one.
LEMMA CacheServes == BooksShape /\ CacheInv => ServedIsCurrent
<1> SUFFICES ASSUME BooksShape, CacheInv, ~bShaken
             PROVE  B!Cached(B!headers_watermark(B!Catalogs)) \in {<<>>, <<B!Catalogs>>}
  BY DEF ServedIsCurrent, B!ServedIsCurrent
<1> DEFINE mark == B!headers_watermark(B!Catalogs)
<1>1. mark \in 0 .. MaxClock /\ B!Catalogs = Known(mark)
  <2>1. index \in [B!Uploads -> 0 .. MaxClock]
    BY JobsType
  <2> QED
    BY <2>1, Catalogued DEF Known, B!Catalogs
<1>2. cache[mark] # <<>> => cache[mark] = <<Known(mark)>>
  BY <1>1 DEF CacheInv
<1> QED
  BY <1>1, <1>2 DEF B!Cached, B!find_pages_cache_key

\* PriceBooks counts as this module does.
LEMMA Counts == \A S : B!Cardinality(S) = Cardinality(S)
BY DEF B!Cardinality, Cardinality

\* A sheet stays the one it was, of the owner it had.
LEMMA SheetsKept ==
  ASSUME BooksShape, [B!Next]_B!vars, NEW u \in B!Sheets
  PROVE  /\ u \in B!Sheets' /\ bSheet'[u] = bSheet[u]
         /\ B!Content(u)' = B!Content(u) /\ B!Owner(u)' = B!Owner(u)
<1>1. /\ bSheet[u] \in [book : Books, content : B!Contents]
      /\ bSheet \in Seq([book : Books, content : B!Contents]) /\ u \in 1 .. Len(bSheet)
  BY SheetsType DEF BooksShape, B!BooksTypeOK
<1>2. UNCHANGED bSheet
      \/ \E b \in Books, c \in B!Contents : bSheet' = Append(bSheet, [book |-> b, content |-> c])
  BY BooksSteps
     DEF BooksActions, B!UploadPriceBookFile, B!DeletePriceBook, B!RemoveIndex, B!PurgePages,
         B!Describe, B!Save, B!NoteCatalog, B!ParseStarts, B!ParseWindow, B!UpsertRow,
         B!ParseEnds, B!after_finish, B!ParseFails, B!ReadHeaders, B!Rank, B!Crash, B!vars
<1>3. bSheet'[u] = bSheet[u] /\ u \in 1 .. Len(bSheet')
  <2>1. CASE UNCHANGED bSheet
    BY <1>1, <2>1
  <2>2. ASSUME NEW b \in Books, NEW c \in B!Contents,
               bSheet' = Append(bSheet, [book |-> b, content |-> c])
        PROVE  bSheet'[u] = bSheet[u] /\ u \in 1 .. Len(bSheet')
    BY <1>1, <2>2
  <2> QED
    BY <1>2, <2>1, <2>2
<1>4. \A b \in Books : book'[b].multiplier = book[b].multiplier
  <2>0. book \in [Books -> BookFields]
    BY JobsType
  <2>1. ASSUME NEW e \in Books, NEW fields, B!Note(e, fields),
               fields.multiplier = book[e].multiplier
        PROVE  \A b \in Books : book'[b].multiplier = book[b].multiplier
    <3>1. book' = book \/ book' = [book EXCEPT ![e] = fields]
      BY <2>1 DEF B!Note
    <3> QED
      BY <2>0, <2>1, <3>1
  <2>2. \A e \in Books : /\ \A at : [book[e] EXCEPT !.parse = at].multiplier = book[e].multiplier
                       /\ \A v : [book[e] EXCEPT !.id = v].multiplier = book[e].multiplier
    BY <2>0 DEF BookFields
  <2>8. \A v \in B!Sheets : bSheet[v].book \in Books
    BY SheetsType
  <2>3. ASSUME NEW b \in Books, NEW c \in B!Contents, B!UploadPriceBookFile(b, c)
        PROVE  \A d \in Books : book'[d].multiplier = book[d].multiplier
    BY <2>0, <2>3 DEF B!UploadPriceBookFile, BookFields
  <2>4. ASSUME NEW b \in Books, B!DeletePriceBook(b)
        PROVE  \A d \in Books : book'[d].multiplier = book[d].multiplier
    BY <2>0, <2>4 DEF B!DeletePriceBook, BookFields
  <2>5. \/ UNCHANGED book
        \/ \E b \in Books, c \in B!Contents : B!UploadPriceBookFile(b, c)
        \/ \E b \in Books : B!DeletePriceBook(b)
        \/ \E v \in B!Sheets : B!NoteCatalog(v) \/ B!ParseStarts(v) \/ B!after_finish(v)
    BY BooksSteps
       DEF BooksActions, B!RemoveIndex, B!PurgePages, B!Describe, B!Save, B!ParseWindow,
           B!UpsertRow, B!ParseEnds, B!ParseFails, B!ReadHeaders, B!Rank, B!Crash, B!vars
  <2>6. ASSUME NEW v \in B!Sheets, B!NoteCatalog(v)
        PROVE  \A b \in Books : book'[b].multiplier = book[b].multiplier
    BY <2>1, <2>2, <2>6, <2>8 DEF B!NoteCatalog
  <2>7. ASSUME NEW v \in B!Sheets, B!ParseStarts(v) \/ B!after_finish(v)
        PROVE  \A b \in Books : book'[b].multiplier = book[b].multiplier
    BY <2>1, <2>2, <2>7, <2>8 DEF B!ParseStarts, B!after_finish
  <2> QED
    BY <2>3, <2>4, <2>5, <2>6, <2>7
<1> QED
  BY <1>1, <1>3, <1>4 DEF B!Content, B!Owner, B!Sheets

\* What is left of each kind of fault never grows.
LEMMA FaultsSpent ==
  ASSUME BooksShape, RowsInv, [B!Next]_B!vars, NEW fault \in B!Faults
  PROVE  /\ bBudget'[fault] <= Failures[fault]
         /\ bBudget'[fault] = Failures[fault] => bBudget[fault] = Failures[fault]
<1>1. \/ UNCHANGED bBudget
      \/ \E spent \in B!Faults : B!Spend(spent)
  BY BooksSteps
     DEF BooksActions, B!UploadPriceBookFile, B!DeletePriceBook, B!RemoveIndex, B!PurgePages,
         B!Describe, B!Save, B!NoteCatalog, B!ParseStarts, B!ParseWindow, B!UpsertRow,
         B!ParseEnds, B!after_finish, B!ParseFails, B!ReadHeaders, B!Rank, B!Crash, B!vars,
         B!Faults
<1>2. bBudget \in [B!Faults -> Nat] /\ Failures \in [B!Faults -> Nat]
  BY PriceBooksAssumption DEF BooksShape
<1>3. ASSUME NEW spent \in B!Faults, B!Spend(spent)
      PROVE  bBudget'[fault] \in Nat /\ bBudget'[fault] <= bBudget[fault]
  BY <1>2, <1>3, BooksSpend
<1> QED
  BY <1>1, <1>2, <1>3 DEF RowsInv

\* A parse that is disturbed, or not at work on rows, or left alone, keeps what
\* is said of it.
LEMMA RowsFrame ==
  ASSUME BooksShape, RowsInv, [B!Next]_B!vars,
         \A u \in B!Sheets' :
           \/ ~pjob'[u].alone
           \/ pjob'[u].at \notin {"window", "rows"}
           \/ bBudget'["short"] = Failures["short"] /\ pjob'[u].alone => RowsOf(u)'
           \/ /\ u \in B!Sheets /\ pjob'[u] = pjob[u]
              /\ pages'[B!Owner(u)] = pages[B!Owner(u)]
  PROVE  RowsInv'
<1>1. ASSUME bBudget'["short"] = Failures["short"], NEW u \in B!Sheets', pjob'[u].alone
      PROVE  RowsOf(u)'
  <2>1. CASE pjob'[u].at \notin {"window", "rows"}
    BY <2>1 DEF RowsOf
  <2>2. CASE u \in B!Sheets /\ pjob'[u] = pjob[u] /\ pages'[B!Owner(u)] = pages[B!Owner(u)]
    <3>1. bBudget["short"] = Failures["short"]
      BY <1>1, FaultsSpent DEF B!Faults
    <3>2. RowsOf(u)
      BY <1>1, <2>2, <3>1 DEF RowsInv
    <3>3. B!Owner(u)' = B!Owner(u) /\ B!Content(u)' = B!Content(u)
      BY <2>2, SheetsKept
    <3>4. B!Window(u)' = B!Window(u)
      BY <2>2, <3>3 DEF B!Window
    <3> QED
      BY <2>2, <3>2, <3>3, <3>4 DEF RowsOf
  <2> QED
    BY <1>1, <2>1, <2>2
<1>2. \A fault \in B!Faults : bBudget'[fault] <= Failures[fault]
  BY FaultsSpent
<1> QED
  BY <1>1, <1>2 DEF RowsInv

LEMMA RowsKept ==
  ASSUME BooksShape, RowsInv, [B!Next]_B!vars
  PROVE  RowsInv'
<1>a. B!Sheets \subseteq B!Uploads
  BY SheetsType
<1>p. /\ pjob \in [B!Uploads -> ParseJobs]
      /\ pages \in [B!Owners -> [1 .. B!LastPage -> B!Contents \cup {"none"}]]
  BY JobsType
<1>1. ASSUME NEW b \in Books, NEW c \in B!Contents, B!UploadPriceBookFile(b, c)
      PROVE  RowsInv'
  <2> DEFINE u == Len(bSheet) + 1
  <2>1. /\ pages' = pages /\ u \in B!Uploads /\ u \notin B!Sheets
        /\ pjob' = pjob \/ pjob' = [pjob EXCEPT ![u].at = "queued"]
        /\ B!Sheets' = B!Sheets \cup {u}
    <3>1. bSheet' = Append(bSheet, [book |-> b, content |-> c])
      BY <1>1 DEF B!UploadPriceBookFile
    <3>2. bSheet \in Seq([book : Books, content : B!Contents]) /\ B!Sheets = 1 .. Len(bSheet)
      BY SheetsType DEF BooksShape, B!BooksTypeOK
    <3>3. Len(bSheet') = u
      BY <3>1, <3>2
    <3> QED
      BY <1>1, <3>2, <3>3 DEF B!UploadPriceBookFile, B!Sheets
  <2>2. pjob[u].at = "none"
    BY <2>1 DEF BooksShape
  <2>3. \A v \in B!Sheets : pjob'[v] = pjob[v]
    BY <1>a, <1>p, <2>1
  <2>4. pjob'[u].at \notin {"window", "rows"}
    BY <1>p, <2>1, <2>2 DEF ParseJobs
  <2> QED
    BY <2>1, <2>3, <2>4, RowsFrame
<1>2. ASSUME NEW b \in Books, B!PurgePages(b) PROVE RowsInv'
  <2> DEFINE of == {<<"catalogPages", b>>,
                    <<"multiplierPages", IF djob[b].id # B!NoSheet THEN djob[b].id ELSE djob[b].file>>}
  <2>1. /\ bSheet' = bSheet
        /\ pages' = [o \in B!Owners |-> IF o \in of THEN [p \in 1 .. B!LastPage |-> "none"]
                                        ELSE pages[o]]
        /\ pjob' = [v \in B!Uploads |-> IF v \in B!Sheets /\ B!Owner(v) \in of
                                        THEN [pjob[v] EXCEPT !.alone = FALSE] ELSE pjob[v]]
    BY <1>2 DEF B!PurgePages
  <2> HIDE DEF of
  <2>2. ASSUME NEW u \in B!Sheets
        PROVE  \/ ~pjob'[u].alone
               \/ u \in B!Sheets /\ pjob'[u] = pjob[u] /\ pages'[B!Owner(u)] = pages[B!Owner(u)]
    <3>1. u \in B!Uploads /\ B!Owner(u) \in B!Owners /\ pjob[u] \in ParseJobs
      BY <1>a, <1>p, OwnersType
    <3>2. CASE B!Owner(u) \in of
      BY <2>1, <3>1, <3>2 DEF ParseJobs
    <3>3. CASE B!Owner(u) \notin of
      BY <2>1, <3>1, <3>3
    <3> QED
      BY <3>2, <3>3
  <2>3. B!Sheets' = B!Sheets
    BY <2>1 DEF B!Sheets
  <2> QED
    BY <2>2, <2>3, RowsFrame
<1>3. ASSUME NEW u \in B!Sheets, UNCHANGED <<bSheet, pages>>,
             \A v \in B!Uploads \ {u} : pjob'[v] = pjob[v],
             \/ pjob'[u].at \notin {"window", "rows"}
             \/ pjob'[u].at = "window" /\ pjob'[u].next = 1
      PROVE  RowsInv'
  <2>1. RowsOf(u)'
    <3>1. pjob'[u].at = "window" => pjob'[u].next = 1 /\ pjob'[u].at # "rows"
      BY <1>3
    <3>2. \A p \in 1 .. PageCount[B!Content(u)] : ~(p < 1)
      <4>1. \A c \in B!Contents : PageCount[c] \in Nat
        BY PriceBooksAssumption DEF B!Contents
      <4> QED
        BY <4>1, Windows
    <3>3. B!Content(u)' = B!Content(u)
      BY SheetsKept
    <3> QED
      BY <1>3, <3>1, <3>2, <3>3 DEF RowsOf
  <2>2. B!Sheets' = B!Sheets
    BY <1>3 DEF B!Sheets
  <2> QED
    BY <1>3, <1>a, <2>1, <2>2, RowsFrame
<1>4. ASSUME NEW u \in B!Sheets, B!ParseStarts(u) PROVE RowsInv'
  <2>1. /\ UNCHANGED <<bSheet, pages>>
        /\ \E at \in {"window", "dead"} :
             pjob' = [pjob EXCEPT ![u] = [at |-> at, next |-> 1, left |-> {}, alone |-> TRUE]]
    BY <1>4 DEF B!ParseStarts
  <2> QED
    BY <2>1, <1>3, <1>a, <1>p
<1>5. ASSUME NEW u \in B!Sheets, B!ParseWindow(u) PROVE RowsInv'
  <2>1. /\ UNCHANGED <<bSheet, pages>> /\ pjob[u].at = "window" /\ u \in B!Uploads
        /\ pjob[u].next <= PageCount[B!Content(u)] /\ B!Sheets' = B!Sheets
    BY <1>5, <1>a DEF B!ParseWindow, B!Sheets
  <2>2. /\ \A v \in B!Uploads \ {u} : pjob'[v] = pjob[v]
        /\ pjob'[u].alone = pjob[u].alone
    BY <1>5, <1>p, <2>1 DEF B!ParseWindow, ParseJobs
  <2>3. ASSUME bBudget'["short"] = Failures["short"], pjob'[u].alone
        PROVE  RowsOf(u)'
    <3>1. RowsOf(u)
      <4>1. bBudget["short"] = Failures["short"]
        BY <2>3, FaultsSpent DEF B!Faults
      <4> QED
        BY <2>2, <2>3, <4>1 DEF RowsInv
    <3>2. /\ B!Owner(u)' = B!Owner(u) /\ B!Content(u)' = B!Content(u)
          /\ pages'[B!Owner(u)] = pages[B!Owner(u)]
      BY <2>1, SheetsKept
    <3>3. /\ pjob[u].next \in Nat /\ WindowPages \in Nat /\ pjob[u] \in ParseJobs
          /\ PageCount[B!Content(u)] \in Nat
      <4>1. pjob[u].next \in 1 .. B!LastPage + WindowPages /\ pjob[u] \in ParseJobs
        BY <1>p, <2>1 DEF ParseJobs
      <4> QED
        BY <4>1, Windows, LastPageIsThere, PriceBooksAssumption
    <3>4. CASE Cardinality(B!Existing(u)) >= Cardinality(B!Window(u))
      <4>1. pjob' = [pjob EXCEPT ![u].next = @ + WindowPages]
        BY <1>5, <3>4, Counts DEF B!ParseWindow
      <4>2. pjob'[u].at = "window" /\ pjob'[u].next = pjob[u].next + WindowPages
        BY <1>p, <2>1, <3>3, <4>1 DEF ParseJobs
      <4>3. \A p \in B!Window(u) : pages[B!Owner(u)][p] = B!Content(u)
        <5>1. B!Existing(u) \in SUBSET B!Window(u) /\ IsFiniteSet(B!Window(u))
          BY Windows DEF B!Existing
        <5>2. /\ Cardinality(B!Existing(u)) <= Cardinality(B!Window(u))
              /\ Cardinality(B!Window(u)) = Cardinality(B!Existing(u))
                   => B!Window(u) = B!Existing(u)
              /\ IsFiniteSet(B!Existing(u))
          BY <5>1, FS_Subset
        <5>3. Cardinality(B!Existing(u)) \in Nat /\ Cardinality(B!Window(u)) \in Nat
          BY <5>1, <5>2, FS_CardinalityType
        <5>4. B!Window(u) = B!Existing(u)
          BY <3>4, <5>2, <5>3
        <5> QED
          BY <5>4 DEF B!Existing
      <4>4. ASSUME NEW p \in 1 .. PageCount[B!Content(u)], p < pjob'[u].next
            PROVE  pages[B!Owner(u)][p] = B!Content(u)
        <5>1. CASE p < pjob[u].next
          BY <2>1, <3>1, <5>1 DEF RowsOf
        <5>2. CASE ~(p < pjob[u].next)
          <6>1. p \in B!Window(u)
            BY <3>3, <4>2, <4>4, <5>2, Windows
          <6> QED
            BY <4>3, <6>1
        <5> QED
          BY <5>1, <5>2
      <4> QED
        BY <3>2, <4>2, <4>4 DEF RowsOf
    <3>5. CASE ~(Cardinality(B!Existing(u)) >= Cardinality(B!Window(u)))
      <4>1. PICK got \in {B!Window(u), {}} :
              /\ got # B!Window(u) => B!Spend("short")
              /\ pjob' = [pjob EXCEPT ![u].at = "rows", ![u].left = got]
        BY <1>5, <3>5, Counts DEF B!ParseWindow
      <4>2. got = B!Window(u)
        <5>1. B!Spend("short") => bBudget'["short"] = bBudget["short"] - 1 /\ bBudget["short"] \in Nat
          BY JobsType DEF B!Spend, B!Faults
        <5>2. bBudget["short"] = Failures["short"]
          BY <2>3, FaultsSpent DEF B!Faults
        <5> QED
          BY <2>3, <4>1, <5>1, <5>2
      <4>3. /\ pjob'[u].at = "rows" /\ pjob'[u].left = B!Window(u)
            /\ pjob'[u].next = pjob[u].next
        BY <1>p, <2>1, <3>3, <4>1, <4>2 DEF ParseJobs
      <4>4. B!Window(u)' = B!Window(u)
        BY <3>2, <4>3 DEF B!Window
      <4> QED
        BY <2>1, <3>1, <3>2, <4>3, <4>4 DEF RowsOf
    <3> QED
      BY <3>4, <3>5
  <2> QED
    BY <2>1, <2>2, <2>3, <1>a, RowsFrame
<1>6. ASSUME NEW u \in B!Sheets, B!UpsertRow(u) PROVE RowsInv'
  <2>1. /\ bSheet' = bSheet /\ pjob[u].at = "rows" /\ u \in B!Uploads /\ B!Sheets' = B!Sheets
        /\ pjob[u] \in ParseJobs
    BY <1>6, <1>a, <1>p DEF B!UpsertRow, B!Sheets
  <2>2. B!Owner(u)' = B!Owner(u) /\ B!Content(u)' = B!Content(u)
    BY SheetsKept
  <2>3. CASE pjob[u].left = {}
    <3>1. pages' = pages /\ pjob' = [pjob EXCEPT ![u].at = "window", ![u].next = @ + WindowPages]
      BY <1>6, <2>3 DEF B!UpsertRow
    <3>2. /\ pjob'[u].at = "window" /\ pjob'[u].next = pjob[u].next + WindowPages
          /\ pjob'[u].alone = pjob[u].alone
          /\ \A v \in B!Uploads \ {u} : pjob'[v] = pjob[v]
      BY <1>p, <2>1, <3>1 DEF ParseJobs
    <3>3. ASSUME bBudget'["short"] = Failures["short"], pjob'[u].alone PROVE RowsOf(u)'
      <4>1. bBudget["short"] = Failures["short"]
        BY <3>3, FaultsSpent DEF B!Faults
      <4>2. RowsOf(u)
        BY <3>2, <3>3, <4>1 DEF RowsInv
      <4>3. /\ pjob[u].next \in Nat /\ WindowPages \in Nat /\ PageCount[B!Content(u)] \in Nat
        <5>1. pjob[u].next \in 1 .. B!LastPage + WindowPages
          BY <2>1 DEF ParseJobs
        <5> QED
          BY <5>1, Windows, LastPageIsThere, PriceBooksAssumption
      <4>4. ASSUME NEW p \in 1 .. PageCount[B!Content(u)], p < pjob'[u].next
            PROVE  pages[B!Owner(u)][p] = B!Content(u)
        <5>1. CASE p < pjob[u].next
          BY <2>1, <4>2, <5>1 DEF RowsOf
        <5>2. CASE ~(p < pjob[u].next)
          <6>1. p \in B!Window(u) \ pjob[u].left
            BY <2>3, <3>2, <4>3, <4>4, <5>2, Windows
          <6> QED
            BY <2>1, <4>2, <6>1 DEF RowsOf
        <5> QED
          BY <5>1, <5>2
      <4> QED
        BY <2>2, <3>1, <3>2, <4>4 DEF RowsOf
    <3> QED
      BY <1>a, <2>1, <3>1, <3>2, <3>3, RowsFrame
  <2>4. CASE pjob[u].left # {}
    <3> DEFINE p == B!Min(pjob[u].left)
    <3>1. /\ pages' = [pages EXCEPT ![B!Owner(u)][p] = B!Content(u)]
          /\ pjob' = [B!Disturbs(pjob, B!Owner(u), {u}) EXCEPT ![u].left = @ \ {p}]
      BY <1>6, <2>4 DEF B!UpsertRow
    <3>2. p \in pjob[u].left /\ p \in 1 .. B!LastPage
      <4>1. /\ pjob[u].left \in SUBSET (1 .. B!LastPage) /\ IsFiniteSet(1 .. B!LastPage)
            /\ pjob[u].left \in SUBSET Nat
        <5>1. pjob[u].left \in SUBSET (1 .. B!LastPage) /\ B!LastPage \in Int
          BY <2>1, LastPageIsThere DEF ParseJobs
        <5>2. IsFiniteSet(1 .. B!LastPage)
          BY <5>1, FS_Interval
        <5> QED
          BY <5>1, <5>2
      <4>2. IsFiniteSet(pjob[u].left)
        BY <4>1, FS_Subset
      <4> QED
        BY <2>4, <4>1, <4>2, LargestAndSmallest
    <3> HIDE DEF p
    <3>3. /\ pjob'[u] = [pjob[u] EXCEPT !.left = @ \ {p}]
          /\ \A v \in B!Uploads \ {u} :
               pjob'[v] = IF v \in B!Sheets /\ B!Owner(v) = B!Owner(u)
                          THEN [pjob[v] EXCEPT !.alone = FALSE] ELSE pjob[v]
      BY <1>p, <2>1, <3>1 DEF B!Disturbs
    <3>4. B!Owner(u) \in B!Owners
      BY OwnersType
    <3>5. ASSUME NEW v \in B!Sheets, v # u
          PROVE  ~pjob'[v].alone \/ (pjob'[v] = pjob[v] /\ pages'[B!Owner(v)] = pages[B!Owner(v)])
      <4>1. v \in B!Uploads /\ pjob[v] \in ParseJobs
        BY <1>a, <1>p
      <4>2. CASE B!Owner(v) = B!Owner(u)
        BY <3>3, <3>5, <4>1, <4>2 DEF ParseJobs
      <4>3. CASE B!Owner(v) # B!Owner(u)
        <5>1. pjob'[v] = pjob[v]
          BY <3>3, <3>5, <4>1, <4>3
        <5>2. B!Owner(v) \in B!Owners
          BY OwnersType
        <5> QED
          BY <1>p, <3>1, <3>4, <4>3, <5>1, <5>2
      <4> QED
        BY <4>2, <4>3
    <3>6. ASSUME bBudget'["short"] = Failures["short"], pjob'[u].alone PROVE RowsOf(u)'
      <4>1. bBudget["short"] = Failures["short"]
        BY <3>6, FaultsSpent DEF B!Faults
      <4>2. /\ pjob'[u].at = "rows" /\ pjob'[u].next = pjob[u].next
            /\ pjob'[u].alone = pjob[u].alone /\ pjob'[u].left = pjob[u].left \ {p}
        BY <2>1, <3>3 DEF ParseJobs
      <4>3. RowsOf(u)
        BY <3>6, <4>1, <4>2 DEF RowsInv
      <4>4. B!Window(u)' = B!Window(u)
        BY <2>2, <4>2 DEF B!Window
      <4>5. \A q \in 1 .. B!LastPage :
              pages'[B!Owner(u)][q] = IF q = p THEN B!Content(u) ELSE pages[B!Owner(u)][q]
        BY <1>p, <3>1, <3>2, <3>4
      <4>6. /\ B!Window(u) \subseteq 1 .. B!LastPage
            /\ 1 .. PageCount[B!Content(u)] \subseteq 1 .. B!LastPage
        <5>1. PageCount[B!Content(u)] \in 1 .. B!LastPage /\ B!LastPage \in Nat
          BY Windows, LastPageIsThere
        <5> QED
          BY <5>1, Windows
      <4> QED
        BY <2>1, <2>2, <4>2, <4>3, <4>4, <4>5, <4>6 DEF RowsOf
    <3> QED
      BY <2>1, <3>5, <3>6, RowsFrame
  <2> QED
    BY <2>3, <2>4
<1>7. ASSUME NEW u \in B!Sheets, B!ParseEnds(u) \/ B!after_finish(u) \/ B!ParseFails(u)
      PROVE  RowsInv'
  <2>1. /\ UNCHANGED <<bSheet, pages>>
        /\ \E at \in {"parsed", "done", "dead", "queued", "failed"} :
             pjob' = [pjob EXCEPT ![u].at = at]
    BY <1>7 DEF B!ParseEnds, B!after_finish, B!ParseFails
  <2>2. /\ \A v \in B!Uploads \ {u} : pjob'[v] = pjob[v]
        /\ pjob'[u].at \notin {"window", "rows"}
    BY <2>1, <1>a, <1>p DEF ParseJobs
  <2> QED
    BY <2>1, <2>2, <1>3
<1>8. ASSUME B!Crash PROVE RowsInv'
  <2>1. UNCHANGED <<bSheet, pages>>
    BY <1>8 DEF B!Crash
  <2>2. CASE UNCHANGED pjob
    <3>1. B!Sheets' = B!Sheets
      BY <2>1 DEF B!Sheets
    <3> QED
      BY <2>1, <2>2, <3>1, RowsFrame
  <2>3. ASSUME NEW u \in B!Sheets,
               \/ pjob' = [pjob EXCEPT ![u].at = "queued", ![u].left = {}]
               \/ pjob' = [pjob EXCEPT ![u].at = IF @ = "parsed" THEN "done" ELSE "dead"]
        PROVE  RowsInv'
    <3>1. /\ \A v \in B!Uploads \ {u} : pjob'[v] = pjob[v]
          /\ pjob'[u].at \notin {"window", "rows"}
      BY <2>3, <1>a, <1>p DEF ParseJobs
    <3> QED
      BY <2>1, <3>1, <1>3
  <2> QED
    BY <1>8, <2>2, <2>3 DEF B!Crash
<1>9. ASSUME UNCHANGED <<bSheet, pages, pjob>> PROVE RowsInv'
  <2>1. B!Sheets' = B!Sheets
    BY <1>9 DEF B!Sheets
  <2> QED
    BY <1>9, <2>1, RowsFrame
<1>10. \/ \E b \in Books, c \in B!Contents : B!UploadPriceBookFile(b, c)
       \/ \E b \in Books : B!PurgePages(b)
       \/ \E u \in B!Sheets : \/ B!ParseStarts(u) \/ B!ParseWindow(u) \/ B!UpsertRow(u)
                              \/ B!ParseEnds(u) \/ B!after_finish(u) \/ B!ParseFails(u)
       \/ B!Crash \/ UNCHANGED <<bSheet, pages, pjob>>
  BY BooksSteps
     DEF BooksActions, B!DeletePriceBook, B!RemoveIndex, B!Describe, B!Save, B!NoteCatalog,
         B!ReadHeaders, B!Rank, B!vars
<1> QED
  BY <1>1, <1>2, <1>4, <1>5, <1>6, <1>7, <1>8, <1>9, <1>10

\* Only the end of its windows ends a parse.
LEMMA EndsAtTheEnd ==
  ASSUME BooksShape, [B!Next]_B!vars, NEW u \in B!Sheets,
         pjob[u].at = "window", pjob'[u].at = "parsed"
  PROVE  pjob[u].next > PageCount[B!Content(u)]
<1>a. /\ u \in B!Uploads /\ pjob \in [B!Uploads -> ParseJobs] /\ B!Sheets \subseteq B!Uploads
      /\ \A v \in B!Uploads : pjob[v] \in ParseJobs
  BY SheetsType, JobsType
<1>1. ASSUME NEW v \in B!Sheets, B!ParseEnds(v) PROVE pjob[u].next > PageCount[B!Content(u)]
  <2>1. v = u
    BY <1>1, <1>a DEF B!ParseEnds
  <2> QED
    BY <1>1, <2>1 DEF B!ParseEnds
<1>2. ASSUME NEW b \in Books, NEW c \in B!Contents, B!UploadPriceBookFile(b, c) PROVE FALSE
  <2>1. pjob' = pjob \/ pjob' = [pjob EXCEPT ![Len(bSheet) + 1].at = "queued"]
    BY <1>2 DEF B!UploadPriceBookFile
  <2> QED
    BY <1>a, <2>1 DEF ParseJobs
<1>3. ASSUME NEW b \in Books, B!PurgePages(b) PROVE FALSE
  <2>1. pjob'[u] = pjob[u] \/ pjob'[u] = [pjob[u] EXCEPT !.alone = FALSE]
    BY <1>3, <1>a DEF B!PurgePages
  <2> QED
    BY <1>a, <2>1 DEF ParseJobs
<1>4. ASSUME NEW v \in B!Sheets, B!ParseStarts(v) \/ B!after_finish(v) PROVE FALSE
  <2>1. pjob[v].at # "window" /\ \A w \in B!Uploads \ {v} : pjob'[w] = pjob[w]
    BY <1>4, <1>a DEF B!ParseStarts, B!after_finish
  <2> QED
    BY <1>a, <2>1
<1>5. ASSUME NEW v \in B!Sheets, B!ParseWindow(v) PROVE FALSE
  <2>1. \/ pjob' = [pjob EXCEPT ![v].next = @ + WindowPages]
        \/ \E got \in {B!Window(v), {}} : pjob' = [pjob EXCEPT ![v].at = "rows", ![v].left = got]
    BY <1>5 DEF B!ParseWindow
  <2> QED
    BY <1>a, <2>1 DEF ParseJobs
<1>6. ASSUME NEW v \in B!Sheets, B!UpsertRow(v) PROVE FALSE
  <2>1. pjob[v].at = "rows"
    BY <1>6 DEF B!UpsertRow
  <2>2. v # u
    BY <2>1
  <2>3. \A jobs, of : u \in B!Sheets =>
          \/ B!Disturbs(jobs, of, {v})[u] = jobs[u]
          \/ B!Disturbs(jobs, of, {v})[u] = [jobs[u] EXCEPT !.alone = FALSE]
    BY <1>a DEF B!Disturbs
  <2>4. \/ pjob' = [pjob EXCEPT ![v].at = "window", ![v].next = @ + WindowPages]
        \/ \E pagesLeft : pjob' = [B!Disturbs(pjob, B!Owner(v), {v}) EXCEPT ![v].left = pagesLeft]
    BY <1>6 DEF B!UpsertRow
  <2>5. pjob'[u] = pjob[u] \/ pjob'[u] = [pjob[u] EXCEPT !.alone = FALSE]
    <3>1. CASE pjob' = [pjob EXCEPT ![v].at = "window", ![v].next = @ + WindowPages]
      BY <1>a, <2>2, <3>1
    <3>2. ASSUME NEW pagesLeft,
                 pjob' = [B!Disturbs(pjob, B!Owner(v), {v}) EXCEPT ![v].left = pagesLeft]
          PROVE  pjob'[u] = B!Disturbs(pjob, B!Owner(v), {v})[u]
      BY <1>a, <2>2, <3>2 DEF B!Disturbs
    <3> QED
      BY <2>3, <2>4, <3>1, <3>2
  <2> QED
    BY <1>a, <2>5 DEF ParseJobs
<1>7. ASSUME NEW v \in B!Sheets, B!ParseFails(v) PROVE FALSE
  <2>1. \E at \in {"queued", "failed"} : pjob' = [pjob EXCEPT ![v].at = at]
    BY <1>7 DEF B!ParseFails
  <2> QED
    BY <1>a, <2>1 DEF ParseJobs
<1>8. ASSUME B!Crash PROVE FALSE
  <2>1. \/ UNCHANGED pjob
        \/ \E v \in B!Sheets : \/ pjob' = [pjob EXCEPT ![v].at = "queued", ![v].left = {}]
                               \/ /\ pjob[v].at # "window"
                                  /\ pjob' = [pjob EXCEPT ![v].at = IF @ = "parsed" THEN "done"
                                                                  ELSE "dead"]
    BY <1>8 DEF B!Crash
  <2> QED
    BY <1>a, <2>1 DEF ParseJobs
<1>9. ~UNCHANGED pjob
  OBVIOUS
<1> QED
  BY <1>1, <1>2, <1>3, <1>4, <1>5, <1>6, <1>7, <1>8, <1>9, BooksSteps
     DEF BooksActions, B!DeletePriceBook, B!RemoveIndex, B!Describe, B!Save, B!NoteCatalog,
         B!ReadHeaders, B!Rank, B!vars

LEMMA BooksStart == B!Init => BooksShape /\ CacheInv /\ RowsInv
<1> SUFFICES ASSUME B!Init PROVE BooksShape /\ CacheInv /\ RowsInv
  OBVIOUS
<1>1. /\ B!LastPage \in Nat \ {0} /\ WindowPages \in Nat \ {0} /\ MaxClock \in Nat
      /\ MaxUploads \in Nat /\ Failures \in [B!Faults -> Nat] /\ "none" \notin B!Contents
  BY LastPageIsThere, PriceBooksAssumption DEF B!Contents
<1>2. book \in [Books -> BookFields]
  BY DEF B!Init, BookFields
<1>3. bSheet = <<>> /\ B!Sheets = {}
  BY DEF B!Init, B!Sheets
<1>4. /\ index \in [B!Uploads -> 0 .. MaxClock] /\ ijob \in [B!Uploads -> IndexJobs]
      /\ clock \in 0 .. MaxClock
  BY <1>1 DEF B!Init, IndexJobs
<1>5. /\ pages \in [B!Owners -> [1 .. B!LastPage -> B!Contents \cup {"none"}]]
      /\ pjob \in [B!Uploads -> ParseJobs]
  BY <1>1 DEF B!Init, ParseJobs
<1>6. djob \in [Books -> DeleteJobs]
  BY DEF B!Init, DeleteJobs
<1>7. /\ search \in [at : {"idle", "rank"}, mark : 0 .. MaxClock, ids : SUBSET B!Uploads]
      /\ cache \in [0 .. MaxClock -> {<<>>} \cup {<<ids>> : ids \in SUBSET B!Uploads}]
      /\ bShaken \in BOOLEAN /\ bBudget \in [B!Faults -> Nat]
  <2>1. search \in [at : {"idle", "rank"}, mark : 0 .. MaxClock, ids : SUBSET B!Uploads]
    BY <1>1 DEF B!Init
  <2>2. cache \in [0 .. MaxClock -> {<<>>} \cup {<<ids>> : ids \in SUBSET B!Uploads}]
    BY DEF B!Init
  <2>3. bShaken \in BOOLEAN /\ bBudget \in [B!Faults -> Nat]
    BY <1>1 DEF B!Init
  <2> QED
    BY <2>1, <2>2, <2>3
<1>8. BooksShape
  <2>1. B!BooksTypeOK
    <3>1. <<>> \in Seq([book : Books, content : B!Contents]) /\ Len(bSheet) <= MaxUploads
      BY <1>1, <1>3
    <3> QED
      BY <1>2, <1>3, <1>4, <1>5, <1>6, <1>7, <3>1
         DEF B!BooksTypeOK, BookFields, IndexJobs, ParseJobs, DeleteJobs
  <2> QED
    BY <2>1, <1>3, <1>4, <1>6, <1>7 DEF BooksShape, B!Init
<1>9. CacheInv
  BY <1>1 DEF CacheInv, B!Init
<1>10. RowsInv
  BY <1>1, <1>3 DEF RowsInv, B!Init
<1> QED
  BY <1>8, <1>9, <1>10

\* What is served from the cache of find_pages is current.
THEOREM CacheIsCurrent == B!Spec => []ServedIsCurrent
BY BooksStart, BooksTypes, CacheKept, CacheServes, PTL DEF B!Spec

\* The parts of a price book's state stay well typed.
THEOREM BooksTyped == B!Spec => []B!BooksTypeOK
<1>1. BooksShape => B!BooksTypeOK
  BY DEF BooksShape
<1> QED
  BY <1>1, BooksStart, BooksTypes, PTL DEF B!Spec

\* A parse that ends has stored every page of its sheet, if nobody else was at
\* its rows and MinerU never answered short.
THEOREM ParseIsWhole == B!Spec => ParsedIsWhole
<1> DEFINE Whole == \A u \in B!Sheets :
                      pjob[u].at = "window" /\ pjob'[u].at = "parsed" /\ pjob[u].alone
                        /\ bBudget["short"] = Failures["short"]
                      => \A p \in 1 .. PageCount[B!Content(u)] : pages[B!Owner(u)][p] = B!Content(u)
<1>1. BooksShape /\ RowsInv /\ [B!Next]_B!vars => Whole
  <2> SUFFICES ASSUME BooksShape, RowsInv, [B!Next]_B!vars, NEW u \in B!Sheets,
                      pjob[u].at = "window", pjob'[u].at = "parsed", pjob[u].alone,
                      bBudget["short"] = Failures["short"],
                      NEW p \in 1 .. PageCount[B!Content(u)]
               PROVE  pages[B!Owner(u)][p] = B!Content(u)
    OBVIOUS
  <2>1. RowsOf(u) /\ pjob[u].next > PageCount[B!Content(u)]
    BY EndsAtTheEnd DEF RowsInv
  <2>2. pjob[u].next \in Nat /\ PageCount[B!Content(u)] \in Nat
    <3>1. pjob[u].next \in 1 .. B!LastPage + WindowPages /\ B!Content(u) \in B!Contents
      BY JobsType, Windows DEF ParseJobs
    <3> QED
      BY <3>1, LastPageIsThere, PriceBooksAssumption
  <2> QED
    BY <2>1, <2>2 DEF RowsOf
<1>2. BooksShape /\ RowsInv /\ [B!Next]_B!vars => [Whole]_B!vars
  BY <1>1
<1>3. BooksShape /\ RowsInv /\ [B!Next]_B!vars => (BooksShape /\ RowsInv)'
  BY BooksTypes, RowsKept
<1>4. ParsedIsWhole <=> [][Whole]_B!vars
  BY DEF ParsedIsWhole, B!ParsedIsWhole
<1> HIDE DEF Whole
<1> QED
  BY <1>2, <1>3, <1>4, BooksStart, PTL DEF B!Spec

-----------------------------------------------------------------------------
(* Openings.                                                               *)

\* The number of an element among the elements of its set.
Rank(S, i) == Cardinality({j \in S : j <= i})

Count(rs, m) == Cardinality(O!Of(rs, m))

\* What an import that nobody has disturbed has still to insert: the doors of
\* a mark beyond the openings there are.
Progress(p, m) ==
  /\ Count(seen[p], m) <= Count(rows, m)
  /\ Count(rows, m) <= Count(seen[p], m) \/ Count(rows, m) <= sched[p].count[m]
  /\ \A k \in 1 .. Repeats :
       k > Count(seen[p], m)
         => (<<m, k>> \in bulk[p].todo <=> Count(rows, m) < k /\ k <= sched[p].count[m])

\* An import writes of what it has read only what nobody had settled; and what
\* it has read stands, and is counted on, until it is disturbed.
ImportSound(p) ==
  /\ oPc[p] = "check" /\ bulk[p].alone => seen[p] = rows
  /\ oPc[p] = "bulk" =>
       /\ bulk[p].todo \subseteq O!Operations(p)
       /\ bulk[p].alone =>
            \A i \in O!Live(seen[p]) :
              rows[i].live /\ rows[i].mark = seen[p][i].mark /\ rows[i].hand = seen[p][i].hand
       /\ bulk[p].alone /\ ~bulk[p].refused => \A m \in Marks : Progress(p, m)

\* Openings that were only ever added: no gaps, no traces.
Grown(rs) ==
  /\ \A i \in O!Ids : rs[i].live \/ rs[i] = O!Blank
  /\ \A i, j \in O!Ids : rs[j].live /\ i < j => rs[i].live

DoorsNumbered(rs) ==
  \A i \in O!Live(rs) :
    ~rs[i].hand => rs[i].door = <<rs[i].mark, Rank(O!Of(rs, rs[i].mark), i)>>

\* Until it is shaken, an imported opening's door is its number among its
\* mark's, and no operation is refused.
Numbered ==
  ~oShaken =>
    /\ Grown(rows) /\ DoorsNumbered(rows)
    /\ \A p \in O!Passes :
         /\ ~bulk[p].refused
         /\ oPc[p] = "bulk" /\ bulk[p].alone => Grown(seen[p])

OpeningsInv == O!OpeningsTypeOK /\ (\A p \in O!Passes : ImportSound(p)) /\ Numbered

LEMMA OpeningsCount == \A S : O!Cardinality(S) = Cardinality(S)
BY DEF O!Cardinality, Cardinality

LEMMA IdsFinite ==
  /\ O!Ids \subseteq Nat /\ IsFiniteSet(O!Ids)
  /\ \A S \in SUBSET O!Ids : IsFiniteSet(S) /\ Cardinality(S) \in Nat /\ S \in SUBSET Nat
<1>1. O!Ids \subseteq Nat /\ IsFiniteSet(O!Ids)
  BY OpeningsAssumption, FS_Interval DEF O!Ids
<1> QED
  BY <1>1, FS_Subset, FS_CardinalityType

\* The numbers of the elements of a finite set are 1, 2, ... up to their count,
\* each once.
LEMMA Ranks ==
  ASSUME NEW S \in SUBSET Nat, IsFiniteSet(S)
  PROVE  /\ \A i \in S : Rank(S, i) \in 1 .. Cardinality(S)
         /\ \A i, j \in S : i < j => Rank(S, i) < Rank(S, j)
         /\ \A i, j \in S : Rank(S, i) = Rank(S, j) => i = j
         /\ \A k \in 1 .. Cardinality(S) : \E i \in S : Rank(S, i) = k
<1> DEFINE Below(i) == {j \in S : j <= i}
<1>1. Cardinality(S) \in Nat /\ \A X \in SUBSET S : /\ IsFiniteSet(X) /\ Cardinality(X) \in Nat
                                                   /\ Cardinality(X) <= Cardinality(S)
  BY FS_Subset, FS_CardinalityType
<1>2. \A i \in S : Below(i) \in SUBSET S /\ i \in Below(i) /\ Rank(S, i) = Cardinality(Below(i))
  BY DEF Rank
<1> HIDE DEF Below
<1>3. ASSUME NEW i \in S PROVE Rank(S, i) \in 1 .. Cardinality(S)
  <2>1. Cardinality(Below(i)) # 0
    BY <1>1, <1>2, FS_EmptySet
  <2> QED
    BY <1>1, <1>2, <2>1
<1>4. ASSUME NEW i \in S, NEW j \in S, i < j PROVE Rank(S, i) < Rank(S, j)
  <2> i \in Nat /\ j \in Nat /\ \A l \in S : l \in Nat
    OBVIOUS
  <2>1. Below(i) \cup {j} \in SUBSET Below(j) /\ j \notin Below(i)
    <3>1. \A l \in S : l <= i => l <= j
      BY <1>4
    <3>2. ~(j <= i) /\ j <= j
      BY <1>4
    <3> QED
      BY <3>1, <3>2 DEF Below
  <2>2. Cardinality(Below(i) \cup {j}) = Cardinality(Below(i)) + 1
    BY <1>1, <1>2, <2>1, FS_AddElement
  <2>3. Cardinality(Below(i) \cup {j}) <= Cardinality(Below(j))
    BY <1>1, <1>2, <2>1, FS_Subset
  <2> QED
    BY <1>1, <1>2, <2>2, <2>3
<1>5. ASSUME NEW i \in S, NEW j \in S, Rank(S, i) = Rank(S, j) PROVE i = j
  <2>1. Rank(S, i) \in Nat /\ Rank(S, j) \in Nat
    BY <1>3
  <2>2. ~(i < j) /\ ~(j < i)
    BY <1>4, <1>5, <2>1
  <2> QED
    BY <2>2
<1>6. ASSUME NEW k \in 1 .. Cardinality(S) PROVE \E i \in S : Rank(S, i) = k
  <2> DEFINE High == {i \in S : Rank(S, i) >= k}
  <2>1. S # {}
    BY <1>1, FS_EmptySet
  <2>2. PICK top \in S : \A m \in S : m <= top
    BY <2>1, Extremes
  <2>3. Below(top) = S
    BY <2>2 DEF Below
  <2>4. top \in High
    BY <1>1, <1>2, <2>3
  <2>5. High \in SUBSET Nat /\ IsFiniteSet(High) /\ High # {}
    BY <1>1, <2>4
  <2>6. PICK i \in High : \A m \in High : i <= m
    BY <2>5, Extremes
  <2>7. CASE Rank(S, i) = k
    BY <2>7
  <2>8. CASE Rank(S, i) # k
    <3> DEFINE Lower == Below(i) \ {i}
    <3>1. Lower \in SUBSET S /\ Cardinality(Lower) = Rank(S, i) - 1
      BY <1>1, <1>2, FS_RemoveElement
    <3>2. Rank(S, i) > k /\ Rank(S, i) \in Nat
      BY <1>3, <2>8
    <3>3. Lower # {} /\ IsFiniteSet(Lower) /\ Lower \in SUBSET Nat
      <4>1. k \in Nat /\ k >= 1
        BY <1>1
      <4>2. Cardinality(Lower) # 0
        BY <3>1, <3>2, <4>1
      <4>3. IsFiniteSet(Lower) /\ Lower \in SUBSET Nat
        BY <1>1, <3>1
      <4> QED
        BY <4>2, <4>3, FS_EmptySet
    <3>4. PICK j \in Lower : \A m \in Lower : m <= j
      BY <3>3, Extremes
    <3>5. j \in S /\ j < i
      BY <1>2, <3>1 DEF Below
    <3>6. Below(j) = Lower
      <4>1. i \in Nat /\ j \in Nat /\ \A l \in S : l \in Nat
        BY <3>5
      <4>2. \A l \in S : l <= j => l <= i /\ l # i
        BY <3>5, <4>1
      <4>3. \A l \in S : l <= i /\ l # i => l <= j
        BY <3>4 DEF Below
      <4> QED
        BY <4>2, <4>3 DEF Below
    <3>7. Rank(S, j) = Rank(S, i) - 1
      BY <1>2, <3>1, <3>5, <3>6
    <3>8. j \in High
      BY <3>2, <3>5, <3>7
    <3> QED
      BY <2>6, <3>5, <3>8
  <2> QED
    BY <2>7, <2>8
<1> QED
  BY <1>3, <1>4, <1>5, <1>6

LEMMA Matched ==
  ASSUME NEW rs, NEW m, NEW k
  PROVE  O!distinct_keys(rs, m, k) = {i \in O!Of(rs, m) : Rank(O!Of(rs, m), i) = k}
BY OpeningsCount DEF O!distinct_keys, Rank

\* The doors of a mark match openings up to their count, and none beyond.
LEMMA MatchedUpTo ==
  ASSUME NEW rs, NEW m, NEW k \in Nat \ {0}
  PROVE  /\ Count(rs, m) \in Nat
         /\ O!distinct_keys(rs, m, k) = {} <=> k > Count(rs, m)
<1>1. O!Of(rs, m) \in SUBSET O!Ids
  BY DEF O!Of, O!Live
<1>2. /\ O!Of(rs, m) \in SUBSET Nat /\ IsFiniteSet(O!Of(rs, m)) /\ Count(rs, m) \in Nat
  BY <1>1, IdsFinite DEF Count
<1>3. ASSUME k > Count(rs, m) PROVE O!distinct_keys(rs, m, k) = {}
  <2>1. \A i \in O!Of(rs, m) : Rank(O!Of(rs, m), i) \in 1 .. Count(rs, m)
    BY <1>2, Ranks DEF Count
  <2> QED
    BY <1>2, <1>3, <2>1, Matched
<1>4. ASSUME ~(k > Count(rs, m)) PROVE O!distinct_keys(rs, m, k) # {}
  <2>1. k \in 1 .. Count(rs, m)
    BY <1>2, <1>4
  <2>2. \E i \in O!Of(rs, m) : Rank(O!Of(rs, m), i) = k
    BY <1>2, <2>1, Ranks DEF Count
  <2> QED
    BY <2>2, Matched
<1> QED
  BY <1>2, <1>3, <1>4

LEMMA NewRowIsFresh ==
  ASSUME NEW rs, O!Fresh(rs) # {}
  PROVE  /\ O!NewRow(rs) \in O!Ids /\ rs[O!NewRow(rs)] = O!Blank
         /\ \A i \in O!Fresh(rs) : O!NewRow(rs) <= i
<1>1. O!Fresh(rs) \in SUBSET O!Ids /\ O!Fresh(rs) \in SUBSET Nat /\ IsFiniteSet(O!Fresh(rs))
  BY IdsFinite DEF O!Fresh
<1>2. \E n \in O!Fresh(rs) : \A i \in O!Fresh(rs) : n <= i
  BY <1>1, Extremes
<1>3. O!NewRow(rs) \in O!Fresh(rs) /\ \A i \in O!Fresh(rs) : O!NewRow(rs) <= i
  BY <1>2 DEF O!NewRow
<1> QED
  BY <1>3 DEF O!Fresh

Bulks == [todo : SUBSET (Marks \X (1 .. Repeats)), refused : BOOLEAN, alone : BOOLEAN]
Book  == [O!Ids -> O!Row]

\* No opening came or went, and none changed its mark, its door or its hand.
SameDoors(rs, nx) ==
  \A i \in O!Ids :
    /\ ~rs[i].live => nx[i] = rs[i]
    /\ rs[i].live => /\ nx[i].live /\ nx[i].mark = rs[i].mark
                     /\ nx[i].door = rs[i].door /\ nx[i].hand = rs[i].hand

OpeningsActions ==
  \/ \E p \in O!Passes : \/ O!Begins(p) \/ O!Aborts(p) \/ O!Reads(p) \/ O!HoldsLease(p)
                         \/ O!apply_bulk(p) \/ O!reopen_confirmed(p)
                         \/ \E key \in bulk[p].todo : O!Insert(p, key)
                         \/ \E key \in bulk[p].todo, i \in O!Ids : O!Update(p, key, i)
  \/ \E i \in O!Ids : O!Corrects(i)
  \/ \E i \in O!Ids, m \in Marks : O!Renames(i, m)
  \/ \E set \in SUBSET O!Ids : O!Confirms(set) \/ O!Deletes(set)
  \/ \E m \in Marks : O!Adds(m)

LEMMA OpeningsSteps == O!Next => OpeningsActions
<1>1. O!confirm_all => \E set \in SUBSET O!Ids : O!Confirms(set)
  <2>1. O!Flagged \in SUBSET O!Ids
    BY DEF O!Flagged, O!Live
  <2> QED
    BY <2>1 DEF O!confirm_all
<1>2. \A set \in {{i} : i \in O!Ids} : set \in SUBSET O!Ids
  OBVIOUS
<1> QED
  BY <1>1, <1>2, Zenon DEF O!Next, OpeningsActions

LEMMA BlankRow == O!Blank \in O!Row /\ ~O!Blank.live
<1>1. (CHOOSE m \in Marks : TRUE) \in Marks
  BY OpeningsAssumption
<1> QED
  BY <1>1 DEF O!Blank, O!Row, O!Doors, O!NoDoor, O!Status

\* Whoever is disturbed loses its word that it is alone, and nothing else.
LEMMA DisturbedType ==
  ASSUME bulk \in [O!Passes -> Bulks], NEW p
  PROVE  /\ O!Disturbed(p) \in [O!Passes -> Bulks]
         /\ \A q \in O!Passes : /\ O!Disturbed(p)[q].todo = bulk[q].todo
                                /\ O!Disturbed(p)[q].refused = bulk[q].refused
                                /\ O!Disturbed(p)[q].alone = (q = p /\ bulk[q].alone)
<1>1. ASSUME NEW q \in O!Passes
      PROVE  /\ O!Disturbed(p)[q] \in Bulks
             /\ O!Disturbed(p)[q].todo = bulk[q].todo
             /\ O!Disturbed(p)[q].refused = bulk[q].refused
             /\ O!Disturbed(p)[q].alone = (q = p /\ bulk[q].alone)
  <2>1. bulk[q] \in Bulks
    OBVIOUS
  <2>2. CASE q = p
    BY <2>1, <2>2 DEF O!Disturbed, Bulks
  <2>3. CASE q # p
    BY <2>1, <2>3 DEF O!Disturbed, Bulks
  <2> QED
    BY <2>2, <2>3
<1> QED
  BY <1>1 DEF O!Disturbed

\* One operation of a bulk write: what becomes of the list of each import.
LEMMA PerformedType ==
  ASSUME bulk \in [O!Passes -> Bulks], NEW p \in O!Passes, NEW key, NEW refused \in BOOLEAN,
         O!Performed(p, key, refused)
  PROVE  /\ bulk' \in [O!Passes -> Bulks]
         /\ \A q \in O!Passes : q # p =>
              /\ bulk'[q].todo = bulk[q].todo /\ bulk'[q].refused = bulk[q].refused
              /\ ~bulk'[q].alone
         /\ bulk'[p].todo = bulk[p].todo \ {key}
         /\ bulk'[p].refused = (bulk[p].refused \/ refused)
         /\ bulk'[p].alone = bulk[p].alone
<1> DEFINE D == O!Disturbed(p)
<1>1. /\ D \in [O!Passes -> Bulks]
      /\ \A q \in O!Passes : /\ D[q].todo = bulk[q].todo /\ D[q].refused = bulk[q].refused
                             /\ D[q].alone = (q = p /\ bulk[q].alone)
  BY DisturbedType
<1>2. bulk' = [D EXCEPT ![p].todo = @ \ {key}, ![p].refused = @ \/ refused]
  BY DEF O!Performed
<1> HIDE DEF D
<1>3. [D[p] EXCEPT !.todo = @ \ {key}, !.refused = @ \/ refused] \in Bulks
  <2>1. D[p] \in Bulks
    BY <1>1
  <2>2. D[p].todo \ {key} \in SUBSET (Marks \X (1 .. Repeats))
    BY <2>1 DEF Bulks
  <2>3. (D[p].refused \/ refused) \in BOOLEAN
    OBVIOUS
  <2> QED
    BY <2>1, <2>2, <2>3, Zenon DEF Bulks
<1>4. \A q \in O!Passes : bulk'[q] = IF q = p
        THEN [D[p] EXCEPT !.todo = @ \ {key}, !.refused = @ \/ refused] ELSE D[q]
  BY <1>1, <1>2
<1>5. bulk' \in [O!Passes -> Bulks]
  BY <1>1, <1>2, <1>3
<1> QED
  BY <1>1, <1>3, <1>4, <1>5 DEF Bulks

\* What a row becomes when it is reopened, deleted, corrected, renamed, or
\* written by an import.
Reopened(row)   == [row EXCEPT !.status = "needs_look"]
Deleted(row)    == [row EXCEPT !.live = FALSE]
Corrected(row)  == [row EXCEPT !.text = 0]
Renamed(row, m) == [row EXCEPT !.text = 0, !.mark = m]
Rewritten(row, key, p, s) ==
  [row EXCEPT !.mark = key[1], !.door = key, !.text = p, !.status = s]

LEMMA OpeningKept ==
  ASSUME NEW row \in O!Row
  PROVE  /\ O!Confirmed(row) \in O!Row /\ Reopened(row) \in O!Row
         /\ Deleted(row) \in O!Row /\ Corrected(row) \in O!Row
<1>1. O!Confirmed(row) \in O!Row
  BY DEF O!Row, O!Confirmed, O!Status
<1>2. Reopened(row) \in O!Row
  BY DEF O!Row, O!Status, Reopened
<1>3. Deleted(row) \in O!Row
  BY DEF O!Row, Deleted
<1>4. Corrected(row) \in O!Row
  BY DEF O!Row, Corrected
<1> QED
  BY <1>1, <1>2, <1>3, <1>4

LEMMA RowRenamed ==
  ASSUME NEW row \in O!Row, NEW m \in Marks
  PROVE  Renamed(row, m) \in O!Row
BY DEF O!Row, Renamed

LEMMA RowWritten ==
  ASSUME NEW row \in O!Row, NEW key \in Marks \X (1 .. Repeats), NEW p \in O!Passes,
         NEW s \in O!Status
  PROVE  Rewritten(row, key, p, s) \in O!Row
<1>1. key[1] \in Marks /\ key \in O!Doors
  BY DEF O!Doors
<1> QED
  BY <1>1 DEF O!Row, Rewritten

LEMMA LeftType ==
  ASSUME left \in [O!Kinds -> Nat], NEW kind \in O!Kinds, O!Spend(kind)
  PROVE  left' \in [O!Kinds -> Nat]
BY DEF O!Spend

\* What each operation of the import does to the openings.
LEMMA Inserted ==
  ASSUME O!OpeningsTypeOK, NEW p \in O!Passes, NEW key \in bulk[p].todo, O!Insert(p, key)
  PROVE  \E refused \in BOOLEAN :
           /\ refused = O!Taken(rows, 0, key, FALSE)
           /\ O!Performed(p, key, refused)
           /\ oPc[p] = "bulk" /\ key \in O!Due(p) /\ O!Match(p, key) = {}
           /\ refused => rows' = rows
           /\ ~refused =>
                /\ O!Fresh(rows) # {}
                /\ rows' = [rows EXCEPT ![O!NewRow(rows)] =
                     [live |-> TRUE, mark |-> key[1], door |-> key, text |-> p,
                      status |-> sched[p].status, confirmed |-> FALSE, hand |-> FALSE]]
BY DEF O!Insert, O!Taken

LEMMA Updated ==
  ASSUME O!OpeningsTypeOK, NEW p \in O!Passes, NEW key \in bulk[p].todo, NEW i \in O!Ids,
         O!Update(p, key, i)
  PROVE  \E refused \in BOOLEAN :
           /\ refused = (rows[i].live /\ O!Taken(rows, i, key, rows[i].hand))
           /\ O!Performed(p, key, refused)
           /\ oPc[p] = "bulk" /\ key \in O!Due(p) /\ i \in O!Match(p, key)
           /\ refused \/ ~rows[i].live => rows' = rows
           /\ ~refused /\ rows[i].live =>
                rows' = [rows EXCEPT ![i] = Rewritten(@, key, p, sched[p].status)]
<1>1. rows[i] \in O!Row
  BY DEF O!OpeningsTypeOK
<1>2. rows[i].live \in BOOLEAN
  BY <1>1 DEF O!Row
<1>3. (rows[i].live /\ O!Taken(rows, i, key, rows[i].hand)) \in BOOLEAN
  BY <1>2 DEF O!Taken
<1> QED
  BY <1>3 DEF O!Update, Rewritten

LEMMA OpeningsTypes ==
  O!OpeningsTypeOK /\ [O!Next]_O!vars => O!OpeningsTypeOK'
<1> SUFFICES ASSUME O!OpeningsTypeOK, [O!Next]_O!vars PROVE O!OpeningsTypeOK'
  OBVIOUS
<1>t. /\ rows \in Book /\ oPc \in [O!Passes -> O!Points]
      /\ sched \in [O!Passes -> O!Schedule] /\ seen \in [O!Passes -> Book]
      /\ bulk \in [O!Passes -> Bulks] /\ lease \in {0} \cup O!Passes
      /\ left \in [O!Kinds -> Nat] /\ oShaken \in BOOLEAN
  BY DEF O!OpeningsTypeOK, Book, Bulks
<1> DEFINE Typed ==
      /\ rows' \in Book /\ oPc' \in [O!Passes -> O!Points]
      /\ sched' \in [O!Passes -> O!Schedule] /\ seen' \in [O!Passes -> Book]
      /\ bulk' \in [O!Passes -> Bulks] /\ lease' \in {0} \cup O!Passes
      /\ left' \in [O!Kinds -> Nat] /\ oShaken' \in BOOLEAN
<1>q. Typed => O!OpeningsTypeOK'
  BY DEF O!OpeningsTypeOK, Book, Bulks
<1>p. \A there \in O!Points, p \in O!Passes :
        O!Goto(p, there) => oPc' \in [O!Passes -> O!Points]
  BY <1>t DEF O!Goto
<1>d. \A p : O!Disturbed(p) \in [O!Passes -> Bulks]
  BY <1>t, DisturbedType
<1>e. /\ O!NoRows \in Book /\ O!NoBulk \in Bulks /\ O!Empty \in O!Schedule
      /\ O!Points = {"idle", "read", "check", "bulk", "landed", "failed", "over"}
  BY BlankRow, OpeningsAssumption
     DEF O!NoRows, Book, O!NoBulk, Bulks, O!Empty, O!Schedule, O!Status, O!Points
<1>f. ASSUME NEW p \in O!Passes, NEW there \in {"over", "failed", "landed"}, O!Forgets(p, there)
      PROVE  /\ oPc' \in [O!Passes -> O!Points] /\ sched' \in [O!Passes -> O!Schedule]
             /\ seen' \in [O!Passes -> Book] /\ bulk' \in [O!Passes -> Bulks]
  <2>1. /\ oPc' = [oPc EXCEPT ![p] = there] /\ seen' = [seen EXCEPT ![p] = O!NoRows]
        /\ sched' = [sched EXCEPT ![p] = O!Empty] /\ bulk' = [bulk EXCEPT ![p] = O!NoBulk]
    BY <1>f DEF O!Forgets, O!Goto
  <2> QED
    BY <1>t, <1>e, <2>1
<1>1. ASSUME NEW p \in O!Passes, O!Begins(p) PROVE Typed
  <2>1. oPc' \in [O!Passes -> O!Points]
    BY <1>1, <1>p, <1>e DEF O!Begins
  <2>2. sched' \in [O!Passes -> O!Schedule]
    <3>1. PICK count \in Schedules, status \in O!Status \ {"by_hand"} :
            sched' = [sched EXCEPT ![p] = [count |-> count, status |-> status]]
      BY <1>1 DEF O!Begins
    <3>2. [count |-> count, status |-> status] \in O!Schedule
      BY OpeningsAssumption DEF O!Schedule
    <3> QED
      BY <1>t, <3>1, <3>2
  <2> QED
    BY <1>1, <1>t, <2>1, <2>2 DEF O!Begins
<1>2. ASSUME NEW p \in O!Passes, O!Aborts(p) PROVE Typed
  <2>1. O!Forgets(p, "over")
    BY <1>2 DEF O!Aborts
  <2> QED
    BY <1>2, <1>t, <1>f, <2>1 DEF O!Aborts
<1>3. ASSUME NEW p \in O!Passes, O!Reads(p) PROVE Typed
  <2>1. oPc' \in [O!Passes -> O!Points]
    BY <1>3, <1>p, <1>e DEF O!Reads
  <2>2. bulk' = [bulk EXCEPT ![p].alone = TRUE] /\ [bulk[p] EXCEPT !.alone = TRUE] \in Bulks
    BY <1>3, <1>t DEF O!Reads, Bulks
  <2>3. bulk' \in [O!Passes -> Bulks]
    BY <1>t, <2>2
  <2> QED
    BY <1>3, <1>t, <2>1, <2>3 DEF O!Reads
<1>4. ASSUME NEW p \in O!Passes, O!HoldsLease(p) PROVE Typed
  <2>1. oPc' \in [O!Passes -> O!Points]
    BY <1>4, <1>p, <1>e DEF O!HoldsLease
  <2>2. O!Operations(p) \in SUBSET (Marks \X (1 .. Repeats))
    BY DEF O!Operations
  <2>3. /\ bulk' = [bulk EXCEPT ![p].todo = O!Operations(p)]
        /\ [bulk[p] EXCEPT !.todo = O!Operations(p)] \in Bulks
    BY <1>4, <1>t, <2>2 DEF O!HoldsLease, Bulks
  <2>4. bulk' \in [O!Passes -> Bulks]
    BY <1>t, <2>3
  <2> QED
    BY <1>4, <1>t, <2>1, <2>4 DEF O!HoldsLease
<1>5. ASSUME NEW p \in O!Passes, O!apply_bulk(p) PROVE Typed
  <2>1. \E there \in {"over", "failed", "landed"} : O!Forgets(p, there)
    BY <1>5 DEF O!apply_bulk
  <2> QED
    BY <1>5, <1>t, <1>f, <2>1 DEF O!apply_bulk
<1>6. ASSUME NEW p \in O!Passes, O!reopen_confirmed(p) PROVE Typed
  <2>1. oPc' \in [O!Passes -> O!Points]
    BY <1>6, <1>p, <1>e DEF O!reopen_confirmed
  <2>2. rows' \in Book /\ bulk' \in [O!Passes -> Bulks]
    <3>1. [i \in O!Ids |-> IF rows[i].live /\ rows[i].status = "clear"
                           THEN Reopened(rows[i]) ELSE rows[i]] \in Book
      BY <1>t, OpeningKept DEF Book
    <3> QED
      BY <1>6, <1>t, <1>d, <3>1 DEF O!reopen_confirmed, Reopened
  <2> QED
    BY <1>6, <1>t, <2>1, <2>2 DEF O!reopen_confirmed
<1>7. ASSUME NEW p \in O!Passes, NEW key \in bulk[p].todo, O!Insert(p, key) PROVE Typed
  <2>1. PICK refused \in BOOLEAN :
           /\ O!Performed(p, key, refused)
           /\ refused => rows' = rows
           /\ ~refused =>
                /\ O!Fresh(rows) # {}
                /\ rows' = [rows EXCEPT ![O!NewRow(rows)] =
                     [live |-> TRUE, mark |-> key[1], door |-> key, text |-> p,
                      status |-> sched[p].status, confirmed |-> FALSE, hand |-> FALSE]]
    BY <1>7, Inserted
  <2>2. key \in Marks \X (1 .. Repeats) /\ key[1] \in Marks /\ sched[p].status \in O!Status
    BY <1>t DEF Bulks, O!Schedule
  <2>3. [live |-> TRUE, mark |-> key[1], door |-> key, text |-> p,
         status |-> sched[p].status, confirmed |-> FALSE, hand |-> FALSE] \in O!Row
    BY <2>2 DEF O!Row, O!Doors
  <2>4. rows' \in Book
    BY <1>t, <2>1, <2>3 DEF Book
  <2> QED
    BY <1>t, <2>1, <2>4, PerformedType DEF O!Performed
<1>8. ASSUME NEW p \in O!Passes, NEW key \in bulk[p].todo, NEW i \in O!Ids, O!Update(p, key, i)
      PROVE  Typed
  <2>1. PICK refused \in BOOLEAN :
           /\ O!Performed(p, key, refused)
           /\ refused \/ ~rows[i].live => rows' = rows
           /\ ~refused /\ rows[i].live =>
                rows' = [rows EXCEPT ![i] = Rewritten(@, key, p, sched[p].status)]
    BY <1>8, Updated
  <2>2. key \in Marks \X (1 .. Repeats) /\ sched[p].status \in O!Status
    BY <1>t DEF Bulks, O!Schedule
  <2>3. Rewritten(rows[i], key, p, sched[p].status) \in O!Row
    BY <1>t, <2>2, RowWritten DEF Book
  <2>4. rows' \in Book
    BY <1>t, <2>1, <2>3 DEF Book
  <2> QED
    BY <1>t, <2>1, <2>4, PerformedType DEF O!Performed
<1>9. ASSUME NEW i \in O!Ids, O!Corrects(i) PROVE Typed
  <2>1. left' \in [O!Kinds -> Nat]
    BY <1>9, <1>t, LeftType DEF O!Corrects, O!Kinds
  <2>2. rows' = [rows EXCEPT ![i] = Corrected(@)] /\ Corrected(rows[i]) \in O!Row
    BY <1>9, <1>t, OpeningKept DEF O!Corrects, Book, Corrected
  <2>3. rows' \in Book
    BY <1>t, <2>2 DEF Book
  <2> QED
    BY <1>9, <1>t, <1>d, <2>1, <2>3 DEF O!Corrects, O!Estimates
<1>10. ASSUME NEW i \in O!Ids, NEW m \in Marks, O!Renames(i, m) PROVE Typed
  <2>1. left' \in [O!Kinds -> Nat]
    BY <1>10, <1>t, LeftType DEF O!Renames, O!Kinds
  <2>2. Renamed(rows[i], m) \in O!Row
    BY <1>t, RowRenamed DEF Book
  <2>3. rows' = [rows EXCEPT ![i] = Renamed(@, m)]
    BY <1>10 DEF O!Renames, Renamed
  <2>4. rows' \in Book
    BY <1>t, <2>2, <2>3 DEF Book
  <2> QED
    BY <1>10, <1>t, <1>d, <2>1, <2>4 DEF O!Renames, O!Estimates
<1>11. ASSUME NEW set \in SUBSET O!Ids, O!Confirms(set) \/ O!Deletes(set) PROVE Typed
  <2>1. left' \in [O!Kinds -> Nat]
    BY <1>11, <1>t, LeftType DEF O!Confirms, O!Deletes, O!Kinds
  <2>2. \/ rows' = [i \in O!Ids |-> IF i \in set THEN O!Confirmed(rows[i]) ELSE rows[i]]
        \/ rows' = [i \in O!Ids |-> IF i \in set THEN Deleted(rows[i]) ELSE rows[i]]
    BY <1>11 DEF O!Confirms, O!Deletes, Deleted
  <2>3. rows' \in Book
    BY <1>t, <2>2, OpeningKept DEF Book
  <2> QED
    BY <1>11, <1>t, <1>d, <2>1, <2>3 DEF O!Confirms, O!Deletes, O!Estimates
<1>12. ASSUME NEW m \in Marks, O!Adds(m) PROVE Typed
  <2>1. left' \in [O!Kinds -> Nat]
    BY <1>12, <1>t, LeftType DEF O!Adds, O!Kinds
  <2>2. [live |-> TRUE, mark |-> m, door |-> <<m, 1>>, text |-> 0,
         status |-> "by_hand", confirmed |-> TRUE, hand |-> TRUE] \in O!Row
    BY OpeningsAssumption DEF O!Row, O!Doors, O!Status
  <2>3. rows' \in Book
    BY <1>12, <1>t, <2>2 DEF O!Adds, Book
  <2> QED
    BY <1>12, <1>t, <1>d, <2>1, <2>3 DEF O!Adds, O!Estimates
<1>13. ASSUME UNCHANGED O!vars PROVE Typed
  BY <1>t, <1>13 DEF O!vars
<1> QED
  <2>1. Typed
    BY <1>1, <1>2, <1>3, <1>4, <1>5, <1>6, <1>7, <1>8, <1>9, <1>10, <1>11, <1>12, <1>13,
       OpeningsSteps, Zenon DEF OpeningsActions
  <2> QED
    BY <1>q, <2>1

\* Openings whose marks stand are counted and numbered as before.
LEMMA SameCounts ==
  ASSUME NEW rs, NEW nx,
         \A i \in O!Ids : nx[i].live = rs[i].live /\ (rs[i].live => nx[i].mark = rs[i].mark)
  PROVE  /\ O!Live(nx) = O!Live(rs)
         /\ \A m : O!Of(nx, m) = O!Of(rs, m) /\ Count(nx, m) = Count(rs, m)
<1>1. O!Live(nx) = O!Live(rs)
  BY DEF O!Live
<1>2. \A i \in O!Live(rs) : nx[i].mark = rs[i].mark
  BY DEF O!Live
<1>3. \A m : O!Of(nx, m) = O!Of(rs, m)
  BY <1>1, <1>2 DEF O!Of
<1> QED
  BY <1>1, <1>3 DEF Count

LEMMA SameNumbers ==
  ASSUME NEW rs \in Book, NEW nx \in Book, SameDoors(rs, nx)
  PROVE  /\ O!Live(nx) = O!Live(rs)
         /\ \A m : Count(nx, m) = Count(rs, m)
         /\ DoorsNumbered(rs) => DoorsNumbered(nx)
         /\ Grown(rs) => Grown(nx)
<1>1. \A i \in O!Ids : nx[i].live = rs[i].live /\ (rs[i].live => nx[i].mark = rs[i].mark)
  <2>1. \A i \in O!Ids : rs[i].live \in BOOLEAN /\ nx[i].live \in BOOLEAN
    BY DEF Book, O!Row
  <2> QED
    BY <2>1 DEF SameDoors
<1>2. /\ O!Live(nx) = O!Live(rs)
      /\ \A m : O!Of(nx, m) = O!Of(rs, m) /\ Count(nx, m) = Count(rs, m)
  BY <1>1, SameCounts
<1>3. DoorsNumbered(rs) => DoorsNumbered(nx)
  <2> SUFFICES ASSUME DoorsNumbered(rs), NEW i \in O!Live(rs), ~nx[i].hand
               PROVE  nx[i].door = <<nx[i].mark, Rank(O!Of(nx, nx[i].mark), i)>>
    BY <1>2 DEF DoorsNumbered
  <2>1. nx[i].mark = rs[i].mark /\ nx[i].door = rs[i].door /\ nx[i].hand = rs[i].hand
    BY DEF SameDoors, O!Live
  <2>2. rs[i].door = <<rs[i].mark, Rank(O!Of(rs, rs[i].mark), i)>>
    BY <2>1 DEF DoorsNumbered
  <2>3. O!Of(nx, rs[i].mark) = O!Of(rs, rs[i].mark)
    BY <1>2
  <2> QED
    BY <2>1, <2>2, <2>3
<1>4. Grown(rs) => Grown(nx)
  BY <1>1 DEF Grown, SameDoors
<1> QED
  BY <1>2, <1>3, <1>4

\* A new row n is a door more of its mark; where openings were only ever
\* added it is the last, and the others keep their numbers.
DoorMore(rs, nx, n, row) ==
  /\ n \in O!Ids \ O!Live(rs)
  /\ nx \in Book /\ nx[n] = row
  /\ O!Live(nx) = O!Live(rs) \cup {n}
  /\ \A i \in O!Ids \ {n} : nx[i] = rs[i]
  /\ \A m : Count(nx, m) = IF m = row.mark THEN Count(rs, m) + 1 ELSE Count(rs, m)
  /\ Grown(rs) => /\ Grown(nx)
                  /\ \A m : \A i \in O!Of(rs, m) :
                       Rank(O!Of(nx, m), i) = Rank(O!Of(rs, m), i)
                  /\ Rank(O!Of(nx, row.mark), n) = Count(rs, row.mark) + 1

LEMMA DoorAdded ==
  ASSUME NEW rs \in Book, NEW row \in O!Row, row.live, O!Fresh(rs) # {},
         NEW nx, nx = [rs EXCEPT ![O!NewRow(rs)] = row]
  PROVE  DoorMore(rs, nx, O!NewRow(rs), row)
<1> DEFINE n == O!NewRow(rs)
<1>1. /\ n \in O!Ids /\ rs[n] = O!Blank /\ \A i \in O!Fresh(rs) : n <= i
      /\ ~rs[n].live
  BY NewRowIsFresh, BlankRow
<1> HIDE DEF n
<1>2. nx = [rs EXCEPT ![n] = row]
  BY DEF n
<1>3. nx \in Book /\ nx[n] = row /\ \A i \in O!Ids \ {n} : nx[i] = rs[i]
  BY <1>1, <1>2 DEF Book
<1>4. n \notin O!Live(rs) /\ O!Live(nx) = O!Live(rs) \cup {n}
  BY <1>1, <1>3 DEF O!Live
<1>5. \A m : O!Of(nx, m) = IF m = row.mark THEN O!Of(rs, m) \cup {n} ELSE O!Of(rs, m)
  <2>1. \A i \in O!Live(rs) : nx[i] = rs[i] /\ i # n
    BY <1>3, <1>4 DEF O!Live
  <2> QED
    BY <1>3, <1>4, <2>1 DEF O!Of
<1>6. \A m : O!Of(rs, m) \in SUBSET O!Ids /\ n \notin O!Of(rs, m)
  BY <1>4 DEF O!Of, O!Live
<1>7. \A m : Count(nx, m) = IF m = row.mark THEN Count(rs, m) + 1 ELSE Count(rs, m)
  <2> SUFFICES ASSUME NEW m
               PROVE  Count(nx, m) = IF m = row.mark THEN Count(rs, m) + 1 ELSE Count(rs, m)
    OBVIOUS
  <2>1. IsFiniteSet(O!Of(rs, m))
    BY <1>6, IdsFinite
  <2>2. Cardinality(O!Of(rs, m) \cup {n}) = Cardinality(O!Of(rs, m)) + 1
    BY <1>6, <2>1, FS_AddElement
  <2> QED
    BY <1>5, <2>2 DEF Count
<1>8. ASSUME Grown(rs)
      PROVE  /\ Grown(nx)
             /\ \A m : \A i \in O!Of(rs, m) : Rank(O!Of(nx, m), i) = Rank(O!Of(rs, m), i)
             /\ Rank(O!Of(nx, row.mark), n) = Count(rs, row.mark) + 1
  <2>1. \A i \in O!Ids : i \in Nat
    BY IdsFinite
  <2>2. \A i \in O!Live(rs) : i < n
    <3> SUFFICES ASSUME NEW i \in O!Live(rs), ~(i < n) PROVE FALSE
      OBVIOUS
    <3>1. i \in O!Ids /\ rs[i].live /\ i # n
      BY <1>4 DEF O!Live
    <3>2. n < i
      BY <1>1, <2>1, <3>1
    <3> QED
      BY <1>1, <1>8, <3>1, <3>2 DEF Grown
  <2>3. \A i \in O!Ids : i < n => rs[i].live
    <3> SUFFICES ASSUME NEW i \in O!Ids, i < n, ~rs[i].live PROVE FALSE
      OBVIOUS
    <3>1. i \in O!Fresh(rs)
      BY <1>8 DEF Grown, O!Fresh
    <3> QED
      BY <1>1, <2>1, <3>1
  <2>4. Grown(nx)
    <3>1. \A i \in O!Ids : nx[i].live \/ nx[i] = O!Blank
      BY <1>3, <1>8 DEF Grown
    <3>2. \A i, j \in O!Ids : nx[j].live /\ i < j => nx[i].live
      <4> SUFFICES ASSUME NEW i \in O!Ids, NEW j \in O!Ids, nx[j].live, i < j PROVE nx[i].live
        OBVIOUS
      <4>1. CASE i = n
        BY <1>3, <4>1
      <4>2. CASE i # n /\ j = n
        BY <1>3, <2>3, <4>2
      <4>3. CASE i # n /\ j # n
        BY <1>3, <1>8, <4>3 DEF Grown
      <4> QED
        BY <4>1, <4>2, <4>3
    <3> QED
      BY <3>1, <3>2 DEF Grown
  <2>5. ASSUME NEW m, NEW i \in O!Of(rs, m)
        PROVE  Rank(O!Of(nx, m), i) = Rank(O!Of(rs, m), i)
    <3>1. i \in O!Live(rs) /\ i \in Nat /\ n \in Nat /\ i < n
      BY <1>1, <2>1, <2>2 DEF O!Of, O!Live
    <3>2. ~(n <= i)
      BY <3>1
    <3>3. {j \in O!Of(nx, m) : j <= i} = {j \in O!Of(rs, m) : j <= i}
      BY <1>5, <3>2
    <3> QED
      BY <3>3 DEF Rank
  <2>6. Rank(O!Of(nx, row.mark), n) = Count(rs, row.mark) + 1
    <3>1. \A j \in O!Of(nx, row.mark) : j <= n
      <4> SUFFICES ASSUME NEW j \in O!Of(nx, row.mark) PROVE j <= n
        OBVIOUS
      <4>1. j = n \/ j \in O!Live(rs)
        BY <1>5 DEF O!Of
      <4>2. n \in Nat /\ \A i \in O!Live(rs) : i \in Nat
        BY <1>1, <2>1 DEF O!Live
      <4> QED
        BY <2>2, <4>1, <4>2
    <3>2. {j \in O!Of(nx, row.mark) : j <= n} = O!Of(nx, row.mark)
      BY <3>1
    <3>3. Count(nx, row.mark) = Count(rs, row.mark) + 1
      BY <1>7
    <3> QED
      BY <3>2, <3>3 DEF Rank, Count
  <2> QED
    BY <2>4, <2>5, <2>6
<1> QED
  BY <1>1, <1>3, <1>4, <1>7, <1>8 DEF n, DoorMore

LEMMA CountType ==
  ASSUME NEW rs, NEW m
  PROVE  Count(rs, m) \in Nat
BY 1 \in Nat \ {0}, MatchedUpTo

\* What an import works from stands until it is over.
LEMMA PlanStands ==
  ASSUME NEW q \in O!Passes, seen'[q] = seen[q], sched'[q] = sched[q]
  PROVE  /\ O!Operations(q)' = O!Operations(q)
         /\ \A key : O!Match(q, key)' = O!Match(q, key)
BY DEF O!Operations, O!Match, O!distinct_keys, O!Of, O!Live, O!Kept

LEMMA Untouched ==
  ASSUME NEW q \in O!Passes, ImportSound(q), rows' = rows, seen'[q] = seen[q],
         sched'[q] = sched[q], bulk'[q] = bulk[q], oPc'[q] = oPc[q]
  PROVE  ImportSound(q)'
<1>1. O!Operations(q)' = O!Operations(q)
  BY PlanStands
<1>2. \A m \in Marks : Progress(q, m) => Progress(q, m)'
  BY DEF Progress
<1> QED
  BY <1>1, <1>2 DEF ImportSound

LEMMA NoLongerAlone ==
  ASSUME NEW q \in O!Passes, ImportSound(q), seen'[q] = seen[q], sched'[q] = sched[q],
         bulk'[q].todo = bulk[q].todo, ~bulk'[q].alone, oPc'[q] = oPc[q]
  PROVE  ImportSound(q)'
<1>1. O!Operations(q)' = O!Operations(q)
  BY PlanStands
<1> QED
  BY <1>1 DEF ImportSound

LEMMA NumberedKept ==
  ASSUME Numbered, rows \in Book, rows' \in Book, SameDoors(rows, rows'),
         oShaken => oShaken',
         \A p \in O!Passes :
           /\ bulk'[p].refused => bulk[p].refused
           /\ oPc'[p] = "bulk" /\ bulk'[p].alone =>
                oPc[p] = "bulk" /\ bulk[p].alone /\ seen'[p] = seen[p]
  PROVE  Numbered'
<1> SUFFICES ASSUME ~oShaken'
             PROVE  /\ Grown(rows') /\ DoorsNumbered(rows')
                    /\ \A p \in O!Passes :
                         /\ ~bulk'[p].refused
                         /\ oPc'[p] = "bulk" /\ bulk'[p].alone => Grown(seen'[p])
  BY DEF Numbered
<1>1. Grown(rows') /\ DoorsNumbered(rows')
  BY SameNumbers DEF Numbered
<1> QED
  BY <1>1 DEF Numbered

\* The door a mark's next insert writes is the one after the openings there are.
LEMMA NextDoor ==
  ASSUME O!OpeningsTypeOK, NEW p \in O!Passes, NEW key \in bulk[p].todo,
         key \in O!Due(p), O!Match(p, key) = {}, ImportSound(p), oPc[p] = "bulk",
         bulk[p].alone, ~bulk[p].refused
  PROVE  /\ key[1] \in Marks /\ key = <<key[1], Count(rows, key[1]) + 1>>
         /\ Count(rows, key[1]) \in Nat /\ Count(seen[p], key[1]) \in Nat
         /\ Count(seen[p], key[1]) < key[2] /\ Count(rows, key[1]) < key[2]
         /\ key[2] <= sched[p].count[key[1]]
<1> DEFINE m == key[1]
           k == key[2]
<1>1. /\ m \in Marks /\ k \in 1 .. Repeats /\ key = <<m, k>> /\ Repeats \in Nat
      /\ sched[p].count[m] \in 0 .. Repeats
  <2>1. bulk[p] \in Bulks /\ sched[p] \in O!Schedule
    BY DEF O!OpeningsTypeOK, Bulks
  <2> QED
    BY <2>1, OpeningsAssumption DEF Bulks, O!Schedule
<1>2. Progress(p, m)
  BY <1>1 DEF ImportSound
<1>3. Count(rows, m) \in Nat /\ Count(seen[p], m) \in Nat
  BY CountType
<1>4. k > Count(seen[p], m)
  BY <1>1, MatchedUpTo DEF O!Match
<1>5. Count(rows, m) < k /\ k <= sched[p].count[m] /\ Count(seen[p], m) <= Count(rows, m)
  BY <1>1, <1>2, <1>4 DEF Progress
<1> DEFINE next == <<m, Count(rows, m) + 1>>
<1>6. next \in bulk[p].todo
  <2>1. Count(rows, m) + 1 \in 1 .. Repeats /\ Count(rows, m) + 1 > Count(seen[p], m)
    BY <1>1, <1>3, <1>5
  <2>2. Count(rows, m) < Count(rows, m) + 1 /\ Count(rows, m) + 1 <= sched[p].count[m]
    BY <1>1, <1>3, <1>5
  <2> QED
    BY <1>2, <2>1, <2>2 DEF Progress
<1>7. O!Match(p, next) = {}
  <2>1. Count(rows, m) + 1 \in Nat \ {0} /\ Count(rows, m) + 1 > Count(seen[p], m)
    BY <1>3, <1>5
  <2> QED
    BY <2>1, MatchedUpTo DEF O!Match
<1>8. key \in O!Inserts(p) /\ next \in O!Inserts(p)
  BY <1>6, <1>7 DEF O!Inserts
<1>9. k <= Count(rows, m) + 1
  <2>1. \A other \in O!Inserts(p) : other[1] = key[1] => key[2] <= other[2]
    BY <1>8 DEF O!Due
  <2> QED
    BY <1>8, <2>1
<1>10. k = Count(rows, m) + 1
  BY <1>1, <1>3, <1>5, <1>9
<1> QED
  BY <1>1, <1>3, <1>4, <1>5, <1>10

Sound == (\A q \in O!Passes : ImportSound(q)) /\ Numbered

\* A step of the import that writes no opening.
LEMMA ImportProceeds ==
  ASSUME OpeningsInv, NEW p \in O!Passes,
         O!Begins(p) \/ O!Aborts(p) \/ O!Reads(p) \/ O!HoldsLease(p) \/ O!apply_bulk(p)
  PROVE  Sound'
<1>t. /\ rows \in Book /\ oPc \in [O!Passes -> O!Points]
      /\ sched \in [O!Passes -> O!Schedule] /\ seen \in [O!Passes -> Book]
      /\ bulk \in [O!Passes -> Bulks]
  BY DEF OpeningsInv, O!OpeningsTypeOK, Book, Bulks
<1>r. rows' = rows /\ oShaken' = oShaken
  BY DEF O!Begins, O!Aborts, O!Reads, O!HoldsLease, O!apply_bulk
<1>g. \A there : O!Goto(p, there) => oPc' = [oPc EXCEPT ![p] = there]
  BY DEF O!Goto
<1>f. \A there : O!Forgets(p, there) =>
        /\ oPc' = [oPc EXCEPT ![p] = there] /\ seen' = [seen EXCEPT ![p] = O!NoRows]
        /\ sched' = [sched EXCEPT ![p] = O!Empty] /\ bulk' = [bulk EXCEPT ![p] = O!NoBulk]
  BY DEF O!Forgets, O!Goto
<1>q. ASSUME NEW q \in O!Passes, q # p PROVE ImportSound(q)'
  <2>1. /\ seen'[q] = seen[q] /\ sched'[q] = sched[q] /\ bulk'[q] = bulk[q]
        /\ oPc'[q] = oPc[q]
    BY <1>t, <1>g, <1>f, <1>q DEF O!Begins, O!Aborts, O!Reads, O!HoldsLease, O!apply_bulk
  <2> QED
    BY <1>r, <2>1, Untouched DEF OpeningsInv
<1>n. ASSUME /\ bulk'[p].refused => bulk[p].refused
             /\ oPc'[p] = "bulk" /\ bulk'[p].alone => seen'[p] = rows
      PROVE  Numbered'
  <2> SUFFICES ASSUME ~oShaken'
               PROVE  /\ Grown(rows') /\ DoorsNumbered(rows')
                      /\ \A q \in O!Passes :
                           /\ ~bulk'[q].refused
                           /\ oPc'[q] = "bulk" /\ bulk'[q].alone => Grown(seen'[q])
    BY DEF Numbered
  <2>1. Grown(rows') /\ DoorsNumbered(rows')
    BY <1>r DEF OpeningsInv, Numbered
  <2>2. ASSUME NEW q \in O!Passes, q # p
        PROVE  seen'[q] = seen[q] /\ bulk'[q] = bulk[q] /\ oPc'[q] = oPc[q]
    BY <1>t, <1>g, <1>f, <2>2 DEF O!Begins, O!Aborts, O!Reads, O!HoldsLease, O!apply_bulk
  <2> QED
    BY <1>n, <1>r, <2>1, <2>2 DEF OpeningsInv, Numbered
<1>1. ASSUME O!Begins(p) \/ O!Aborts(p) \/ O!apply_bulk(p) PROVE Sound'
  <2>1. oPc'[p] \in {"read", "over", "failed", "landed"}
    BY <1>1, <1>t, <1>g, <1>f DEF O!Begins, O!Aborts, O!apply_bulk
  <2>2. bulk'[p] = bulk[p] \/ bulk'[p] = O!NoBulk
    BY <1>1, <1>t, <1>f DEF O!Begins, O!Aborts, O!apply_bulk
  <2>3. ImportSound(p)'
    BY <2>1 DEF ImportSound
  <2>4. bulk'[p].refused => bulk[p].refused
    BY <2>2 DEF O!NoBulk
  <2> QED
    BY <1>q, <1>n, <2>1, <2>3, <2>4 DEF Sound
<1>2. ASSUME O!Reads(p) PROVE Sound'
  <2>1. oPc'[p] = "check" /\ seen'[p] = rows /\ bulk'[p] = [bulk[p] EXCEPT !.alone = TRUE]
    BY <1>2, <1>t, <1>g DEF O!Reads
  <2>2. ImportSound(p)'
    BY <1>r, <2>1 DEF ImportSound
  <2>3. bulk'[p].refused => bulk[p].refused
    <3>1. bulk[p] \in Bulks
      BY <1>t
    <3> QED
      BY <2>1, <3>1 DEF Bulks
  <2> QED
    BY <1>q, <1>n, <2>1, <2>2, <2>3 DEF Sound
<1>3. ASSUME O!HoldsLease(p) PROVE Sound'
  <2>1. /\ oPc[p] = "check" /\ oPc'[p] = "bulk" /\ seen' = seen /\ sched' = sched
        /\ bulk'[p] = [bulk[p] EXCEPT !.todo = O!Operations(p)]
    BY <1>3, <1>t, <1>g DEF O!HoldsLease
  <2>2. /\ bulk'[p].todo = O!Operations(p) /\ bulk'[p].alone = bulk[p].alone
        /\ bulk'[p].refused = bulk[p].refused
    <3>1. bulk[p] \in Bulks
      BY <1>t
    <3> QED
      BY <2>1, <3>1 DEF Bulks
  <2>3. bulk'[p].alone => seen[p] = rows
    BY <2>1, <2>2 DEF OpeningsInv, ImportSound
  <2>4. bulk'[p].todo \subseteq O!Operations(p)'
    BY <2>1, <2>2, PlanStands
  <2>5. ASSUME bulk'[p].alone, NEW i \in O!Live(seen[p])
        PROVE  rows[i].live /\ rows[i].mark = seen[p][i].mark /\ rows[i].hand = seen[p][i].hand
    BY <2>3, <2>5 DEF O!Live
  <2>6. ASSUME bulk'[p].alone, NEW m \in Marks PROVE Progress(p, m)'
    <3>1. Count(rows, m) \in Nat
      BY CountType
    <3>2. ASSUME NEW k \in 1 .. Repeats, k > Count(rows, m)
          PROVE  <<m, k>> \in O!Operations(p) <=> k <= sched[p].count[m]
      <4>1. O!Match(p, <<m, k>>) = {}
        BY <2>3, <2>6, <3>2, MatchedUpTo DEF O!Match
      <4> QED
        BY <4>1 DEF O!Operations
    <3> QED
      BY <1>r, <2>1, <2>2, <2>3, <2>6, <3>1, <3>2 DEF Progress
  <2>7. ImportSound(p)'
    BY <1>r, <2>1, <2>4, <2>5, <2>6 DEF ImportSound
  <2> QED
    BY <1>q, <1>n, <2>1, <2>2, <2>3, <2>7 DEF Sound
<1> QED
  BY <1>1, <1>2, <1>3

\* The openings change under every import but the one that writes.
LEMMA EveryoneDisturbed ==
  ASSUME OpeningsInv, O!Estimates
  PROVE  /\ \A q \in O!Passes : ImportSound(q)'
         /\ \A q \in O!Passes : bulk'[q].refused = bulk[q].refused /\ ~bulk'[q].alone
<1>t. bulk \in [O!Passes -> Bulks] /\ 0 \notin O!Passes
  BY OpeningsAssumption DEF OpeningsInv, O!OpeningsTypeOK, Bulks, O!Passes
<1>1. ASSUME NEW q \in O!Passes
      PROVE  /\ seen'[q] = seen[q] /\ sched'[q] = sched[q] /\ oPc'[q] = oPc[q]
             /\ bulk'[q].todo = bulk[q].todo /\ bulk'[q].refused = bulk[q].refused
             /\ ~bulk'[q].alone
  BY <1>t, DisturbedType DEF O!Estimates
<1> QED
  BY <1>1, NoLongerAlone DEF OpeningsInv

\* An estimator's act that leaves the doors as they are.
LEMMA DoorsLeft ==
  ASSUME OpeningsInv, O!Estimates, rows' \in Book, SameDoors(rows, rows'), oShaken' = oShaken
  PROVE  Sound'
<1>1. rows \in Book
  BY DEF OpeningsInv, O!OpeningsTypeOK, Book
<1> QED
  BY <1>1, EveryoneDisturbed, NumberedKept DEF OpeningsInv, Sound

LEMMA EstimatorKeepsSound ==
  ASSUME OpeningsInv, O!OpeningsTypeOK',
         \/ \E i \in O!Ids : O!Corrects(i) \/ \E m \in Marks : O!Renames(i, m)
         \/ \E set \in SUBSET O!Ids : O!Confirms(set) \/ O!Deletes(set)
         \/ \E m \in Marks : O!Adds(m)
  PROVE  Sound'
<1>t. rows \in Book /\ rows' \in Book /\ \A i \in O!Ids : rows[i] \in O!Row
  BY DEF OpeningsInv, O!OpeningsTypeOK, Book
<1>1. ASSUME NEW i \in O!Ids, O!Corrects(i) PROVE Sound'
  <2>1. rows' = [rows EXCEPT ![i] = Corrected(@)] /\ rows[i].live
    BY <1>1 DEF O!Corrects, O!Theirs, Corrected
  <2>2. /\ Corrected(rows[i]).live = rows[i].live /\ Corrected(rows[i]).mark = rows[i].mark
        /\ Corrected(rows[i]).door = rows[i].door /\ Corrected(rows[i]).hand = rows[i].hand
    BY <1>t DEF Corrected, O!Row
  <2>3. SameDoors(rows, rows')
    BY <1>t, <2>1, <2>2 DEF SameDoors, Book
  <2> QED
    BY <1>1, <1>t, <2>3, DoorsLeft DEF O!Corrects
<1>2. ASSUME NEW set \in SUBSET O!Ids, O!Confirms(set) PROVE Sound'
  <2>1. /\ rows' = [i \in O!Ids |-> IF i \in set THEN O!Confirmed(rows[i]) ELSE rows[i]]
        /\ \A i \in set : rows[i].live
    BY <1>2 DEF O!Confirms, O!Live
  <2>2. \A i \in O!Ids :
          /\ O!Confirmed(rows[i]).live = rows[i].live /\ O!Confirmed(rows[i]).mark = rows[i].mark
          /\ O!Confirmed(rows[i]).door = rows[i].door /\ O!Confirmed(rows[i]).hand = rows[i].hand
    BY <1>t DEF O!Confirmed, O!Row
  <2>3. SameDoors(rows, rows')
    BY <2>1, <2>2 DEF SameDoors
  <2> QED
    BY <1>2, <1>t, <2>3, DoorsLeft DEF O!Confirms
<1>3. ASSUME \/ \E i \in O!Ids, m \in Marks : O!Renames(i, m)
             \/ \E set \in SUBSET O!Ids : O!Deletes(set)
      PROVE  Sound'
  <2>1. O!Estimates /\ oShaken'
    BY <1>3 DEF O!Renames, O!Deletes
  <2> QED
    BY <2>1, EveryoneDisturbed DEF Sound, Numbered
<1>4. ASSUME NEW m \in Marks, O!Adds(m) PROVE Sound'
  <2> DEFINE row == [live |-> TRUE, mark |-> m, door |-> <<m, 1>>, text |-> 0,
                     status |-> "by_hand", confirmed |-> TRUE, hand |-> TRUE]
             n == O!NewRow(rows)
  <2>1. /\ O!Fresh(rows) # {} /\ O!Estimates /\ oShaken' = oShaken
        /\ rows' = [rows EXCEPT ![O!NewRow(rows)] = row]
    BY <1>4 DEF O!Adds
  <2>2. row \in O!Row /\ row.live
    BY OpeningsAssumption DEF O!Row, O!Doors, O!Status
  <2>h. row.hand /\ row.mark = m
    OBVIOUS
  <2> HIDE DEF row
  <2>a. DoorMore(rows, rows', n, row)
    BY <1>t, <2>1, <2>2, DoorAdded
  <2> HIDE DEF n
  <2>3. /\ n \in O!Ids \ O!Live(rows) /\ rows'[n] = row
        /\ O!Live(rows') = O!Live(rows) \cup {n}
        /\ \A i \in O!Ids \ {n} : rows'[i] = rows[i]
        /\ Grown(rows) => /\ Grown(rows')
                          /\ \A k : \A i \in O!Of(rows, k) :
                               Rank(O!Of(rows', k), i) = Rank(O!Of(rows, k), i)
    BY <2>a DEF DoorMore
  <2>4. ASSUME ~oShaken PROVE Grown(rows') /\ DoorsNumbered(rows')
    <3>1. Grown(rows) /\ DoorsNumbered(rows)
      BY <2>4 DEF OpeningsInv, Numbered
    <3>2. ASSUME NEW i \in O!Live(rows'), ~rows'[i].hand
          PROVE  rows'[i].door = <<rows'[i].mark, Rank(O!Of(rows', rows'[i].mark), i)>>
      <4>1. i # n /\ i \in O!Live(rows) /\ rows'[i] = rows[i]
        BY <2>h, <2>3, <3>2 DEF O!Live
      <4>2. i \in O!Of(rows, rows[i].mark)
        BY <4>1 DEF O!Of
      <4>3. rows[i].door = <<rows[i].mark, Rank(O!Of(rows, rows[i].mark), i)>>
        BY <3>1, <3>2, <4>1 DEF DoorsNumbered
      <4> QED
        BY <2>3, <3>1, <4>1, <4>2, <4>3
    <3> QED
      BY <2>3, <3>1, <3>2 DEF DoorsNumbered
  <2>5. Numbered'
    BY <2>1, <2>4, EveryoneDisturbed DEF OpeningsInv, Numbered
  <2> QED
    BY <2>1, <2>5, EveryoneDisturbed DEF Sound
<1> QED
  BY <1>1, <1>2, <1>3, <1>4

LEMMA ReopenKeepsSound ==
  ASSUME OpeningsInv, O!OpeningsTypeOK', NEW p \in O!Passes, O!reopen_confirmed(p)
  PROVE  Sound'
<1>t. /\ rows \in Book /\ rows' \in Book /\ \A i \in O!Ids : rows[i] \in O!Row
      /\ bulk \in [O!Passes -> Bulks] /\ oPc \in [O!Passes -> O!Points]
  BY DEF OpeningsInv, O!OpeningsTypeOK, Book, Bulks
<1>1. /\ oPc' = [oPc EXCEPT ![p] = "over"] /\ sched' = sched /\ seen' = seen
      /\ oShaken' = oShaken
  BY DEF O!reopen_confirmed, O!Goto
<1>2. SameDoors(rows, rows')
  <2>1. \A i \in O!Ids : /\ Reopened(rows[i]).live = rows[i].live
                         /\ Reopened(rows[i]).mark = rows[i].mark
                         /\ Reopened(rows[i]).door = rows[i].door
                         /\ Reopened(rows[i]).hand = rows[i].hand
    BY <1>t DEF Reopened, O!Row
  <2>2. \/ rows' = [i \in O!Ids |-> IF rows[i].live /\ rows[i].status = "clear"
                                    THEN Reopened(rows[i]) ELSE rows[i]]
        \/ rows' = rows
    BY DEF O!reopen_confirmed, Reopened
  <2> QED
    BY <2>1, <2>2 DEF SameDoors
<1>3. \/ rows' = rows /\ bulk' = bulk
      \/ \A q \in O!Passes : /\ bulk'[q].todo = bulk[q].todo
                             /\ bulk'[q].refused = bulk[q].refused
                             /\ q # p => ~bulk'[q].alone
  BY <1>t, DisturbedType, ZenonT(40) DEF O!reopen_confirmed
<1>4. ASSUME NEW q \in O!Passes PROVE ImportSound(q)'
  <2>1. CASE q = p
    <3>1. oPc'[q] = "over"
      BY <1>1, <1>t, <2>1
    <3> QED
      BY <3>1 DEF ImportSound
  <2>2. CASE q # p
    <3>1. oPc'[q] = oPc[q] /\ seen'[q] = seen[q] /\ sched'[q] = sched[q]
      BY <1>1, <1>t, <2>2
    <3>2. CASE rows' = rows /\ bulk' = bulk
      BY <3>1, <3>2, Untouched DEF OpeningsInv
    <3>3. CASE bulk'[q].todo = bulk[q].todo /\ ~bulk'[q].alone
      BY <3>1, <3>3, NoLongerAlone DEF OpeningsInv
    <3> QED
      BY <1>3, <2>2, <3>2, <3>3
  <2> QED
    BY <2>1, <2>2
<1>5. Numbered'
  <2>1. ASSUME NEW q \in O!Passes
        PROVE  /\ bulk'[q].refused => bulk[q].refused
               /\ oPc'[q] = "bulk" /\ bulk'[q].alone =>
                    oPc[q] = "bulk" /\ bulk[q].alone /\ seen'[q] = seen[q]
    <3>1. oPc'[q] = IF q = p THEN "over" ELSE oPc[q]
      BY <1>1, <1>t
    <3>2. "over" # "bulk"
      OBVIOUS
    <3> QED
      BY <1>1, <1>3, <3>1, <3>2
  <2> QED
    BY <1>1, <1>2, <1>t, <2>1, NumberedKept DEF OpeningsInv
<1> QED
  BY <1>4, <1>5 DEF Sound

\* An opening's number is at most the openings of its mark, and its own.
LEMMA OwnNumber ==
  ASSUME NEW rs, NEW m
  PROVE  /\ \A i \in O!Of(rs, m) : Rank(O!Of(rs, m), i) \in 1 .. Count(rs, m)
         /\ \A i, j \in O!Of(rs, m) : Rank(O!Of(rs, m), i) = Rank(O!Of(rs, m), j) => i = j
<1>1. O!Of(rs, m) \in SUBSET O!Ids
  BY DEF O!Of, O!Live
<1>2. O!Of(rs, m) \in SUBSET Nat /\ IsFiniteSet(O!Of(rs, m))
  BY <1>1, IdsFinite
<1> QED
  BY <1>2, Ranks DEF Count

LEMMA InsertKeepsSound ==
  ASSUME OpeningsInv, NEW p \in O!Passes, NEW key \in bulk[p].todo, O!Insert(p, key)
  PROVE  Sound'
<1>t. /\ rows \in Book /\ sched \in [O!Passes -> O!Schedule] /\ bulk \in [O!Passes -> Bulks]
      /\ oPc \in [O!Passes -> O!Points] /\ O!OpeningsTypeOK
  BY DEF OpeningsInv, O!OpeningsTypeOK, Book, Bulks
<1> DEFINE row == [live |-> TRUE, mark |-> key[1], door |-> key, text |-> p,
                   status |-> sched[p].status, confirmed |-> FALSE, hand |-> FALSE]
           n == O!NewRow(rows)
<1>1. PICK refused \in BOOLEAN :
           /\ refused = O!Taken(rows, 0, key, FALSE)
           /\ O!Performed(p, key, refused)
           /\ oPc[p] = "bulk" /\ key \in O!Due(p) /\ O!Match(p, key) = {}
           /\ refused => rows' = rows
           /\ ~refused => O!Fresh(rows) # {} /\ rows' = [rows EXCEPT ![O!NewRow(rows)] = row]
  BY <1>t, Inserted
<1>2. key \in Marks \X (1 .. Repeats) /\ row \in O!Row
  <2>1. key \in Marks \X (1 .. Repeats) /\ key[1] \in Marks /\ sched[p].status \in O!Status
    BY <1>t DEF Bulks, O!Schedule
  <2> QED
    BY <2>1 DEF O!Row, O!Doors
<1>3. row.live /\ row.mark = key[1] /\ row.door = key /\ ~row.hand
  OBVIOUS
<1> HIDE DEF row
<1>4. ~refused => DoorMore(rows, rows', n, row)
  BY <1>t, <1>1, <1>2, <1>3, DoorAdded
<1> HIDE DEF n
<1>5. /\ oPc' = oPc /\ sched' = sched /\ seen' = seen /\ oShaken' = (oShaken \/ ~bulk[p].alone)
      /\ \A q \in O!Passes : q # p =>
           /\ bulk'[q].todo = bulk[q].todo /\ bulk'[q].refused = bulk[q].refused
           /\ ~bulk'[q].alone
      /\ bulk'[p].todo = bulk[p].todo \ {key}
      /\ bulk'[p].refused = (bulk[p].refused \/ refused)
      /\ bulk'[p].alone = bulk[p].alone
  <2>1. O!Performed(p, key, refused)
    BY <1>1
  <2>2. /\ oPc' = oPc /\ sched' = sched /\ seen' = seen
        /\ oShaken' = (oShaken \/ ~bulk[p].alone)
    BY <2>1, Zenon DEF O!Performed
  <2>3. bulk \in [O!Passes -> Bulks]
    BY <1>t
  <2>4. /\ \A q \in O!Passes : q # p =>
             /\ bulk'[q].todo = bulk[q].todo /\ bulk'[q].refused = bulk[q].refused
             /\ ~bulk'[q].alone
        /\ bulk'[p].todo = bulk[p].todo \ {key}
        /\ bulk'[p].refused = (bulk[p].refused \/ refused)
        /\ bulk'[p].alone = bulk[p].alone
    BY <2>1, <2>3, PerformedType
  <2> QED
    BY <2>2, <2>4
<1>6. ImportSound(p)
  BY DEF OpeningsInv
<1>7. ASSUME NEW q \in O!Passes, q # p PROVE ImportSound(q)'
  BY <1>5, <1>7, NoLongerAlone DEF OpeningsInv
<1>8. \A i \in O!Live(rows) : rows'[i] = rows[i]
  BY <1>1, <1>4 DEF DoorMore, O!Live
<1>9. ASSUME bulk[p].alone, ~bulk[p].refused
      PROVE  /\ key[1] \in Marks /\ key = <<key[1], Count(rows, key[1]) + 1>>
             /\ Count(rows, key[1]) \in Nat /\ Count(seen[p], key[1]) \in Nat
             /\ Count(seen[p], key[1]) < key[2] /\ Count(rows, key[1]) < key[2]
             /\ key[2] <= sched[p].count[key[1]]
  BY <1>1, <1>6, <1>9, <1>t, NextDoor
<1>10. ASSUME bulk[p].alone, ~bulk[p].refused, ~refused, NEW m \in Marks PROVE Progress(p, m)'
  <2>1. Progress(p, m) /\ Count(rows, m) \in Nat /\ Count(seen[p], m) \in Nat
        /\ sched[p].count[m] \in Nat
    BY <1>1, <1>6, <1>10, <1>t, CountType DEF ImportSound, O!Schedule
  <2>2. CASE m # key[1]
    <3>1. Count(rows', m) = Count(rows, m)
      BY <1>3, <1>4, <1>10, <2>2 DEF DoorMore
    <3>2. \A k : <<m, k>> # key
      BY <2>2
    <3> QED
      BY <1>5, <2>1, <3>1, <3>2 DEF Progress
  <2>3. CASE m = key[1]
    <3>1. Count(rows', m) = Count(rows, m) + 1
      BY <1>3, <1>4, <1>10, <2>3 DEF DoorMore
    <3>2. /\ key = <<m, Count(rows, m) + 1>> /\ Count(rows, m) + 1 <= sched[p].count[m]
      BY <1>9, <1>10, <2>3
    <3>3. ASSUME NEW k \in 1 .. Repeats, k > Count(seen[p], m)
          PROVE  <<m, k>> \in bulk'[p].todo
                   <=> Count(rows, m) + 1 < k /\ k <= sched[p].count[m]
      <4>1. <<m, k>> \in bulk[p].todo <=> Count(rows, m) < k /\ k <= sched[p].count[m]
        BY <2>1, <3>3 DEF Progress
      <4>2. <<m, k>> \in bulk'[p].todo <=> <<m, k>> \in bulk[p].todo /\ k # Count(rows, m) + 1
        BY <1>5, <3>2
      <4>3. k \in Nat
        BY OpeningsAssumption
      <4> QED
        BY <2>1, <4>1, <4>2, <4>3
    <3>4. Count(seen[p], m) <= Count(rows, m) + 1
      BY <2>1 DEF Progress
    <3> QED
      BY <1>5, <3>1, <3>2, <3>3, <3>4 DEF Progress
  <2> QED
    BY <2>2, <2>3
<1>11. ImportSound(p)'
  <2>1. bulk'[p].todo \subseteq O!Operations(p)'
    BY <1>1, <1>5, <1>6, PlanStands DEF ImportSound
  <2>2. ASSUME bulk[p].alone, NEW i \in O!Live(seen[p])
        PROVE  rows'[i].live /\ rows'[i].mark = seen[p][i].mark /\ rows'[i].hand = seen[p][i].hand
    <3>1. rows[i].live /\ rows[i].mark = seen[p][i].mark /\ rows[i].hand = seen[p][i].hand
      BY <1>1, <1>6, <2>2 DEF ImportSound
    <3>2. i \in O!Live(rows)
      BY <3>1 DEF O!Live
    <3> QED
      BY <1>8, <3>1, <3>2
  <2>3. ASSUME bulk[p].alone, ~bulk'[p].refused, NEW m \in Marks PROVE Progress(p, m)'
    BY <1>5, <1>10, <2>3
  <2> QED
    BY <1>1, <1>5, <2>1, <2>2, <2>3 DEF ImportSound
<1>12. Numbered'
  <2> SUFFICES ASSUME ~oShaken'
               PROVE  /\ Grown(rows') /\ DoorsNumbered(rows')
                      /\ \A q \in O!Passes :
                           /\ ~bulk'[q].refused
                           /\ oPc'[q] = "bulk" /\ bulk'[q].alone => Grown(seen'[q])
    BY DEF Numbered
  <2>1. /\ bulk[p].alone /\ Grown(rows) /\ DoorsNumbered(rows)
        /\ \A q \in O!Passes : /\ ~bulk[q].refused
                               /\ oPc[q] = "bulk" /\ bulk[q].alone => Grown(seen[q])
    BY <1>5 DEF OpeningsInv, Numbered
  <2>2. ~refused
    <3> SUFFICES ASSUME NEW j \in O!Live(rows), ~rows[j].hand, rows[j].door = key PROVE FALSE
      <4>1. \A j \in O!Live(rows) : rows[j].hand \in BOOLEAN
        BY <1>t DEF O!Live, Book, O!Row
      <4> QED
        BY <1>1, <4>1 DEF O!Taken
    <3>1. key = <<rows[j].mark, Rank(O!Of(rows, rows[j].mark), j)>>
      BY <2>1 DEF DoorsNumbered
    <3>2. rows[j].mark = key[1] /\ Rank(O!Of(rows, key[1]), j) = key[2]
      BY <3>1
    <3>3. j \in O!Of(rows, key[1])
      BY <3>2 DEF O!Of
    <3>4. Rank(O!Of(rows, key[1]), j) \in 1 .. Count(rows, key[1])
      BY <3>3, OwnNumber
    <3>5. Count(rows, key[1]) \in Nat /\ Count(rows, key[1]) < key[2]
      BY <1>9, <2>1
    <3> QED
      BY <3>2, <3>4, <3>5
  <2>3. /\ Grown(rows') /\ O!Live(rows') = O!Live(rows) \cup {n} /\ rows'[n] = row
        /\ \A m : \A i \in O!Of(rows, m) : Rank(O!Of(rows', m), i) = Rank(O!Of(rows, m), i)
        /\ Rank(O!Of(rows', key[1]), n) = Count(rows, key[1]) + 1
    BY <1>3, <1>4, <2>1, <2>2 DEF DoorMore
  <2>4. ASSUME NEW i \in O!Live(rows'), ~rows'[i].hand
        PROVE  rows'[i].door = <<rows'[i].mark, Rank(O!Of(rows', rows'[i].mark), i)>>
    <3>1. CASE i = n
      BY <1>3, <1>9, <2>1, <2>3, <3>1
    <3>2. CASE i \in O!Live(rows)
      <4>1. rows'[i] = rows[i] /\ i \in O!Of(rows, rows[i].mark)
        BY <1>8, <3>2 DEF O!Of
      <4>2. rows[i].door = <<rows[i].mark, Rank(O!Of(rows, rows[i].mark), i)>>
        BY <2>1, <2>4, <3>2, <4>1 DEF DoorsNumbered
      <4> QED
        BY <2>3, <4>1, <4>2
    <3> QED
      BY <2>3, <3>1, <3>2
  <2>5. DoorsNumbered(rows')
    BY <2>4 DEF DoorsNumbered
  <2> QED
    BY <1>5, <2>1, <2>2, <2>3, <2>5
<1> QED
  BY <1>7, <1>11, <1>12 DEF Sound

LEMMA UpdateKeepsSound ==
  ASSUME OpeningsInv, O!OpeningsTypeOK', NEW p \in O!Passes, NEW key \in bulk[p].todo,
         NEW i \in O!Ids, O!Update(p, key, i)
  PROVE  Sound'
<1>t. /\ rows \in Book /\ rows' \in Book /\ sched \in [O!Passes -> O!Schedule]
      /\ seen \in [O!Passes -> Book]
      /\ bulk \in [O!Passes -> Bulks] /\ oPc \in [O!Passes -> O!Points] /\ O!OpeningsTypeOK
  BY DEF OpeningsInv, O!OpeningsTypeOK, Book, Bulks
<1> DEFINE new == Rewritten(rows[i], key, p, sched[p].status)
<1>1. PICK refused \in BOOLEAN :
           /\ refused = (rows[i].live /\ O!Taken(rows, i, key, rows[i].hand))
           /\ O!Performed(p, key, refused)
           /\ oPc[p] = "bulk" /\ key \in O!Due(p) /\ i \in O!Match(p, key)
           /\ refused \/ ~rows[i].live => rows' = rows
           /\ ~refused /\ rows[i].live => rows' = [rows EXCEPT ![i] = new]
  BY <1>t, Updated
<1>2. new.live = rows[i].live /\ new.hand = rows[i].hand /\ new.mark = key[1] /\ new.door = key
  <2>1. rows[i] \in O!Row
    BY <1>t DEF Book
  <2> QED
    BY <2>1 DEF Rewritten, O!Row
<1> HIDE DEF new
<1>5. /\ oPc' = oPc /\ sched' = sched /\ seen' = seen /\ oShaken' = (oShaken \/ ~bulk[p].alone)
      /\ \A q \in O!Passes : q # p =>
           /\ bulk'[q].todo = bulk[q].todo /\ bulk'[q].refused = bulk[q].refused
           /\ ~bulk'[q].alone
      /\ bulk'[p].todo = bulk[p].todo \ {key}
      /\ bulk'[p].refused = (bulk[p].refused \/ refused)
      /\ bulk'[p].alone = bulk[p].alone
  <2>1. O!Performed(p, key, refused)
    BY <1>1
  <2>2. /\ oPc' = oPc /\ sched' = sched /\ seen' = seen
        /\ oShaken' = (oShaken \/ ~bulk[p].alone)
    BY <2>1, Zenon DEF O!Performed
  <2>3. bulk \in [O!Passes -> Bulks]
    BY <1>t
  <2>4. /\ \A q \in O!Passes : q # p =>
             /\ bulk'[q].todo = bulk[q].todo /\ bulk'[q].refused = bulk[q].refused
             /\ ~bulk'[q].alone
        /\ bulk'[p].todo = bulk[p].todo \ {key}
        /\ bulk'[p].refused = (bulk[p].refused \/ refused)
        /\ bulk'[p].alone = bulk[p].alone
    BY <2>1, <2>3, PerformedType
  <2> QED
    BY <2>2, <2>4
<1>6. ImportSound(p)
  BY DEF OpeningsInv
<1>7. ASSUME NEW q \in O!Passes, q # p PROVE ImportSound(q)'
  BY <1>5, <1>7, NoLongerAlone DEF OpeningsInv
<1>8. /\ key[1] \in Marks /\ key[2] \in Nat \ {0} /\ key = <<key[1], key[2]>>
      /\ i \in O!Of(seen[p], key[1]) /\ Rank(O!Of(seen[p], key[1]), i) = key[2]
      /\ i \in O!Live(seen[p]) /\ seen[p][i].mark = key[1] /\ ~seen[p][i].hand
  <2>1. key \in Marks \X (1 .. Repeats)
    BY <1>t DEF Bulks
  <2>2. key[1] \in Marks /\ key[2] \in Nat \ {0} /\ key = <<key[1], key[2]>>
    BY <2>1, OpeningsAssumption
  <2>3. i \in O!Of(seen[p], key[1]) /\ Rank(O!Of(seen[p], key[1]), i) = key[2]
    BY <1>1, Matched DEF O!Match
  <2>4. key \in O!Operations(p)
    BY <1>1, <1>6 DEF ImportSound
  <2>5. ~O!Kept(seen[p][i])
    BY <1>1, <2>4 DEF O!Operations
  <2> QED
    BY <2>2, <2>3, <2>5 DEF O!Of, O!Kept
\* While the import is alone it writes the mark that is there.
<1>9. ASSUME bulk[p].alone
      PROVE  /\ rows[i].live /\ rows[i].mark = key[1] /\ rows[i].hand = seen[p][i].hand
             /\ \A j \in O!Ids : rows'[j].live = rows[j].live /\ rows'[j].mark = rows[j].mark
                                 /\ rows'[j].hand = rows[j].hand
             /\ \A m : Count(rows', m) = Count(rows, m)
  <2>1. rows[i].live /\ rows[i].mark = key[1] /\ rows[i].hand = seen[p][i].hand
    BY <1>1, <1>6, <1>8, <1>9 DEF ImportSound
  <2>2. \A j \in O!Ids : rows'[j].live = rows[j].live /\ rows'[j].mark = rows[j].mark
                         /\ rows'[j].hand = rows[j].hand
    BY <1>1, <1>2, <1>t, <2>1 DEF Book
  <2> QED
    BY <2>1, <2>2, SameCounts
<1>10. ASSUME bulk[p].alone, ~bulk'[p].refused, NEW m \in Marks PROVE Progress(p, m)'
  <2>1. Progress(p, m) /\ Count(rows', m) = Count(rows, m)
    BY <1>1, <1>5, <1>6, <1>9, <1>10 DEF ImportSound
  <2>2. ~(key[2] > Count(seen[p], key[1]))
    BY <1>1, <1>8, MatchedUpTo DEF O!Match
  <2>3. \A k : k > Count(seen[p], m) => <<m, k>> # key
    BY <1>8, <2>2
  <2> QED
    BY <1>5, <2>1, <2>3 DEF Progress
<1>11. ImportSound(p)'
  <2>1. bulk'[p].todo \subseteq O!Operations(p)'
    BY <1>1, <1>5, <1>6, PlanStands DEF ImportSound
  <2>2. ASSUME bulk[p].alone, NEW j \in O!Live(seen[p])
        PROVE  rows'[j].live /\ rows'[j].mark = seen[p][j].mark /\ rows'[j].hand = seen[p][j].hand
    <3>1. rows[j].live /\ rows[j].mark = seen[p][j].mark /\ rows[j].hand = seen[p][j].hand
      BY <1>1, <1>6, <2>2 DEF ImportSound
    <3>2. j \in O!Ids
      BY DEF O!Live
    <3> QED
      BY <1>9, <2>2, <3>1, <3>2
  <2> QED
    BY <1>1, <1>5, <1>10, <2>1, <2>2 DEF ImportSound
<1>12. Numbered'
  <2> SUFFICES ASSUME ~oShaken' PROVE Numbered'
    BY DEF Numbered
  <2>1. /\ bulk[p].alone /\ Grown(rows) /\ DoorsNumbered(rows) /\ Grown(seen[p])
    BY <1>1, <1>5 DEF OpeningsInv, Numbered
  <2>2. {j \in O!Of(rows, key[1]) : j <= i} = {j \in O!Of(seen[p], key[1]) : j <= i}
    <3>1. ASSUME NEW j \in O!Of(rows, key[1]), j <= i PROVE j \in O!Of(seen[p], key[1])
      <4>1. j \in O!Ids /\ j \in Nat /\ i \in Nat /\ rows[j].mark = key[1]
        BY IdsFinite DEF O!Of, O!Live
      <4>2. j = i \/ j < i
        BY <3>1, <4>1
      <4>3. seen[p][i].live
        BY <1>8 DEF O!Live
      <4>4. seen[p][j].live
        BY <2>1, <4>1, <4>2, <4>3 DEF Grown
      <4>5. j \in O!Live(seen[p])
        BY <4>1, <4>4 DEF O!Live
      <4>6. seen[p][j].mark = key[1]
        BY <1>1, <1>6, <2>1, <4>1, <4>5 DEF ImportSound
      <4> QED
        BY <4>5, <4>6 DEF O!Of
    <3>2. ASSUME NEW j \in O!Of(seen[p], key[1]) PROVE j \in O!Of(rows, key[1])
      <4>1. j \in O!Live(seen[p]) /\ j \in O!Ids /\ seen[p][j].mark = key[1]
        BY DEF O!Of, O!Live
      <4>2. rows[j].live /\ rows[j].mark = key[1]
        BY <1>1, <1>6, <2>1, <4>1 DEF ImportSound
      <4> QED
        BY <4>1, <4>2 DEF O!Of, O!Live
    <3> QED
      BY <3>1, <3>2
  <2>3. Rank(O!Of(rows, key[1]), i) = key[2]
    BY <1>8, <2>2 DEF Rank
  <2>4. i \in O!Live(rows) /\ rows[i].door = key
    <3>1. i \in O!Live(rows) /\ ~rows[i].hand /\ rows[i].mark = key[1]
      BY <1>8, <1>9, <2>1 DEF O!Live
    <3> QED
      BY <1>8, <2>1, <2>3, <3>1 DEF DoorsNumbered
  <2>5. ~refused
    <3> SUFFICES ASSUME NEW j \in O!Live(rows), j # i, ~rows[j].hand, rows[j].door = key
                 PROVE  FALSE
      <4>1. \A j \in O!Live(rows) : rows[j].hand \in BOOLEAN
        BY <1>t DEF O!Live, Book, O!Row
      <4>2. ~rows[i].hand
        BY <1>8, <1>9, <2>1
      <4> QED
        BY <1>1, <2>4, <4>1, <4>2 DEF O!Taken
    <3>1. key = <<rows[j].mark, Rank(O!Of(rows, rows[j].mark), j)>>
      BY <2>1 DEF DoorsNumbered
    <3>2. rows[j].mark = key[1] /\ Rank(O!Of(rows, key[1]), j) = key[2]
      BY <3>1
    <3>3. j \in O!Of(rows, key[1]) /\ i \in O!Of(rows, key[1])
      BY <1>9, <2>1, <2>4, <3>2 DEF O!Of
    <3> QED
      BY <2>3, <3>2, <3>3, OwnNumber
  <2>6. SameDoors(rows, rows')
    BY <1>1, <1>2, <1>9, <1>t, <2>1, <2>4, <2>5 DEF SameDoors, Book
  <2>7. ASSUME NEW q \in O!Passes
        PROVE  /\ bulk'[q].refused => bulk[q].refused
               /\ oPc'[q] = "bulk" /\ bulk'[q].alone =>
                    oPc[q] = "bulk" /\ bulk[q].alone /\ seen'[q] = seen[q]
    <3>1. CASE q = p
      BY <1>5, <2>5, <3>1
    <3>2. CASE q # p
      BY <1>5, <3>2
    <3> QED
      BY <3>1, <3>2
  <2> QED
    BY <1>5, <1>t, <2>6, <2>7, NumberedKept DEF OpeningsInv
<1> QED
  BY <1>7, <1>11, <1>12 DEF Sound

LEMMA OpeningsInit == O!Init => OpeningsInv
<1> SUFFICES ASSUME O!Init PROVE OpeningsInv
  OBVIOUS
<1>1. /\ rows = O!NoRows /\ oPc = [p \in O!Passes |-> "idle"]
      /\ sched = [p \in O!Passes |-> O!Empty] /\ seen = [p \in O!Passes |-> O!NoRows]
      /\ bulk = [p \in O!Passes |-> O!NoBulk] /\ lease = 0 /\ left = Touches /\ oShaken = FALSE
  BY DEF O!Init
<1>2. /\ O!NoRows \in Book /\ O!NoBulk \in Bulks /\ O!Empty \in O!Schedule
  BY BlankRow, OpeningsAssumption
     DEF O!NoRows, Book, O!NoBulk, Bulks, O!Empty, O!Schedule, O!Status
<1>3. O!OpeningsTypeOK
  BY <1>1, <1>2, OpeningsAssumption DEF O!OpeningsTypeOK, Book, Bulks, O!Points
<1>4. \A p \in O!Passes : ImportSound(p)
  BY <1>1 DEF ImportSound
<1>5. Numbered
  <2>1. \A i \in O!Ids : rows[i] = O!Blank /\ ~rows[i].live
    BY <1>1, BlankRow DEF O!NoRows
  <2>2. O!Live(rows) = {}
    BY <2>1 DEF O!Live
  <2>3. Grown(rows) /\ DoorsNumbered(rows)
    BY <2>1, <2>2 DEF Grown, DoorsNumbered
  <2> QED
    BY <1>1, <2>3 DEF Numbered, O!NoBulk
<1> QED
  BY <1>3, <1>4, <1>5 DEF OpeningsInv

LEMMA OpeningsStep == OpeningsInv /\ [O!Next]_O!vars => OpeningsInv'
<1> SUFFICES ASSUME OpeningsInv, [O!Next]_O!vars PROVE OpeningsInv'
  OBVIOUS
<1>1. O!OpeningsTypeOK'
  BY OpeningsTypes DEF OpeningsInv
<1>2. ASSUME O!Next PROVE Sound'
  BY <1>1, <1>2, OpeningsSteps, ImportProceeds, EstimatorKeepsSound, ReopenKeepsSound,
     InsertKeepsSound, UpdateKeepsSound, Zenon DEF OpeningsActions
<1>3. ASSUME UNCHANGED O!vars PROVE Sound'
  <2>1. \A q \in O!Passes : ImportSound(q)'
    BY <1>3, Untouched DEF OpeningsInv, O!vars
  <2>2. Numbered'
    BY <1>3 DEF OpeningsInv, O!vars, Numbered, Grown, DoorsNumbered, O!Live, O!Of
  <2> QED
    BY <2>1, <2>2 DEF Sound
<1> QED
  BY <1>1, <1>2, <1>3 DEF OpeningsInv, Sound

\* Only its own bulk write shortens an import's list of doors.
LEMMA WhoWrites ==
  ASSUME OpeningsInv, O!Next, NEW p \in O!Passes, oPc[p] = "bulk",
         bulk'[p].todo # bulk[p].todo
  PROVE  \E key \in bulk[p].todo : O!Insert(p, key) \/ \E i \in O!Ids : O!Update(p, key, i)
<1>t. bulk \in [O!Passes -> Bulks] /\ oPc \in [O!Passes -> O!Points] /\ O!OpeningsTypeOK
  BY DEF OpeningsInv, O!OpeningsTypeOK, Bulks
<1>d. \A q : O!Disturbed(q)[p].todo = bulk[p].todo
  BY <1>t, DisturbedType
<1>1. ASSUME NEW q \in O!Passes, O!Begins(q) \/ O!Aborts(q) \/ O!Reads(q) \/ O!HoldsLease(q)
      PROVE  FALSE
  <2>1. CASE q = p
    BY <1>1, <2>1 DEF O!Begins, O!Aborts, O!Reads, O!HoldsLease
  <2>2. CASE q # p
    BY <1>1, <1>t, <2>2 DEF O!Begins, O!Aborts, O!Reads, O!HoldsLease, O!Forgets
  <2> QED
    BY <2>1, <2>2
<1>2. ASSUME NEW q \in O!Passes, O!apply_bulk(q) PROVE FALSE
  <2>1. bulk[q].todo = {} /\ bulk' = [bulk EXCEPT ![q] = O!NoBulk]
    BY <1>2 DEF O!apply_bulk, O!Forgets
  <2> QED
    BY <1>t, <2>1 DEF O!NoBulk
<1>3. ASSUME NEW q \in O!Passes, O!reopen_confirmed(q) PROVE FALSE
  BY <1>3, <1>d DEF O!reopen_confirmed
<1>4. ASSUME \/ \E i \in O!Ids : O!Corrects(i)
             \/ \E i \in O!Ids, m \in Marks : O!Renames(i, m)
             \/ \E set \in SUBSET O!Ids : O!Confirms(set) \/ O!Deletes(set)
             \/ \E m \in Marks : O!Adds(m)
      PROVE  FALSE
  <2>1. O!Estimates
    BY <1>4 DEF O!Corrects, O!Renames, O!Confirms, O!Deletes, O!Adds
  <2> QED
    BY <2>1, <1>d DEF O!Estimates
<1>5. ASSUME NEW q \in O!Passes, q # p, NEW key \in bulk[q].todo,
             O!Insert(q, key) \/ \E i \in O!Ids : O!Update(q, key, i)
      PROVE  FALSE
  <2>1. \E refused \in BOOLEAN : O!Performed(q, key, refused)
    BY <1>5, <1>t, Inserted, Updated
  <2> QED
    BY <1>5, <1>t, <2>1, PerformedType
<1> QED
  BY <1>1, <1>2, <1>3, <1>4, <1>5, OpeningsSteps DEF OpeningsActions

\* It writes to no opening that was settled when it read them.
LEMMA SettledKept ==
  ASSUME OpeningsInv, O!Next, NEW p \in O!Passes, oPc[p] = "bulk",
         bulk'[p].todo # bulk[p].todo, NEW i \in O!Live(rows),
         seen[p][i].confirmed \/ seen[p][i].hand
  PROVE  rows'[i] = rows[i]
<1>t. /\ rows \in Book /\ sched \in [O!Passes -> O!Schedule] /\ bulk \in [O!Passes -> Bulks]
      /\ O!OpeningsTypeOK /\ ImportSound(p)
  BY DEF OpeningsInv, O!OpeningsTypeOK, Book, Bulks
<1>1. ASSUME NEW key \in bulk[p].todo, O!Insert(p, key) PROVE rows'[i] = rows[i]
  <2>1. i # O!NewRow(rows) \/ O!Fresh(rows) = {}
    BY NewRowIsFresh, BlankRow DEF O!Live
  <2>2. \/ rows' = rows
        \/ O!Fresh(rows) # {} /\ \E row : rows' = [rows EXCEPT ![O!NewRow(rows)] = row]
    BY <1>1, <1>t, Inserted
  <2> QED
    BY <1>t, <2>1, <2>2 DEF Book, O!Live
<1>2. ASSUME NEW key \in bulk[p].todo, NEW j \in O!Ids, O!Update(p, key, j)
      PROVE  rows'[i] = rows[i]
  <2>1. /\ rows' = rows \/ \E row : rows' = [rows EXCEPT ![j] = row]
        /\ j \in O!Match(p, key)
    BY <1>2, <1>t, Updated
  <2>2. key \in O!Operations(p)
    BY <1>t DEF ImportSound
  <2>3. ~O!Kept(seen[p][j])
    BY <2>1, <2>2 DEF O!Operations
  <2>4. i # j
    BY <2>3 DEF O!Kept
  <2> QED
    BY <1>t, <2>1, <2>4 DEF Book, O!Live
<1> QED
  BY <1>1, <1>2, WhoWrites

\* Openings: what was confirmed or added by hand when an import read the
\* openings is left alone by every operation of its bulk write
\* (door_schedule.py:202-209).
THEOREM DecisionsKept == O!Spec => KeepsDecisions
<1>1. OpeningsInv /\ [O!Next]_O!vars =>
        [\A p \in O!Passes : oPc[p] = "bulk" /\ bulk'[p].todo # bulk[p].todo =>
           \A i \in O!Live(rows) :
             seen[p][i].confirmed \/ seen[p][i].hand => rows'[i] = rows[i]]_O!vars
  BY SettledKept
<1> QED
  BY <1>1, OpeningsInit, OpeningsStep, PTL DEF O!Spec, KeepsDecisions, O!KeepsDecisions

\* An undisturbed import ends with as many openings as its schedule lists, or
\* as there were.
LEMMA CountsMeet ==
  ASSUME OpeningsInv, NEW p \in O!Passes, O!apply_bulk(p), ~bulk[p].refused, bulk[p].alone,
         NEW m \in Marks
  PROVE  Count(rows, m) = IF Count(seen[p], m) < sched[p].count[m]
                          THEN sched[p].count[m] ELSE Count(seen[p], m)
<1>1. Progress(p, m) /\ bulk[p].todo = {}
  BY DEF OpeningsInv, ImportSound, O!apply_bulk
<1>2. /\ Count(rows, m) \in Nat /\ Count(seen[p], m) \in Nat
      /\ sched[p].count[m] \in 0 .. Repeats /\ Repeats \in Nat
  BY CountType, OpeningsAssumption DEF OpeningsInv, O!OpeningsTypeOK, O!Schedule
<1>3. Count(seen[p], m) < sched[p].count[m] => ~(Count(rows, m) < sched[p].count[m])
  <2> SUFFICES ASSUME Count(seen[p], m) < sched[p].count[m], Count(rows, m) < sched[p].count[m]
               PROVE  FALSE
    OBVIOUS
  <2>1. sched[p].count[m] \in 1 .. Repeats
    BY <1>2
  <2> QED
    BY <1>1, <1>2, <2>1 DEF Progress
<1> QED
  BY <1>1, <1>2, <1>3 DEF Progress

LEMMA EndOfImport ==
  ASSUME OpeningsInv, O!Next, NEW p \in O!Passes, oPc[p] = "bulk", oPc'[p] # "bulk"
  PROVE  /\ O!apply_bulk(p)
         /\ oPc'[p] = IF bulk[p].refused THEN "failed" ELSE "landed"
<1>t. oPc \in [O!Passes -> O!Points] /\ O!OpeningsTypeOK
  BY DEF OpeningsInv, O!OpeningsTypeOK
<1>g. \A q, there : O!Goto(q, there) => oPc' = [oPc EXCEPT ![q] = there]
  BY DEF O!Goto
<1>1. ASSUME NEW q \in O!Passes, \/ O!Begins(q) \/ O!Aborts(q) \/ O!Reads(q) \/ O!HoldsLease(q)
                                 \/ O!reopen_confirmed(q)
      PROVE  FALSE
  <2>1. oPc[q] # "bulk" /\ \E there : O!Goto(q, there)
    BY <1>1 DEF O!Begins, O!Aborts, O!Reads, O!HoldsLease, O!reopen_confirmed, O!Forgets
  <2> QED
    BY <1>t, <1>g, <2>1
<1>2. ASSUME NEW q \in O!Passes, O!apply_bulk(q) PROVE q = p
  BY <1>2, <1>t, <1>g DEF O!apply_bulk, O!Forgets
<1>3. ASSUME \/ \E i \in O!Ids : O!Corrects(i)
             \/ \E i \in O!Ids, m \in Marks : O!Renames(i, m)
             \/ \E set \in SUBSET O!Ids : O!Confirms(set) \/ O!Deletes(set)
             \/ \E m \in Marks : O!Adds(m)
      PROVE  FALSE
  <2>1. O!Estimates
    BY <1>3 DEF O!Corrects, O!Renames, O!Confirms, O!Deletes, O!Adds
  <2> QED
    BY <2>1 DEF O!Estimates
<1>4. ASSUME NEW q \in O!Passes, NEW key \in bulk[q].todo,
             O!Insert(q, key) \/ \E i \in O!Ids : O!Update(q, key, i)
      PROVE  FALSE
  <2>1. \E refused \in BOOLEAN : O!Performed(q, key, refused)
    BY <1>4, <1>t, Inserted, Updated
  <2> QED
    BY <2>1 DEF O!Performed
<1>5. O!apply_bulk(p)
  BY <1>1, <1>2, <1>3, <1>4, OpeningsSteps DEF OpeningsActions
<1>6. oPc' = [oPc EXCEPT ![p] = IF bulk[p].refused THEN "failed" ELSE "landed"]
  BY <1>5, <1>g DEF O!apply_bulk, O!Forgets
<1> QED
  BY <1>5, <1>6, <1>t

\* Openings: an import of what nobody has touched since it was read gives
\* every scheduled door one opening and no door a second, and the unique door
\* number turns an import down only once an opening was renamed, deleted or
\* changed under an import (pass_files.py:27-36, door_schedule.py:161-225).
THEOREM DoorsMeet == O!Spec => OneOpeningPerDoor
<1>1. OpeningsInv /\ [O!Next]_O!vars =>
        [\A p \in O!Passes : oPc[p] = "bulk" /\ oPc'[p] # "bulk" =>
           /\ oPc'[p] = "failed" => oShaken
           /\ oPc'[p] = "landed" /\ bulk[p].alone =>
                \A m \in Marks :
                  O!Cardinality(O!Of(rows, m)) =
                    IF O!Cardinality(O!Of(seen[p], m)) < sched[p].count[m]
                    THEN sched[p].count[m] ELSE O!Cardinality(O!Of(seen[p], m))]_O!vars
  <2> SUFFICES ASSUME OpeningsInv, O!Next, NEW p \in O!Passes, oPc[p] = "bulk", oPc'[p] # "bulk"
               PROVE  /\ oPc'[p] = "failed" => oShaken
                      /\ oPc'[p] = "landed" /\ bulk[p].alone =>
                           \A m \in Marks :
                             O!Cardinality(O!Of(rows, m)) =
                               IF O!Cardinality(O!Of(seen[p], m)) < sched[p].count[m]
                               THEN sched[p].count[m] ELSE O!Cardinality(O!Of(seen[p], m))
    OBVIOUS
  <2>1. O!apply_bulk(p) /\ oPc'[p] = IF bulk[p].refused THEN "failed" ELSE "landed"
    BY EndOfImport
  <2>2. oPc'[p] = "failed" => bulk[p].refused
    BY <2>1
  <2>3. bulk[p].refused => oShaken
    BY DEF OpeningsInv, Numbered
  <2>4. oPc'[p] = "landed" => ~bulk[p].refused
    BY <2>1
  <2> QED
    BY <2>1, <2>2, <2>3, <2>4, CountsMeet, OpeningsCount DEF Count
<1> QED
  BY <1>1, OpeningsInit, OpeningsStep, PTL DEF O!Spec, OneOpeningPerDoor, O!OneOpeningPerDoor

-----------------------------------------------------------------------------
(* Takeoff.                                                                *)

Honest(row) == row.page = "whole" /\ K!BoxOf(row) # "none" => K!BoxOf(row) = "real"

\* While a run works on the document, what a person settled in it is in the
\* database.
DocumentSound(f) ==
  \A i \in DOMAIN f.rows :
    kPc # "idle" /\ f.rows[i].by = "person" => K!Carries(db, f.rows[i])

ReadRows == K!_normalize_schedule_payload(kFile)

TakeoffInv ==
  /\ K!TakeoffTypeOK
  /\ runs \in Nat /\ acts \in 0 .. MaxActs /\ kSheet.parsed \in Seq(Marks)
  /\ \A i \in DOMAIN db : Honest(db[i])
  /\ DocumentSound(kFile) /\ DocumentSound(clone)
  /\ runs = 0 => kPc = "idle" /\ kFile = K!NoFile
  /\ kPc \notin {"pass", "promote"} => clone = K!NoFile
  /\ kPc = "import" => \A i \in DOMAIN ReadRows : Honest(ReadRows[i])

LEMMA TakeoffCount == \A S : K!Cardinality(S) = Cardinality(S)
BY DEF K!Cardinality, Cardinality

\* Measuring changes where an opening is said to sit, and nothing else.
LEMMA MeasuredRow ==
  ASSUME NEW row \in K!Row, NEW page
  PROVE  /\ K!Measured(row, page) \in K!Row
         /\ K!Measured(row, page).mark = row.mark /\ K!Measured(row, page).by = row.by
         /\ K!Measured(row, page).id = row.id /\ K!Measured(row, page).hand = row.hand
<1> DEFINE boxed(b) == [row EXCEPT !.box = b]
<1>1. \A b \in K!Boxes : /\ boxed(b) \in K!Row /\ boxed(b).mark = row.mark
                         /\ boxed(b).by = row.by /\ boxed(b).id = row.id
                         /\ boxed(b).hand = row.hand
  BY DEF K!Row
<1>2. K!Measured(row, page) = row \/ \E b \in K!Boxes : K!Measured(row, page) = boxed(b)
  BY DEF K!Measured, K!Boxes
<1> HIDE DEF boxed
<1> QED
  BY <1>1, <1>2

LEMMA RowRead ==
  ASSUME NEW m \in Marks \cup {K!NoMark}
  PROVE  K!Read(m) \in K!Row /\ K!Read(m).by # "person"
<1>1. K!Read(m) \in K!Row
  BY TakeoffAssumption DEF K!Read, K!Row, K!Boxes
<1> QED
  BY <1>1 DEF K!Read

LEMMA RowAdded ==
  ASSUME NEW m \in Marks \cup {K!NoMark}, NEW n \in 0 .. MaxActs
  PROVE  K!Added(m, n) \in K!Row /\ Honest(K!Added(m, n))
<1> DEFINE r == K!Read(m)
           a == [r EXCEPT !.by = "person", !.id = n, !.hand = TRUE,
                          !.box = "none", !.rowBox = "none", !.page = "broken"]
<1>1. r \in K!Row
  BY RowRead
<1>2. K!Added(m, n) = a
  BY DEF K!Added
<1> HIDE DEF r
<1>3. a \in K!Row /\ a.page = "broken"
  BY <1>1 DEF K!Row, K!Boxes
<1> QED
  BY <1>2, <1>3 DEF Honest

\* The positions of a set, in their order, are its elements.
LEMMA SortedAll ==
  ASSUME NEW S \in SUBSET Nat, IsFiniteSet(S)
  PROVE  /\ \A n \in 1 .. Cardinality(S) : K!Sorted(S)[n] \in S
         /\ \A i \in S : \E n \in 1 .. Cardinality(S) : K!Sorted(S)[n] = i
<1>1. ASSUME NEW n \in 1 .. Cardinality(S)
      PROVE  K!Sorted(S)[n] \in S /\ Rank(S, K!Sorted(S)[n]) = n
  <2>1. K!Sorted(S)[n] = CHOOSE i \in S : K!Cardinality({j \in S : j <= i}) = n
    BY TakeoffCount DEF K!Sorted
  <2>2. \E i \in S : Rank(S, i) = n
    BY Ranks
  <2>3. \E i \in S : K!Cardinality({j \in S : j <= i}) = n
    BY <2>2, TakeoffCount DEF Rank
  <2> QED
    BY <2>1, <2>3, TakeoffCount DEF Rank
<1>2. ASSUME NEW i \in S PROVE \E n \in 1 .. Cardinality(S) : K!Sorted(S)[n] = i
  <2>1. Rank(S, i) \in 1 .. Cardinality(S)
    BY Ranks
  <2>2. K!Sorted(S)[Rank(S, i)] \in S /\ Rank(S, K!Sorted(S)[Rank(S, i)]) = Rank(S, i)
    BY <1>1, <2>1
  <2>3. \A k, l \in S : Rank(S, k) = Rank(S, l) => k = l
    BY Ranks
  <2> QED
    BY <2>1, <2>2, <2>3
<1> QED
  BY <1>1, <1>2

LEMMA Positions ==
  ASSUME NEW s, NEW T0, s \in Seq(T0), NEW S \in SUBSET DOMAIN s
  PROVE  S \in SUBSET Nat /\ IsFiniteSet(S) /\ Cardinality(S) \in Nat
<1>1. Len(s) \in Nat /\ DOMAIN s = 1 .. Len(s)
  OBVIOUS
<1>2. IsFiniteSet(1 .. Len(s))
  BY <1>1, FS_Interval
<1> QED
  BY <1>1, <1>2, FS_Subset, FS_CardinalityType

\* An opening as the document has it, and a decision with its evidence.
Refreshed(d, row) == [d EXCEPT !.box = row.box, !.rowBox = row.rowBox, !.page = row.page]

LEMMA RowImported ==
  ASSUME NEW row \in K!Row, Honest(row)
  PROVE  /\ K!AsRead(row) \in K!Row /\ Honest(K!AsRead(row))
         /\ \A d \in K!Row : d.mark = row.mark =>
              Refreshed(d, row) \in K!Row /\ Honest(Refreshed(d, row))
<1> DEFINE a == [row EXCEPT !.by = "pass", !.id = 0, !.hand = FALSE]
<1>0. 0 \in 0 .. MaxActs
  BY TakeoffAssumption
<1>1. a \in K!Row /\ a.mark = row.mark /\ a.box = row.box /\ a.rowBox = row.rowBox /\ a.page = row.page
  BY <1>0 DEF K!Row
<1>2. K!AsRead(row) = a
  BY DEF K!AsRead
<1> HIDE DEF a
<1>3. Honest(a)
  BY <1>1 DEF Honest, K!BoxOf
<1>4. ASSUME NEW d \in K!Row, d.mark = row.mark
      PROVE  Refreshed(d, row) \in K!Row /\ Honest(Refreshed(d, row))
  <2>1. /\ Refreshed(d, row) \in K!Row /\ Refreshed(d, row).mark = row.mark
        /\ Refreshed(d, row).box = row.box /\ Refreshed(d, row).rowBox = row.rowBox
        /\ Refreshed(d, row).page = row.page
    BY <1>4 DEF Refreshed, K!Row
  <2> QED
    BY <2>1 DEF Honest, K!BoxOf
<1> QED
  BY <1>1, <1>2, <1>3, <1>4

SaidByHand(m, box) == [K!Written(m, "none", box, "whole") EXCEPT !.hand = TRUE]

\* What Claude adds to the document is nobody's.
LEMMA RowWrittenByPass ==
  ASSUME NEW m \in Marks, NEW box \in K!Boxes, NEW rowBox \in K!Boxes,
         NEW page \in {"whole", "broken", "unfiled"}
  PROVE  /\ K!Written(m, box, rowBox, page) \in K!Row
         /\ K!Written(m, box, rowBox, page).by = "pass"
         /\ SaidByHand(m, rowBox) \in K!Row /\ SaidByHand(m, rowBox).by = "pass"
<1> DEFINE r == K!Read(m)
           w(b, rb, p) == [r EXCEPT !.by = "pass", !.box = b, !.rowBox = rb, !.page = p]
           h == [w("none", rowBox, "whole") EXCEPT !.hand = TRUE]
<1>1. r \in K!Row
  BY RowRead
<1>2. /\ K!Written(m, box, rowBox, page) = w(box, rowBox, page)
      /\ K!Written(m, "none", rowBox, "whole") = w("none", rowBox, "whole")
  BY DEF K!Written
<1> HIDE DEF r
<1>3. w(box, rowBox, page) \in K!Row /\ w(box, rowBox, page).by = "pass"
  BY <1>1 DEF K!Row
<1>4. "none" \in K!Boxes
  BY DEF K!Boxes
<1>5. h \in K!Row /\ h.by = "pass"
  BY <1>1, <1>4 DEF K!Row
<1> HIDE DEF w
<1>6. SaidByHand(m, rowBox) = h
  BY <1>2 DEF SaidByHand
<1> HIDE DEF h
<1> QED
  BY <1>2, <1>3, <1>5, <1>6

\* A document's rows all of a kind.
LEMMA DocumentRows ==
  ASSUME NEW s \in Seq(K!Row)
  PROVE  /\ Len(s) \in Nat /\ DOMAIN s = 1 .. Len(s)
         /\ \A i \in DOMAIN s : s[i] \in K!Row
BY ElementOfSeq

LEMMA Chosen ==
  ASSUME NEW n \in Nat, NEW e, e \in [1 .. n -> K!Row]
  PROVE  e \in Seq(K!Row) /\ Len(e) = n /\ DOMAIN e = 1 .. n
OBVIOUS

LEMMA Concatenated ==
  ASSUME NEW s \in Seq(K!Row), NEW t \in Seq(K!Row)
  PROVE  /\ s \o t \in Seq(K!Row)
         /\ \A i \in DOMAIN (s \o t) : \/ \E j \in DOMAIN s : (s \o t)[i] = s[j]
                                       \/ \E j \in DOMAIN t : (s \o t)[i] = t[j]
         /\ \A j \in DOMAIN s : \E i \in DOMAIN (s \o t) : (s \o t)[i] = s[j]
         /\ \A j \in DOMAIN t : \E i \in DOMAIN (s \o t) : (s \o t)[i] = t[j]
<1>1. /\ s \o t \in Seq(K!Row) /\ Len(s \o t) = Len(s) + Len(t)
      /\ \A i \in 1 .. Len(s) + Len(t) : (s \o t)[i] = IF i <= Len(s) THEN s[i] ELSE t[i - Len(s)]
  BY ConcatProperties
<1>2. /\ Len(s) \in Nat /\ Len(t) \in Nat /\ DOMAIN s = 1 .. Len(s) /\ DOMAIN t = 1 .. Len(t)
      /\ DOMAIN (s \o t) = 1 .. Len(s) + Len(t)
  BY <1>1, DocumentRows
<1>3. ASSUME NEW i \in DOMAIN (s \o t)
      PROVE  \/ \E j \in DOMAIN s : (s \o t)[i] = s[j]
             \/ \E j \in DOMAIN t : (s \o t)[i] = t[j]
  <2>1. CASE i <= Len(s)
    BY <1>1, <1>2, <2>1
  <2>2. CASE ~(i <= Len(s))
    <3>1. i - Len(s) \in DOMAIN t /\ (s \o t)[i] = t[i - Len(s)]
      BY <1>1, <1>2, <2>2
    <3> QED
      BY <3>1
  <2> QED
    BY <2>1, <2>2
<1>4. ASSUME NEW j \in DOMAIN s PROVE \E i \in DOMAIN (s \o t) : (s \o t)[i] = s[j]
  BY <1>1, <1>2
<1>5. ASSUME NEW j \in DOMAIN t PROVE \E i \in DOMAIN (s \o t) : (s \o t)[i] = t[j]
  <2>1. /\ Len(s) + j \in DOMAIN (s \o t) /\ ~(Len(s) + j <= Len(s)) /\ (Len(s) + j) - Len(s) = j
    BY <1>2
  <2>2. (s \o t)[Len(s) + j] = t[j]
    BY <1>1, <1>2, <2>1
  <2> QED
    BY <2>1, <2>2
<1> QED
  BY <1>1, <1>3, <1>4, <1>5

\* The parts a reseed is made of: the decisions that count for their mark, the
\* parsed rows or what they give way to, and the decisions no parsed row has.
Prior(existing) ==
  {i \in DOMAIN existing :
     existing[i].mark # K!NoMark
     /\ \A j \in DOMAIN existing : j > i => existing[j].mark # existing[i].mark}
Decided(existing) == {i \in Prior(existing) : K!_is_a_decision(existing[i])}
SettledBy(existing, m) == {i \in Decided(existing) : existing[i].mark = m}
Front(parsed, existing) ==
  [n \in 1 .. Len(parsed) |->
     IF SettledBy(existing, parsed[n]) # {}
     THEN existing[CHOOSE i \in SettledBy(existing, parsed[n]) : TRUE] ELSE K!Read(parsed[n])]
Unseen(parsed, existing) ==
  {i \in Decided(existing) : \A n \in 1 .. Len(parsed) : parsed[n] # existing[i].mark}
Back(parsed, existing) ==
  [n \in 1 .. Cardinality(Unseen(parsed, existing)) |->
     existing[K!Sorted(Unseen(parsed, existing))[n]]]

LEMMA MergeParts ==
  ASSUME NEW parsed, NEW existing
  PROVE  K!_merge(parsed, existing) = Front(parsed, existing) \o Back(parsed, existing)
BY TakeoffCount
   DEF K!_merge, Front, Back, Unseen, SettledBy, Decided, Prior

\* A reseed consists of rows read off the sheet and rows there were, and has
\* every decision with a number of its own.
LEMMA Merged ==
  ASSUME NEW parsed \in Seq(Marks), NEW existing \in Seq(K!Row),
         NEW result, result = K!_merge(parsed, existing)
  PROVE  /\ result \in Seq(K!Row)
         /\ \A i \in DOMAIN result :
              \/ \E m \in Marks : result[i] = K!Read(m)
              \/ \E j \in DOMAIN existing : result[i] = existing[j]
         /\ \A j \in DOMAIN existing :
              K!_is_a_decision(existing[j]) /\ K!Numbered(existing, j) =>
                \E i \in DOMAIN result : result[i] = existing[j]
<1> DEFINE front == Front(parsed, existing)
           back  == Back(parsed, existing)
           S     == Unseen(parsed, existing)
<1>1. Len(parsed) \in Nat /\ \A n \in 1 .. Len(parsed) : parsed[n] \in Marks
  BY ElementOfSeq
<1>2. /\ DOMAIN existing \in SUBSET Nat /\ \A i \in DOMAIN existing : existing[i] \in K!Row
  BY DocumentRows
<1>3. ASSUME NEW n \in 1 .. Len(parsed)
      PROVE  /\ front[n] = IF SettledBy(existing, parsed[n]) # {}
                           THEN existing[CHOOSE i \in SettledBy(existing, parsed[n]) : TRUE]
                           ELSE K!Read(parsed[n])
             /\ \/ \E j \in DOMAIN existing : front[n] = existing[j]
                \/ \E m \in Marks : front[n] = K!Read(m)
  <2>1. front[n] = IF SettledBy(existing, parsed[n]) # {}
                   THEN existing[CHOOSE i \in SettledBy(existing, parsed[n]) : TRUE]
                   ELSE K!Read(parsed[n])
    BY DEF Front
  <2>2. SettledBy(existing, parsed[n]) \in SUBSET DOMAIN existing
    BY DEF SettledBy, Decided, Prior
  <2>3. CASE SettledBy(existing, parsed[n]) # {}
    <3>1. (CHOOSE i \in SettledBy(existing, parsed[n]) : TRUE) \in SettledBy(existing, parsed[n])
      BY <2>3
    <3> QED
      BY <2>1, <2>2, <2>3, <3>1
  <2>4. CASE SettledBy(existing, parsed[n]) = {}
    BY <1>1, <2>1, <2>4
  <2> QED
    BY <2>1, <2>3, <2>4
<1>4. front \in [1 .. Len(parsed) -> K!Row]
  <2>1. DOMAIN front = 1 .. Len(parsed) /\ front = [n \in DOMAIN front |-> front[n]]
    BY DEF Front
  <2>2. \A n \in 1 .. Len(parsed) : front[n] \in K!Row
    BY <1>2, <1>3, RowRead
  <2> QED
    BY <2>1, <2>2
<1>5. S \in SUBSET DOMAIN existing
  BY DEF Unseen, Decided, Prior
<1>6. S \in SUBSET Nat /\ IsFiniteSet(S) /\ Cardinality(S) \in Nat
  BY <1>5, Positions
<1>7. /\ \A n \in 1 .. Cardinality(S) : K!Sorted(S)[n] \in S
      /\ \A i \in S : \E n \in 1 .. Cardinality(S) : K!Sorted(S)[n] = i
  BY <1>6, SortedAll
<1>8. /\ DOMAIN back = 1 .. Cardinality(S) /\ back = [n \in DOMAIN back |-> back[n]]
      /\ \A n \in 1 .. Cardinality(S) : back[n] = existing[K!Sorted(S)[n]]
  BY DEF Back
<1> HIDE DEF front, back, S
<1>9. back \in [1 .. Cardinality(S) -> K!Row]
  BY <1>2, <1>5, <1>7, <1>8
<1>10. /\ front \in Seq(K!Row) /\ DOMAIN front = 1 .. Len(parsed)
       /\ back \in Seq(K!Row) /\ DOMAIN back = 1 .. Cardinality(S)
  BY <1>1, <1>4, <1>6, <1>9, Chosen
<1>11. result = front \o back
  BY MergeParts DEF front, back
<1>12. /\ result \in Seq(K!Row)
       /\ \A i \in DOMAIN result : \/ \E j \in DOMAIN front : result[i] = front[j]
                                   \/ \E j \in DOMAIN back : result[i] = back[j]
       /\ \A j \in DOMAIN front : \E i \in DOMAIN result : result[i] = front[j]
       /\ \A j \in DOMAIN back : \E i \in DOMAIN result : result[i] = back[j]
  <2> DEFINE both == front \o back
  <2>1. /\ both \in Seq(K!Row)
        /\ \A i \in DOMAIN both : \/ \E j \in DOMAIN front : both[i] = front[j]
                                  \/ \E j \in DOMAIN back : both[i] = back[j]
        /\ \A j \in DOMAIN front : \E i \in DOMAIN both : both[i] = front[j]
        /\ \A j \in DOMAIN back : \E i \in DOMAIN both : both[i] = back[j]
    BY <1>10, Concatenated
  <2> HIDE DEF both
  <2>2. result = both
    BY <1>11 DEF both
  <2> QED
    BY <2>1, <2>2
<1>13. ASSUME NEW i \in DOMAIN result
       PROVE  \/ \E m \in Marks : result[i] = K!Read(m)
              \/ \E j \in DOMAIN existing : result[i] = existing[j]
  <2>1. CASE \E j \in DOMAIN front : result[i] = front[j]
    BY <1>3, <1>10, <2>1
  <2>2. CASE \E j \in DOMAIN back : result[i] = back[j]
    BY <1>5, <1>7, <1>8, <1>10, <2>2
  <2> QED
    BY <1>12, <2>1, <2>2
<1>14. ASSUME NEW j \in DOMAIN existing, K!_is_a_decision(existing[j]), K!Numbered(existing, j)
       PROVE  \E i \in DOMAIN result : result[i] = existing[j]
  <2>1. /\ existing[j].mark # K!NoMark
        /\ \A l \in DOMAIN existing : l # j => existing[l].mark # existing[j].mark
    BY <1>14 DEF K!Numbered
  <2>2. j \in Decided(existing)
    <3>1. \A l \in DOMAIN existing : l > j => l # j
      BY <1>2
    <3> QED
      BY <1>14, <2>1, <3>1 DEF Decided, Prior
  <2>3. SettledBy(existing, existing[j].mark) = {j}
    BY <2>1, <2>2 DEF SettledBy, Decided, Prior
  <2>4. CASE \E n \in 1 .. Len(parsed) : parsed[n] = existing[j].mark
    <3>1. PICK n \in 1 .. Len(parsed) : parsed[n] = existing[j].mark
      BY <2>4
    <3>2. SettledBy(existing, parsed[n]) = {j}
      BY <2>3, <3>1
    <3>3. (CHOOSE i \in SettledBy(existing, parsed[n]) : TRUE) = j
      BY <3>2
    <3>4. front[n] = existing[j]
      BY <1>3, <3>2, <3>3
    <3> QED
      BY <1>10, <1>12, <3>4, SMTT(30)
  <2>5. CASE ~\E n \in 1 .. Len(parsed) : parsed[n] = existing[j].mark
    <3>1. j \in S
      BY <2>2, <2>5 DEF S, Unseen
    <3>2. PICK n \in 1 .. Cardinality(S) : K!Sorted(S)[n] = j
      BY <1>7, <3>1
    <3>3. back[n] = existing[j]
      BY <1>8, <3>2, SMTT(30)
    <3> QED
      BY <1>10, <1>12, <3>3
  <2> QED
    BY <2>4, <2>5
<1> QED
  BY <1>12, <1>13, <1>14

\* The parts of an import: what each opening becomes, and the rows of none.
HitBy(rs, k) == {i \in DOMAIN rs : K!Key(rs, i) = K!Key(db, k)}
Become(rs, k) ==
  IF HitBy(rs, k) = {} THEN db[k]
  ELSE IF K!_is_a_decision(db[k]) THEN Refreshed(db[k], rs[CHOOSE i \in HitBy(rs, k) : TRUE])
       ELSE K!AsRead(rs[CHOOSE i \in HitBy(rs, k) : TRUE])
NewRows(rs) == {i \in DOMAIN rs : \A k \in DOMAIN db : K!Key(rs, i) # K!Key(db, k)}
Updates(rs) == [k \in DOMAIN db |-> Become(rs, k)]
Additions(rs) ==
  [n \in 1 .. Cardinality(NewRows(rs)) |-> K!AsRead(rs[K!Sorted(NewRows(rs))[n]])]

LEMMA ImportParts ==
  ASSUME NEW rs
  PROVE  K!Imported(rs) = Updates(rs) \o Additions(rs)
BY TakeoffCount DEF K!Imported, Updates, Additions, NewRows, Become, HitBy, Refreshed

LEMMA SameKey ==
  ASSUME NEW rs, NEW i, NEW k, K!Key(rs, i) = K!Key(db, k)
  PROVE  rs[i].mark = db[k].mark
BY DEF K!Key

LEMMA ImportHonest ==
  ASSUME NEW rs \in Seq(K!Row), \A i \in DOMAIN rs : Honest(rs[i]),
         db \in Seq(K!Row), \A i \in DOMAIN db : Honest(db[i]),
         NEW result, result = K!Imported(rs)
  PROVE  result \in Seq(K!Row) /\ \A i \in DOMAIN result : Honest(result[i])
<1> DEFINE ups == Updates(rs)
           adds == Additions(rs)
           S == NewRows(rs)
<1>1. /\ Len(db) \in Nat /\ DOMAIN db = 1 .. Len(db) /\ \A k \in DOMAIN db : db[k] \in K!Row
      /\ DOMAIN rs \in SUBSET Nat /\ \A i \in DOMAIN rs : rs[i] \in K!Row
  BY DocumentRows
<1>2. ASSUME NEW k \in DOMAIN db PROVE ups[k] \in K!Row /\ Honest(ups[k])
  <2>1. ups[k] = Become(rs, k)
    BY DEF Updates
  <2>2. CASE HitBy(rs, k) = {}
    BY <1>1, <2>1, <2>2 DEF Become
  <2>3. CASE HitBy(rs, k) # {}
    <3> DEFINE i == CHOOSE i \in HitBy(rs, k) : TRUE
    <3>1. i \in HitBy(rs, k)
      BY <2>3
    <3>2. ups[k] = IF K!_is_a_decision(db[k]) THEN Refreshed(db[k], rs[i]) ELSE K!AsRead(rs[i])
      BY <2>1, <2>3 DEF Become
    <3> HIDE DEF i
    <3>3. i \in DOMAIN rs /\ rs[i] \in K!Row /\ Honest(rs[i]) /\ db[k].mark = rs[i].mark
      BY <1>1, <3>1, SameKey DEF HitBy
    <3>4. /\ K!AsRead(rs[i]) \in K!Row /\ Honest(K!AsRead(rs[i]))
          /\ Refreshed(db[k], rs[i]) \in K!Row /\ Honest(Refreshed(db[k], rs[i]))
      BY <1>1, <3>3, RowImported
    <3> QED
      BY <3>2, <3>4
  <2> QED
    BY <2>2, <2>3
<1>3. S \in SUBSET DOMAIN rs
  BY DEF NewRows
<1>4. S \in SUBSET Nat /\ IsFiniteSet(S) /\ Cardinality(S) \in Nat
  BY <1>3, Positions
<1>5. \A n \in 1 .. Cardinality(S) : K!Sorted(S)[n] \in S
  BY <1>4, SortedAll
<1>6. /\ DOMAIN adds = 1 .. Cardinality(S) /\ adds = [n \in DOMAIN adds |-> adds[n]]
      /\ \A n \in 1 .. Cardinality(S) : adds[n] = K!AsRead(rs[K!Sorted(S)[n]])
      /\ DOMAIN ups = DOMAIN db /\ ups = [k \in DOMAIN ups |-> ups[k]]
  BY DEF Additions, Updates
<1> HIDE DEF ups, adds, S
<1>7. ASSUME NEW n \in 1 .. Cardinality(S) PROVE adds[n] \in K!Row /\ Honest(adds[n])
  <2>1. K!Sorted(S)[n] \in DOMAIN rs
    BY <1>3, <1>5
  <2> QED
    BY <1>1, <1>6, <2>1, RowImported
<1>8. /\ ups \in Seq(K!Row) /\ DOMAIN ups = DOMAIN db
      /\ adds \in Seq(K!Row) /\ DOMAIN adds = 1 .. Cardinality(S)
  <2>1. ups \in [1 .. Len(db) -> K!Row]
    BY <1>1, <1>2, <1>6
  <2>2. adds \in [1 .. Cardinality(S) -> K!Row]
    BY <1>6, <1>7
  <2> QED
    BY <1>1, <1>4, <2>1, <2>2, Chosen
<1> DEFINE both == ups \o adds
<1>9. /\ both \in Seq(K!Row)
      /\ \A i \in DOMAIN both : \/ \E j \in DOMAIN ups : both[i] = ups[j]
                                \/ \E j \in DOMAIN adds : both[i] = adds[j]
  BY <1>8, Concatenated
<1>10. result = both
  BY ImportParts DEF ups, adds
<1> HIDE DEF both
<1> QED
  BY <1>2, <1>7, <1>8, <1>9, <1>10

\* What Claude makes of a document adds nothing a person settled.
LEMMA EditsSound ==
  ASSUME NEW rs \in Seq(K!Row), NEW new \in K!Edits(rs)
  PROVE  /\ new \in Seq(K!Row)
         /\ \A i \in DOMAIN new :
              (\E j \in DOMAIN rs : new[i] = rs[j]) \/ new[i].by # "person"
<1>1. \/ new = rs \/ new = <<>>
      \/ \E m \in Marks, said \in K!Sightings :
           new = Append(rs, K!Written(m, said[1], said[2], said[3]))
      \/ \E m \in Marks, rowBox \in {"none", "invented"} :
           new = Append(rs, SaidByHand(m, rowBox))
  BY DEF K!Edits, SaidByHand
<1>2. ASSUME NEW row \in K!Row, row.by = "pass", new = Append(rs, row)
      PROVE  /\ new \in Seq(K!Row)
             /\ \A i \in DOMAIN new :
                  (\E j \in DOMAIN rs : new[i] = rs[j]) \/ new[i].by # "person"
  <2>1. /\ new \in Seq(K!Row) /\ Len(new) = Len(rs) + 1
        /\ \A i \in 1 .. Len(rs) : new[i] = rs[i]
        /\ new[Len(rs) + 1] = row
    BY <1>2, AppendProperties
  <2>2. Len(rs) \in Nat /\ DOMAIN rs = 1 .. Len(rs) /\ DOMAIN new = 1 .. Len(rs) + 1
    BY <2>1, DocumentRows
  <2>3. \A i \in 1 .. Len(rs) + 1 : i \in 1 .. Len(rs) \/ i = Len(rs) + 1
    BY <2>2
  <2> QED
    BY <1>2, <2>1, <2>2, <2>3
<1>3. ASSUME new = rs \/ new = <<>>
      PROVE  new \in Seq(K!Row) /\ \A i \in DOMAIN new : \E j \in DOMAIN rs : new[i] = rs[j]
  <2>1. CASE new = rs
    BY <2>1
  <2>2. CASE new = <<>>
    <3>1. new \in Seq(K!Row) /\ Len(new) = 0
      BY <2>2, EmptySeq
    <3>2. DOMAIN new = {}
      BY <3>1, DocumentRows
    <3> QED
      BY <3>1, <3>2
  <2> QED
    BY <1>3, <2>1, <2>2
<1>4. ASSUME NEW m \in Marks, NEW said \in K!Sightings
      PROVE  /\ K!Written(m, said[1], said[2], said[3]) \in K!Row
             /\ K!Written(m, said[1], said[2], said[3]).by = "pass"
  <2>1. /\ said[1] \in K!Boxes /\ said[2] \in K!Boxes
        /\ said[3] \in {"whole", "broken", "unfiled"}
    BY DEF K!Boxes, K!Sightings
  <2> QED
    BY <2>1, RowWrittenByPass
<1>5. ASSUME NEW m \in Marks, NEW rowBox \in {"none", "invented"}
      PROVE  SaidByHand(m, rowBox) \in K!Row /\ SaidByHand(m, rowBox).by = "pass"
  <2>1. rowBox \in K!Boxes /\ "whole" \in {"whole", "broken", "unfiled"}
    BY DEF K!Boxes
  <2> QED
    BY <2>1, RowWrittenByPass
<1> QED
  BY <1>1, <1>2, <1>3, <1>4, <1>5

LEMMA TakeoffInit == K!Init => TakeoffInv
<1> SUFFICES ASSUME K!Init PROVE TakeoffInv
  OBVIOUS
<1>1. PICK parsed \in Parses, flagged \in BOOLEAN :
        kSheet = [parsed |-> parsed, candidate |-> parsed # <<>> \/ flagged]
  BY DEF K!Init
<1>2. kSheet.parsed \in Seq(Marks)
  BY <1>1, TakeoffAssumption
<1>3. /\ kFile = K!NoFile /\ clone = K!NoFile /\ db = <<>> /\ kPc = "idle"
      /\ runs = 0 /\ acts = 0
  BY DEF K!Init
<1>4. /\ K!NoFile.shape = "absent" /\ K!NoFile.rows = <<>>
      /\ <<>> \in Seq(K!Row) /\ DOMAIN <<>> = {}
  BY DEF K!NoFile
<1>5. K!TakeoffTypeOK
  BY <1>3, <1>4 DEF K!TakeoffTypeOK, K!Document, K!NoFile
<1>6. DocumentSound(kFile) /\ DocumentSound(clone) /\ \A i \in DOMAIN db : Honest(db[i])
  BY <1>3, <1>4 DEF DocumentSound
<1> QED
  BY <1>2, <1>3, <1>5, <1>6, TakeoffAssumption DEF TakeoffInv

\* A document of rows of the database.
LEMMA WrittenDown ==
         /\ K!Exported.shape = "openings" /\ K!Exported.rows = db
         /\ K!_normalize_schedule_payload(K!Exported) = db
         /\ \A i \in DOMAIN db : K!Carries(db, db[i])
BY DEF K!Exported, K!Doc, K!_normalize_schedule_payload, K!Carries

LEMMA TakeoffStep == TakeoffInv /\ [K!Next]_K!vars => TakeoffInv'
<1> SUFFICES ASSUME TakeoffInv, [K!Next]_K!vars PROVE TakeoffInv'
  OBVIOUS
<1>t. /\ kFile \in K!Document /\ clone \in K!Document
      /\ kFile.rows \in Seq(K!Row) /\ clone.rows \in Seq(K!Row)
      /\ db \in Seq(K!Row)
      /\ kPc \in {"idle", "seed", "clone", "pass", "promote", "measure", "gate", "import"}
      /\ runs \in Nat /\ acts \in 0 .. MaxActs /\ kSheet.parsed \in Seq(Marks)
  BY DEF TakeoffInv, K!TakeoffTypeOK, K!Document
<1>r. /\ \A i \in DOMAIN kFile.rows : kFile.rows[i] \in K!Row
      /\ \A i \in DOMAIN clone.rows : clone.rows[i] \in K!Row
      /\ \A i \in DOMAIN db : db[i] \in K!Row
  BY <1>t, DocumentRows
<1>d. /\ \A i \in DOMAIN db : Honest(db[i])
      /\ DocumentSound(kFile) /\ DocumentSound(clone)
      /\ runs = 0 => kPc = "idle" /\ kFile = K!NoFile
      /\ kPc \notin {"pass", "promote"} => clone = K!NoFile
      /\ kPc = "import" => \A i \in DOMAIN ReadRows : Honest(ReadRows[i])
  BY DEF TakeoffInv
<1>n. K!NoFile.rows = <<>> /\ DOMAIN <<>> = {} /\ K!NoFile \in K!Document
  BY DEF K!NoFile, K!Document
<1>w. /\ K!Exported.shape = "openings" /\ K!Exported.rows = db
      /\ K!_normalize_schedule_payload(K!Exported) = db
      /\ \A i \in DOMAIN db : K!Carries(db, db[i])
  BY WrittenDown
<1>1. ASSUME K!Extract PROVE TakeoffInv'
  <2>1. /\ kPc = "idle" /\ runs = 0 /\ runs' = 1 /\ kPc' = "seed"
        /\ kSheet' = kSheet /\ kFile' = kFile /\ clone' = clone /\ db' = db /\ acts' = acts
    BY <1>1 DEF K!Extract
  <2>2. kFile = K!NoFile /\ clone = K!NoFile
    BY <1>d, <2>1
  <2>3. DocumentSound(kFile)' /\ DocumentSound(clone)'
    BY <1>n, <2>1, <2>2 DEF DocumentSound
  <2> QED
    BY <1>t, <1>d, <2>1, <2>2, <2>3 DEF TakeoffInv, K!TakeoffTypeOK
<1>2. ASSUME K!seed_door_schedule PROVE TakeoffInv'
  <2>1. /\ kPc = "seed" /\ kPc' = "clone" /\ kSheet' = kSheet /\ clone' = clone /\ db' = db
        /\ runs' = runs /\ acts' = acts
        /\ \/ kFile' = kFile
           \/ kFile' = K!Doc(K!_merge(kSheet.parsed, K!GateRows(kFile)))
    BY <1>2 DEF K!seed_door_schedule
  <2>2. clone = K!NoFile /\ DocumentSound(clone)' /\ runs # 0
    BY <1>d, <1>n, <2>1 DEF DocumentSound
  <2>3. kFile' \in K!Document /\ DocumentSound(kFile)'
    <3>1. CASE kFile' = kFile
      BY <1>t, <1>d, <2>1, <3>1 DEF DocumentSound
    <3>2. CASE kFile' = K!Doc(K!_merge(kSheet.parsed, K!GateRows(kFile)))
      <4> DEFINE parsed == kSheet.parsed
                 existing == kFile.rows
                 result == K!_merge(parsed, existing)
      <4>1. K!GateRows(kFile) = existing
        BY DEF K!GateRows
      <4>2. parsed \in Seq(Marks) /\ existing \in Seq(K!Row)
        BY <1>t
      <4>3. kFile' = [shape |-> "openings", rows |-> result] /\ kFile'.rows = result
        BY <3>2, <4>1 DEF K!Doc
      <4> HIDE DEF parsed, existing
      <4>5. /\ result \in Seq(K!Row)
            /\ \A i \in DOMAIN result :
                 \/ \E m \in Marks : result[i] = K!Read(m)
                 \/ \E j \in DOMAIN existing : result[i] = existing[j]
        BY <4>2, Merged
      <4> HIDE DEF result
      <4>4. ASSUME NEW i \in DOMAIN result
            PROVE  result[i].by = "person" => K!Carries(db, result[i])
        <5>1. CASE \E m \in Marks : result[i] = K!Read(m)
          BY <5>1, RowRead
        <5>2. CASE \E j \in DOMAIN existing : result[i] = existing[j]
          BY <1>d, <2>1, <5>2 DEF DocumentSound, existing
        <5> QED
          BY <4>5, <5>1, <5>2
      <4> QED
        BY <2>1, <4>3, <4>4, <4>5 DEF DocumentSound, K!Shapes, K!Document
    <3> QED
      BY <2>1, <3>1, <3>2
  <2> QED
    BY <1>t, <1>d, <2>1, <2>2, <2>3 DEF TakeoffInv, K!TakeoffTypeOK
<1>3. ASSUME K!Clones PROVE TakeoffInv'
  <2>1. /\ kPc = "clone" /\ kPc' = "pass" /\ kSheet' = kSheet /\ clone' = kFile /\ db' = db
        /\ runs' = runs /\ acts' = acts /\ kFile' = kFile
    BY <1>3 DEF K!Clones
  <2>2. DocumentSound(kFile)' /\ DocumentSound(clone)' /\ runs # 0
    BY <1>d, <2>1 DEF DocumentSound
  <2> QED
    BY <1>t, <1>d, <2>1, <2>2 DEF TakeoffInv, K!TakeoffTypeOK
<1>4. ASSUME K!Pass PROVE TakeoffInv'
  <2>1. /\ kPc = "pass" /\ kPc' = "promote" /\ kSheet' = kSheet /\ db' = db
        /\ runs' = runs /\ acts' = acts /\ kFile' = kFile
        /\ \/ clone' = clone
           \/ \E shape \in K!Shapes, new \in K!Edits(clone.rows) :
                clone' = [shape |-> shape, rows |-> new]
    BY <1>4 DEF K!Pass, K!GateRows
  <2>2. DocumentSound(kFile)' /\ runs # 0
    BY <1>d, <2>1 DEF DocumentSound
  <2>3. clone' \in K!Document /\ DocumentSound(clone)'
    <3>1. CASE clone' = clone
      BY <1>t, <1>d, <2>1, <3>1 DEF DocumentSound
    <3>2. ASSUME NEW shape \in K!Shapes, NEW new \in K!Edits(clone.rows),
                 clone' = [shape |-> shape, rows |-> new]
          PROVE  clone' \in K!Document /\ DocumentSound(clone)'
      <4>1. clone'.shape = shape /\ clone'.rows = new
        BY <3>2
      <4>2. /\ new \in Seq(K!Row)
            /\ \A i \in DOMAIN new : \/ \E j \in DOMAIN clone.rows : new[i] = clone.rows[j]
                                     \/ new[i].by # "person"
        BY <1>t, EditsSound
      <4>3. \A i \in DOMAIN new : new[i].by = "person" => K!Carries(db, new[i])
        BY <1>d, <2>1, <4>2 DEF DocumentSound
      <4> QED
        BY <2>1, <3>2, <4>1, <4>2, <4>3 DEF DocumentSound, K!Document
    <3> QED
      BY <2>1, <3>1, <3>2
  <2> QED
    BY <1>t, <1>d, <2>1, <2>2, <2>3 DEF TakeoffInv, K!TakeoffTypeOK
<1>5. ASSUME K!Promotes PROVE TakeoffInv'
  <2>1. /\ kPc = "promote" /\ kPc' = "measure" /\ kSheet' = kSheet /\ db' = db
        /\ runs' = runs /\ acts' = acts /\ clone' = K!NoFile
        /\ kFile' = kFile \/ kFile' = clone
    BY <1>5 DEF K!Promotes
  <2>2. DocumentSound(kFile)' /\ DocumentSound(clone)' /\ runs # 0
    BY <1>d, <1>n, <2>1 DEF DocumentSound
  <2> QED
    BY <1>t, <1>d, <1>n, <2>1, <2>2 DEF TakeoffInv, K!TakeoffTypeOK
<1>6. ASSUME K!measure_bboxes PROVE TakeoffInv'
  <2> DEFINE On(page, i) == IF page = "own" THEN kFile.rows[i].page ELSE page
             new(page) == [i \in DOMAIN kFile.rows |-> K!Measured(kFile.rows[i], On(page, i))]
  <2>1. /\ kPc = "measure" /\ kPc' = "gate" /\ kSheet' = kSheet /\ db' = db
        /\ runs' = runs /\ acts' = acts /\ clone' = clone
        /\ \/ kFile' = kFile
           \/ \E page \in {"own"} \cup K!Cited(kFile.rows) : kFile' = [kFile EXCEPT !.rows = new(page)]
    BY <1>6 DEF K!measure_bboxes
  <2>2. clone = K!NoFile /\ DocumentSound(clone)' /\ runs # 0
    BY <1>d, <1>n, <2>1 DEF DocumentSound
  <2>3. CASE kFile' = kFile
    <3>1. DocumentSound(kFile)'
      BY <1>d, <2>1, <2>3 DEF DocumentSound
    <3> QED
      BY <1>t, <1>d, <1>n, <2>1, <2>2, <2>3, <3>1 DEF TakeoffInv, K!TakeoffTypeOK
  <2>4. ASSUME NEW page \in {"own"} \cup K!Cited(kFile.rows), kFile' = [kFile EXCEPT !.rows = new(page)]
        PROVE  TakeoffInv'
    <3> DEFINE rs == new(page)
    <3>1. Len(kFile.rows) \in Nat /\ DOMAIN kFile.rows = 1 .. Len(kFile.rows)
      BY <1>t, DocumentRows
    <3>2. ASSUME NEW i \in DOMAIN kFile.rows
          PROVE  rs[i] \in K!Row /\ (rs[i].by = "person" => K!Carries(db, rs[i]))
      <4> DEFINE row == kFile.rows[i]
      <4>1. row \in K!Row /\ (row.by = "person" => K!Carries(db, row))
        BY <1>d, <1>r, <2>1 DEF DocumentSound
      <4>2. rs[i] = K!Measured(row, On(page, i))
        OBVIOUS
      <4> HIDE DEF row, rs, On
      <4>3. /\ rs[i] \in K!Row /\ rs[i].mark = row.mark /\ rs[i].by = row.by
            /\ rs[i].id = row.id /\ rs[i].hand = row.hand
        BY <4>1, <4>2, MeasuredRow
      <4> QED
        BY <4>1, <4>3 DEF K!Carries
    <3>3. DOMAIN rs = DOMAIN kFile.rows /\ rs = [i \in DOMAIN rs |-> rs[i]]
      OBVIOUS
    <3>4. kFile' = [kFile EXCEPT !.rows = rs]
      BY <2>4
    <3> HIDE DEF rs
    <3>5. rs \in Seq(K!Row)
      <4>1. rs \in [1 .. Len(kFile.rows) -> K!Row]
        BY <3>1, <3>2, <3>3
      <4> QED
        BY <3>1, <4>1, Chosen
    <3>6. kFile' \in K!Document /\ kFile'.rows = rs
      BY <1>t, <3>4, <3>5 DEF K!Document
    <3>7. DocumentSound(kFile)'
      BY <2>1, <3>2, <3>3, <3>6 DEF DocumentSound
    <3> QED
      BY <1>t, <1>d, <2>1, <2>2, <3>6, <3>7 DEF TakeoffInv, K!TakeoffTypeOK
  <2> QED
    BY <2>1, <2>3, <2>4
<1>7. ASSUME K!Gate PROVE TakeoffInv'
  <2>1. /\ kPc = "gate" /\ kSheet' = kSheet /\ db' = db
        /\ acts' = acts /\ clone' = clone /\ kFile' = kFile
        /\ \/ kPc' = "import" /\ runs' = runs /\ K!check_extraction(K!GateRows(kFile))
           \/ kPc' = "idle" /\ runs' = runs
           \/ kPc' = "seed" /\ runs' = runs + 1
    BY <1>7 DEF K!Gate
  <2>2. clone = K!NoFile /\ DocumentSound(clone)' /\ DocumentSound(kFile)' /\ runs # 0 /\ runs + 1 # 0
    BY <1>d, <1>n, <1>t, <2>1 DEF DocumentSound
  <2>3. ReadRows' = ReadRows
    BY <2>1 DEF ReadRows
  <2>4. ASSUME kPc' = "import" PROVE \A i \in DOMAIN ReadRows : Honest(ReadRows[i])
    <3>1. K!check_extraction(kFile.rows)
      BY <2>1, <2>4 DEF K!GateRows
    <3>2. CASE kFile.shape = "both" \/ kFile.rows = <<>>
      BY <1>n, <3>2 DEF ReadRows, K!_normalize_schedule_payload
    <3>3. CASE kFile.shape # "both" /\ kFile.rows # <<>>
      <4>1. ReadRows = kFile.rows /\ \A i \in DOMAIN kFile.rows : K!Acceptable(kFile.rows[i])
        BY <3>1, <3>3 DEF ReadRows, K!_normalize_schedule_payload, K!check_extraction
      <4> QED
        BY <4>1 DEF K!Acceptable, K!check_bboxes_are_real, Honest
    <3> QED
      BY <3>2, <3>3
  <2> QED
    BY <1>t, <1>d, <2>1, <2>2, <2>3, <2>4 DEF TakeoffInv, K!TakeoffTypeOK
<1>8. ASSUME K!import_extraction PROVE TakeoffInv'
  <2>1. /\ kPc = "import" /\ kPc' = "idle" /\ kSheet' = kSheet
        /\ acts' = acts /\ clone' = clone /\ kFile' = kFile /\ runs' = runs
        /\ db' = K!Imported(ReadRows)
    BY <1>8 DEF K!import_extraction, ReadRows
  <2>2. clone = K!NoFile /\ DocumentSound(clone)' /\ DocumentSound(kFile)' /\ runs # 0
    BY <1>d, <1>n, <2>1 DEF DocumentSound
  <2>3. ReadRows \in Seq(K!Row)
    BY <1>t DEF ReadRows, K!_normalize_schedule_payload
  <2>4. db' \in Seq(K!Row) /\ \A i \in DOMAIN db' : Honest(db'[i])
    BY <1>t, <1>d, <2>1, <2>3, ImportHonest
  <2> QED
    BY <1>t, <1>d, <2>1, <2>2, <2>4 DEF TakeoffInv, K!TakeoffTypeOK
<1>9. ASSUME K!RerunExtraction PROVE TakeoffInv'
  <2>1. /\ runs > 0 /\ kFile' = K!Exported /\ kSheet' = kSheet /\ clone' = clone /\ db' = db
        /\ \/ kPc = "idle" /\ kPc' = "seed" /\ runs' = runs + 1 /\ acts' = acts
           \/ kPc # "idle" /\ kPc' = kPc /\ runs' = runs /\ acts < MaxActs /\ acts' = acts + 1
    BY <1>9 DEF K!RerunExtraction
  <2>2. acts' \in 0 .. MaxActs /\ runs' \in Nat /\ runs' # 0
    BY <1>t, <2>1, TakeoffAssumption
  <2>3. kFile' \in K!Document
    BY <1>t, <2>1 DEF K!Exported, K!Doc, K!Document, K!Shapes
  <2>4. DocumentSound(kFile)'
    BY <1>w, <2>1 DEF DocumentSound
  <2>5. DocumentSound(clone)'
    BY <1>d, <1>n, <2>1 DEF DocumentSound
  <2>6. ReadRows' = db
    BY <1>w, <2>1 DEF ReadRows
  <2> QED
    BY <1>t, <1>d, <2>1, <2>2, <2>3, <2>4, <2>5, <2>6 DEF TakeoffInv, K!TakeoffTypeOK
\* The openings change by an addition or a confirmation: whatever a document
\* has of what a person settled is still there.
<1>f. ASSUME /\ kPc' = kPc /\ runs' = runs /\ kFile' = kFile /\ clone' = clone
             /\ kSheet' = kSheet /\ acts' \in 0 .. MaxActs
             /\ db' \in Seq(K!Row) /\ \A i \in DOMAIN db' : Honest(db'[i])
             /\ \A row : row.by = "person" /\ K!Carries(db, row) => K!Carries(db', row)
      PROVE  TakeoffInv'
  <2>1. DocumentSound(kFile)' /\ DocumentSound(clone)'
    BY <1>d, <1>f DEF DocumentSound
  <2>2. ReadRows' = ReadRows
    BY <1>f DEF ReadRows
  <2> QED
    BY <1>t, <1>d, <1>f, <2>1, <2>2 DEF TakeoffInv, K!TakeoffTypeOK
<1>10. ASSUME NEW m \in Marks \cup {K!NoMark}, K!Adds(m) PROVE TakeoffInv'
  <2> DEFINE row == K!Added(m, acts + 1)
  <2>1. /\ acts < MaxActs /\ acts' = acts + 1 /\ kSheet' = kSheet /\ clone' = clone
        /\ db' = Append(db, row) /\ kFile' = kFile /\ kPc' = kPc /\ runs' = runs
    BY <1>10 DEF K!Adds, K!Acts
  <2>2. acts + 1 \in 0 .. MaxActs
    BY <1>t, <2>1, TakeoffAssumption
  <2>3. row \in K!Row /\ Honest(row)
    BY <2>2, RowAdded
  <2> HIDE DEF row
  <2>4. /\ db' \in Seq(K!Row) /\ Len(db') = Len(db) + 1
        /\ \A i \in 1 .. Len(db) : db'[i] = db[i]
        /\ db'[Len(db) + 1] = row
    BY <1>t, <2>1, <2>3, AppendProperties
  <2>5. Len(db) \in Nat /\ DOMAIN db = 1 .. Len(db) /\ DOMAIN db' = 1 .. Len(db) + 1
    BY <1>t, <2>4, DocumentRows
  <2>6. \A i \in DOMAIN db' : i \in DOMAIN db \/ i = Len(db) + 1
    BY <2>5
  <2>7. \A i \in DOMAIN db' : Honest(db'[i])
    BY <1>d, <2>3, <2>4, <2>5, <2>6
  <2>8. \A r : K!Carries(db, r) => K!Carries(db', r)
    BY <2>4, <2>5 DEF K!Carries
  <2> QED
    BY <1>f, <2>1, <2>2, <2>4, <2>7, <2>8
<1>11. ASSUME NEW i \in DOMAIN db, K!Confirms(i) PROVE TakeoffInv'
  <2> DEFINE row == [db[i] EXCEPT !.by = "person", !.id = acts + 1]
  <2>1. /\ acts < MaxActs /\ acts' = acts + 1 /\ kSheet' = kSheet /\ clone' = clone
        /\ kFile' = kFile /\ kPc' = kPc /\ runs' = runs /\ ~K!_is_a_decision(db[i])
        /\ db' = [db EXCEPT ![i].by = "person", ![i].id = acts + 1]
    BY <1>11 DEF K!Confirms, K!Acts
  <2>2. acts + 1 \in 0 .. MaxActs
    BY <1>t, <2>1, TakeoffAssumption
  <2>3. /\ row \in K!Row /\ row.mark = db[i].mark /\ row.box = db[i].box
        /\ row.rowBox = db[i].rowBox /\ row.page = db[i].page
    BY <1>r, <2>2 DEF K!Row
  <2>4. db' = [db EXCEPT ![i] = row]
    BY <2>1
  <2> HIDE DEF row
  <2>5. Honest(row)
    BY <1>d, <2>3 DEF Honest, K!BoxOf
  <2>6. /\ Len(db) \in Nat /\ DOMAIN db = 1 .. Len(db) /\ db' \in Seq(K!Row)
        /\ DOMAIN db' = DOMAIN db /\ \A j \in DOMAIN db : db'[j] = IF j = i THEN row ELSE db[j]
    BY <1>t, <2>3, <2>4, DocumentRows
  <2>7. \A j \in DOMAIN db' : Honest(db'[j])
    BY <1>d, <2>5, <2>6
  <2>8. \A r : r.by = "person" /\ K!Carries(db, r) => K!Carries(db', r)
    BY <2>1, <2>6 DEF K!Carries, K!_is_a_decision
  <2> QED
    BY <1>f, <2>1, <2>2, <2>6, <2>7, <2>8
<1>12. CASE UNCHANGED K!vars
  <2>1. /\ kPc' = kPc /\ runs' = runs /\ kFile' = kFile /\ clone' = clone
        /\ kSheet' = kSheet /\ acts' = acts /\ db' = db
    BY <1>12 DEF K!vars
  <2> QED
    BY <1>f, <1>t, <1>d, <2>1
<1> QED
  BY <1>1, <1>2, <1>3, <1>4, <1>5, <1>6, <1>7, <1>8, <1>9, <1>10, <1>11, <1>12 DEF K!Next

\* Takeoff: nothing that the pass invented comes out of an import as a box
\* where it could be measured, in whatever shape, and whenever the openings
\* were written down over what the gate passed (geometry.py:21-130,
\* artifacts.py:108-181).
THEOREM OnlyLocatedImported == K!Spec => []ImportedIsLocated
<1>1. TakeoffInv => ImportedIsLocated
  BY DEF TakeoffInv, Honest, ImportedIsLocated, K!ImportedIsLocated
<1> QED
  BY <1>1, TakeoffInit, TakeoffStep, PTL DEF K!Spec

\* A seed, or the openings written down over the document before it, keeps
\* everything a person settled whose number is its own.
LEMMA NumberedCarried ==
  ASSUME TakeoffInv, [K!Next]_K!vars, kPc = "seed",
         NEW i \in DOMAIN K!GateRows(kFile),
         K!GateRows(kFile)[i].by = "person", K!Numbered(K!GateRows(kFile), i)
  PROVE  K!Carries(K!GateRows(kFile'), K!GateRows(kFile)[i])
<1> DEFINE existing == kFile.rows
           row == existing[i]
<1>1. K!GateRows(kFile) = existing /\ K!GateRows(kFile') = kFile'.rows
  BY DEF K!GateRows
<1>2. /\ i \in DOMAIN existing /\ row.by = "person" /\ K!Numbered(existing, i)
      /\ existing \in Seq(K!Row) /\ kSheet.parsed \in Seq(Marks)
  BY <1>1 DEF TakeoffInv, K!TakeoffTypeOK, K!Document
<1>3. CASE kFile' = kFile
  BY <1>1, <1>2, <1>3 DEF K!Carries
<1>4. CASE K!seed_door_schedule /\ kFile' # kFile
  <2> DEFINE parsed == kSheet.parsed
             result == K!_merge(parsed, existing)
  <2>1. kFile' = K!Doc(result)
    BY <1>1, <1>4 DEF K!seed_door_schedule
  <2>2. kFile'.rows = result
    BY <2>1 DEF K!Doc
  <2>3. parsed \in Seq(Marks) /\ existing \in Seq(K!Row)
    BY <1>2
  <2>4. i \in DOMAIN existing /\ K!_is_a_decision(existing[i])
    BY <1>2 DEF K!_is_a_decision
  <2>5. result = K!_merge(parsed, existing) /\ K!Numbered(existing, i)
    BY <1>2
  <2> HIDE DEF parsed, existing, result
  <2>6. \A j \in DOMAIN existing :
          K!_is_a_decision(existing[j]) /\ K!Numbered(existing, j) =>
            \E n \in DOMAIN result : result[n] = existing[j]
    BY <2>3, <2>5, Merged
  <2>7. \E n \in DOMAIN result : result[n] = existing[i]
    BY <2>4, <2>6, <2>5
  <2>8. K!Carries(result, existing[i])
    BY <2>7 DEF K!Carries
  <2> QED
    BY <1>1, <2>2, <2>8 DEF existing
<1>5. CASE K!RerunExtraction
  <2>1. kFile' = K!Exported
    BY <1>5 DEF K!RerunExtraction
  <2>2. K!Exported.rows = db
    BY WrittenDown
  <2>3. K!Carries(db, row)
    BY <1>2 DEF TakeoffInv, DocumentSound
  <2> QED
    BY <1>1, <2>1, <2>2, <2>3
<1>6. K!Next => kFile' = kFile \/ K!seed_door_schedule \/ K!RerunExtraction
  BY DEF K!Next, K!Extract, K!Clones, K!Pass, K!Promotes, K!measure_bboxes, K!Gate,
         K!import_extraction, K!Adds, K!Confirms, K!Acts
<1> QED
  BY <1>3, <1>4, <1>5, <1>6 DEF K!vars

\* Takeoff: a reseed, and the openings written down over the document just
\* before it, carry across all a person settled whose number is its own
\* (pretakeoff.py:102-121).
THEOREM NumberedSeeded == K!Spec => SeedKeepsNumbered
<1>1. TakeoffInv /\ [K!Next]_K!vars =>
        [kPc = "seed" => \A i \in DOMAIN K!GateRows(kFile) :
           K!GateRows(kFile)[i].by = "person" /\ K!Numbered(K!GateRows(kFile), i)
             => K!Carries(K!GateRows(kFile'), K!GateRows(kFile)[i])]_K!vars
  BY NumberedCarried
<1> QED
  BY <1>1, TakeoffInit, TakeoffStep, PTL DEF K!Spec, SeedKeepsNumbered, K!SeedKeepsNumbered

-----------------------------------------------------------------------------
(* Terminal.                                                               *)

Recorded == tFile[browser.of]

\* The events on their way are the recording from start to end, cut in pieces.
Cut(c, events, text, start, end) ==
  /\ c[1] = start /\ c[Len(events) + 1] = end
  /\ \A i \in 1 .. Len(events) :
       c[i] <= c[i + 1] /\ events[i].chunk = SubSeq(text, c[i] + 1, c[i + 1])
Delivers(events, text, start, end) ==
  \E c \in [1 .. Len(events) + 1 -> 0 .. Len(text)] : Cut(c, events, text, start, end)

TerminalJobs == [status : T!Statuses, attempt : 0 .. MaxSessions,
                 generation : 0 .. MaxSessions, recording : 0 .. MaxSessions]

\* The job names the recording of an attempt before its worker opens it, and a
\* worker leaves before the job ends.
RecordingsOrdered ==
  /\ tJob.attempt <= tJob.generation
  /\ worker = "launch" => tJob.recording = tJob.attempt
  /\ worker = "record" => tJob.attempt \in DOMAIN tFile
  /\ worker # "idle" => tJob.attempt # 0
  /\ tJob.status \in {"queued", "done", "dead"} => worker = "idle"

\* The claim of this moment opens no such recording any more.
Safe(b) == b # tJob.attempt \/ worker \in {"idle", "record"}

Copied == browser.at \in {"connect", "live", "ended"}

\* What the browser and its stream know of the job is older than it, and a
\* recording taken fresh is not opened again under the claim it was taken in,
\* nor named again once the job names another.
ViewersBehind ==
  /\ Copied => browser.of \in DOMAIN tFile /\ browser.under <= tJob.generation
  /\ Copied /\ browser.fresh /\ browser.under = tJob.generation => Safe(browser.of)
  /\ browser.at = "replay" /\ browser.told = "done" => tJob.status = "done"
  /\ browser.at \notin {"live", "ended"} => stream.flight = <<>>
  /\ stream.open /\ ~stream.due =>
       /\ T!Follows => stream.job.recording = browser.of
       /\ stream.job.status = "done" => tJob.status = "done"

\* The end of a stream is the last event and closes it; the end of a run that
\* is done was sent when all of its recording had been.
EndsLast ==
  \A i \in 1 .. Len(stream.flight) :
    stream.flight[i].end # "no" =>
      /\ i = Len(stream.flight) /\ ~stream.open /\ stream.flight[i].chunk = <<>>
      /\ stream.flight[i].end = "done" =>
           /\ tJob.status = "done"
           /\ T!Follows => stream.position = Len(Recorded)

Undistorted ==
  T!Follows =>
    /\ browser.offset <= Len(Recorded)
    /\ browser.have = SubSeq(Recorded, 1, browser.offset)
    /\ browser.at = "live" => Delivers(stream.flight, Recorded, browser.offset, stream.position)
    /\ browser.at = "ended" /\ browser.told = "done" =>
         tJob.status = "done" /\ browser.offset = Len(Recorded)

TerminalInv ==
  T!TerminalTypeOK /\ RecordingsOrdered /\ ViewersBehind /\ EndsLast /\ Undistorted

LEMMA TerminalTyped ==
  ASSUME T!TerminalTypeOK
  PROVE  /\ tJob.status \in T!Statuses /\ tJob.attempt \in 0 .. MaxSessions
         /\ tJob.recording \in 0 .. MaxSessions /\ tJob.generation \in 0 .. MaxSessions
         /\ tJob \in TerminalJobs
         /\ worker \in {"idle", "banner", "point", "launch", "record"}
         /\ DOMAIN tFile \subseteq T!Attempts
         /\ \A a \in DOMAIN tFile : tFile[a] \in T!Text /\ Len(tFile[a]) \in Nat
         /\ MaxSessions \in Nat
BY TerminalAssumption, LenProperties DEF T!TerminalTypeOK, T!Text, TerminalJobs

LEMMA TerminalInit == T!Init => TerminalInv
<1> SUFFICES ASSUME T!Init PROVE TerminalInv
  OBVIOUS
<1>1. /\ tJob = [status |-> "queued", attempt |-> 0, generation |-> 0, recording |-> 0]
      /\ worker = "idle" /\ tFile = <<>>
      /\ stream = [open |-> FALSE, due |-> TRUE, job |-> [status |-> "queued", recording |-> 0],
                   position |-> 0, flight |-> <<>>]
      /\ browser = [at |-> "mounting", offset |-> 0, have |-> <<>>, told |-> "nothing",
                    of |-> 0, under |-> 0, fresh |-> FALSE]
  BY DEF T!Init, T!Closed, T!NoFile
<1>2. <<>> \in T!Text /\ <<>> \in Seq(T!Event) /\ Len(<<>>) = 0 /\ DOMAIN <<>> = {}
  BY EmptySeq DEF T!Text
<1>3. T!TerminalTypeOK
  BY <1>1, <1>2, TerminalAssumption DEF T!TerminalTypeOK, T!Statuses
<1>4. RecordingsOrdered /\ ViewersBehind
  BY <1>1 DEF RecordingsOrdered, ViewersBehind, Copied
<1>5. EndsLast
  BY <1>1, <1>2 DEF EndsLast
<1>6. Undistorted
  BY <1>1 DEF Undistorted, T!Follows
<1> QED
  BY <1>3, <1>4, <1>5, <1>6 DEF TerminalInv

\* The worker's steps leave the viewer alone, and the viewer's the worker.
LEMMA Apart ==
  ASSUME [T!Next]_T!vars
  PROVE  \/ T!Recording /\ stream' = stream /\ browser' = browser
         \/ T!Watching /\ tJob' = tJob /\ worker' = worker /\ tFile' = tFile
         \/ /\ stream' = stream /\ browser' = browser
            /\ tJob' = tJob /\ worker' = worker /\ tFile' = tFile
<1>1. T!Recording => stream' = stream /\ browser' = browser
  BY DEF T!Recording, T!Claim, T!WriteBanner, T!PointJob, T!OpenRecorder, T!Record,
         T!Finish, T!Requeue, T!Retry, T!Crash, T!Cancel
<1>2. T!Watching => tJob' = tJob /\ worker' = worker /\ tFile' = tFile
  BY DEF T!Watching, T!GetJob, T!Replay, T!OpenStream, T!Receive, T!Drop,
         T!PollJob, T!TailFile, T!IdleOut
<1> QED
  BY <1>1, <1>2 DEF T!Next, T!vars

\* A step of the worker: what it makes of the job and the recordings.
WorkerTypes ==
  /\ tJob' \in TerminalJobs
  /\ worker' \in {"idle", "banner", "point", "launch", "record"}
  /\ DOMAIN tFile' \subseteq T!Attempts
  /\ \A a \in DOMAIN tFile' : tFile'[a] \in T!Text
Moved ==
  /\ tJob.generation <= tJob'.generation
  /\ DOMAIN tFile \subseteq DOMAIN tFile'
  /\ tJob.status = "done" => tJob'.status = "done" /\ tFile' = tFile
  /\ tJob'.generation = tJob.generation =>
       \A b \in DOMAIN tFile : Safe(b) =>
         /\ Safe(b)'
         /\ b = tJob'.recording => b = tJob.recording
         /\ \/ tFile'[b] = tFile[b]
            \/ \E x \in T!Attempts \X (0 .. MaxLines) : tFile'[b] = Append(tFile[b], x)

LEMMA WorkerSteps ==
  ASSUME TerminalInv, T!Recording
  PROVE  WorkerTypes /\ RecordingsOrdered' /\ Moved
<1>t. /\ tJob.status \in T!Statuses /\ tJob.attempt \in 0 .. MaxSessions
      /\ tJob.recording \in 0 .. MaxSessions /\ tJob.generation \in 0 .. MaxSessions
      /\ tJob \in TerminalJobs
      /\ worker \in {"idle", "banner", "point", "launch", "record"}
      /\ DOMAIN tFile \subseteq T!Attempts
      /\ \A a \in DOMAIN tFile : tFile[a] \in T!Text /\ Len(tFile[a]) \in Nat
      /\ MaxSessions \in Nat /\ T!TerminalTypeOK
  BY TerminalTyped DEF TerminalInv
<1>o. RecordingsOrdered
  BY DEF TerminalInv
<1>e. <<>> \in T!Text
  BY EmptySeq DEF T!Text
<1>1. CASE T!Claim
  <2>1. /\ tJob.status = "queued" /\ tJob.generation < MaxSessions
        /\ tJob' = [tJob EXCEPT !.status = "running", !.attempt = tJob.attempt + 1,
                                !.generation = tJob.generation + 1]
        /\ worker' = "banner" /\ tFile' = tFile
    BY <1>1 DEF T!Claim
  <2>a. /\ tJob.attempt + 1 \in 0 .. MaxSessions /\ "running" \in T!Statuses
        /\ tJob.generation + 1 \in 0 .. MaxSessions
    BY <1>t, <1>o, <2>1 DEF T!Statuses, RecordingsOrdered
  <2>2. /\ tJob'.status = "running" /\ tJob'.attempt = tJob.attempt + 1
        /\ tJob'.generation = tJob.generation + 1
        /\ tJob' \in TerminalJobs
    BY <1>t, <2>1, <2>a DEF TerminalJobs
  <2> QED
    BY <1>t, <1>o, <2>1, <2>2 DEF WorkerTypes, RecordingsOrdered, Moved
<1>2. CASE T!WriteBanner
  <2> DEFINE a == tJob.attempt
             text == <<T!Banner(tJob.generation)>>
  <2>1. /\ worker = "banner" /\ worker' = "point" /\ tJob' = tJob
        /\ tFile' = tFile \/ tFile' = T!Opened(a, text)
    BY <1>2 DEF T!WriteBanner
  <2>2. a \in T!Attempts /\ text \in T!Text /\ tJob.status \notin {"queued", "done", "dead"}
    <3>1. a \in T!Attempts /\ tJob.generation \in T!Attempts
      BY <1>t, <1>o, <2>1 DEF RecordingsOrdered, T!Attempts
    <3>2. T!Banner(tJob.generation) \in T!Attempts \X (0 .. MaxLines)
      BY <3>1, TerminalAssumption DEF T!Banner
    <3> QED
      BY <1>o, <2>1, <3>1, <3>2 DEF T!Text, RecordingsOrdered
  <2> HIDE DEF text
  <2>a. /\ DOMAIN T!Opened(a, text) = DOMAIN tFile \cup {a}
        /\ DOMAIN T!Opened(a, text) \subseteq T!Attempts
        /\ \A b \in DOMAIN T!Opened(a, text) : T!Opened(a, text)[b] \in T!Text
        /\ \A b \in DOMAIN tFile : b # a => T!Opened(a, text)[b] = tFile[b]
    BY <1>t, <2>2 DEF T!Opened
  <2> DEFINE opened == T!Opened(a, text)
  <2> HIDE DEF opened
  <2>3. /\ DOMAIN tFile \subseteq DOMAIN tFile' /\ DOMAIN tFile' \subseteq T!Attempts
        /\ \A b \in DOMAIN tFile' : tFile'[b] \in T!Text
        /\ \A b \in DOMAIN tFile : b # a => tFile'[b] = tFile[b]
    <3>1. tFile' = tFile \/ tFile' = opened
      BY <2>1 DEF opened
    <3>2. /\ DOMAIN opened = DOMAIN tFile \cup {a} /\ DOMAIN opened \subseteq T!Attempts
          /\ \A b \in DOMAIN opened : opened[b] \in T!Text
          /\ \A b \in DOMAIN tFile : b # a => opened[b] = tFile[b]
      BY <2>a DEF opened
    <3> QED
      BY <1>t, <3>1, <3>2
  <2>4. \A b \in DOMAIN tFile : Safe(b) => b # a
    BY <2>1 DEF Safe
  <2> QED
    BY <1>t, <1>o, <2>1, <2>2, <2>3, <2>4 DEF WorkerTypes, RecordingsOrdered, Moved, Safe
<1>3. CASE T!PointJob
  <2>1. /\ worker = "point" /\ worker' = "launch" /\ tFile' = tFile
        /\ tJob' = [tJob EXCEPT !.recording = tJob.attempt]
    BY <1>3 DEF T!PointJob
  <2>2. /\ tJob'.status = tJob.status /\ tJob'.attempt = tJob.attempt
        /\ tJob'.recording = tJob.attempt /\ tJob'.generation = tJob.generation
        /\ tJob' \in TerminalJobs
    BY <1>t, <2>1 DEF TerminalJobs
  <2> QED
    BY <1>t, <1>o, <2>1, <2>2 DEF WorkerTypes, RecordingsOrdered, Moved, Safe
<1>4. CASE T!OpenRecorder
  <2> DEFINE a == tJob.attempt
  <2>1. /\ worker = "launch" /\ worker' = "record" /\ tJob' = tJob
        /\ tFile' = T!Opened(a, <<>>)
    BY <1>4 DEF T!OpenRecorder
  <2>2. a \in T!Attempts /\ tJob.status \notin {"queued", "done", "dead"}
    BY <1>t, <1>o, <2>1 DEF RecordingsOrdered, T!Attempts
  <2>3. /\ DOMAIN tFile' = DOMAIN tFile \cup {a} /\ DOMAIN tFile' \subseteq T!Attempts
        /\ \A b \in DOMAIN tFile' : tFile'[b] \in T!Text
        /\ \A b \in DOMAIN tFile : b # a => tFile'[b] = tFile[b]
    <3>1. /\ DOMAIN T!Opened(a, <<>>) = DOMAIN tFile \cup {a}
          /\ DOMAIN T!Opened(a, <<>>) \subseteq T!Attempts
          /\ \A b \in DOMAIN T!Opened(a, <<>>) : T!Opened(a, <<>>)[b] \in T!Text
          /\ \A b \in DOMAIN tFile : b # a => T!Opened(a, <<>>)[b] = tFile[b]
      BY <1>t, <1>e, <2>2 DEF T!Opened
    <3> QED
      BY <2>1, <3>1
  <2>4. \A b \in DOMAIN tFile : Safe(b) => b # a
    BY <2>1 DEF Safe
  <2> QED
    BY <1>t, <1>o, <2>1, <2>2, <2>3, <2>4 DEF WorkerTypes, RecordingsOrdered, Moved, Safe
<1>5. CASE T!Record
  <2> DEFINE a == tJob.attempt
             x == T!Line(tJob.generation, Len(tFile[a]) + 1)
  <2>1. /\ worker = "record" /\ worker' = worker /\ tJob' = tJob /\ Len(tFile[a]) < MaxLines
        /\ tFile' = [tFile EXCEPT ![a] = Append(tFile[a], x)]
    BY <1>5 DEF T!Record
  <2>2. /\ a \in DOMAIN tFile /\ tJob.generation \in T!Attempts
        /\ tJob.status \notin {"queued", "done", "dead"}
    BY <1>t, <1>o, <2>1 DEF RecordingsOrdered, T!Attempts
  <2>3. x \in T!Attempts \X (0 .. MaxLines)
    <3>1. Len(tFile[a]) + 1 \in 0 .. MaxLines
      BY <1>t, <2>1, <2>2, TerminalAssumption
    <3>2. x = <<tJob.generation, Len(tFile[a]) + 1>>
      BY DEF T!Line
    <3> QED
      BY <2>2, <3>1, <3>2
  <2> HIDE DEF x
  <2>4. Append(tFile[a], x) \in T!Text
    BY <1>t, <2>2, <2>3, AppendProperties DEF T!Text
  <2>5. /\ DOMAIN tFile' = DOMAIN tFile /\ tFile'[a] = Append(tFile[a], x)
        /\ \A b \in DOMAIN tFile : b # a => tFile'[b] = tFile[b]
    BY <2>1, <2>2
  <2>6. WorkerTypes
    BY <1>t, <2>1, <2>4, <2>5 DEF WorkerTypes
  <2>7. RecordingsOrdered'
    BY <1>o, <2>1, <2>5 DEF RecordingsOrdered
  <2>8. Moved
    BY <1>t, <2>1, <2>2, <2>3, <2>5 DEF Moved, Safe
  <2> QED
    BY <2>6, <2>7, <2>8
<1>6. CASE T!Finish \/ T!Crash
  <2>1. /\ worker # "idle" /\ worker' = "idle" /\ tFile' = tFile
        /\ \/ tJob' = tJob /\ tJob.status # "running"
           \/ /\ tJob.status = "running"
              /\ \E s \in {"done", "queued", "dead"} : tJob' = [tJob EXCEPT !.status = s]
    BY <1>6 DEF T!Finish, T!Crash
  <2>2. /\ tJob'.attempt = tJob.attempt /\ tJob'.recording = tJob.recording
        /\ tJob'.generation = tJob.generation /\ tJob' \in TerminalJobs
        /\ tJob.status # "running" => tJob' = tJob
    BY <1>t, <2>1 DEF T!Statuses, TerminalJobs
  <2> QED
    BY <1>t, <1>o, <2>1, <2>2 DEF WorkerTypes, RecordingsOrdered, Moved, Safe
<1>7. CASE T!Requeue
  <2>1. /\ worker # "idle" /\ tJob.status = "running" /\ worker' = "idle" /\ tFile' = tFile
        /\ tJob' = [tJob EXCEPT !.status = "queued", !.attempt = tJob.attempt - 1]
    BY <1>7 DEF T!Requeue
  <2>2. tJob.attempt - 1 \in 0 .. MaxSessions /\ tJob.attempt - 1 <= tJob.generation
    BY <1>t, <1>o, <2>1 DEF RecordingsOrdered
  <2>3. /\ tJob'.recording = tJob.recording /\ tJob'.generation = tJob.generation
        /\ tJob'.attempt = tJob.attempt - 1 /\ tJob' \in TerminalJobs
    BY <1>t, <2>1, <2>2 DEF T!Statuses, TerminalJobs
  <2> QED
    BY <1>t, <1>o, <2>1, <2>2, <2>3 DEF WorkerTypes, RecordingsOrdered, Moved, Safe
<1>8. CASE T!Retry
  <2>1. /\ tJob.status = "dead" /\ worker' = worker /\ tFile' = tFile
        /\ tJob' = [tJob EXCEPT !.status = "queued", !.attempt = 0]
    BY <1>8 DEF T!Retry
  <2>2. worker = "idle"
    BY <1>o, <2>1 DEF RecordingsOrdered
  <2>a. 0 \in 0 .. MaxSessions /\ "queued" \in T!Statuses
    BY <1>t DEF T!Statuses
  <2>3. /\ tJob'.recording = tJob.recording /\ tJob'.generation = tJob.generation
        /\ tJob'.attempt = 0 /\ tJob' \in TerminalJobs
    BY <1>t, <2>1, <2>a DEF TerminalJobs
  <2> QED
    BY <1>t, <2>1, <2>2, <2>3 DEF WorkerTypes, RecordingsOrdered, Moved, Safe
<1>9. CASE T!Cancel
  <2>1. /\ tJob.status \in {"queued", "running"} /\ tJob' = [tJob EXCEPT !.status = "cancelled"]
        /\ worker' = worker /\ tFile' = tFile
    BY <1>9 DEF T!Cancel
  <2>2. /\ tJob'.attempt = tJob.attempt /\ tJob'.recording = tJob.recording
        /\ tJob'.status = "cancelled" /\ tJob'.generation = tJob.generation
        /\ tJob' \in TerminalJobs
    BY <1>t, <2>1 DEF T!Statuses, TerminalJobs
  <2> QED
    BY <1>t, <1>o, <2>1, <2>2 DEF WorkerTypes, RecordingsOrdered, Moved, Safe
<1> QED
  BY <1>1, <1>2, <1>3, <1>4, <1>5, <1>6, <1>7, <1>8, <1>9 DEF T!Recording

RecordedLine == T!Attempts \X (0 .. MaxLines)

LEMMA TextGrown ==
  ASSUME NEW s \in T!Text, NEW x \in RecordedLine, NEW t, t = Append(s, x)
  PROVE  /\ t \in T!Text /\ Len(t) = Len(s) + 1 /\ Len(s) \in Nat
         /\ \A i \in 1 .. Len(s) + 1, j \in 0 .. Len(s) : SubSeq(t, i, j) = SubSeq(s, i, j)
<1>1. s \in Seq(RecordedLine)
  BY DEF T!Text, RecordedLine
<1>2. t \in Seq(RecordedLine) /\ Len(t) = Len(s) + 1 /\ Len(s) \in Nat
  BY <1>1, AppendProperties
<1>3. t = s \o <<x>> /\ <<x>> \in Seq(RecordedLine)
  BY <1>1, AppendIsConcat
<1>4. ASSUME NEW i \in 1 .. Len(s) + 1, NEW j \in 0 .. Len(s)
      PROVE  SubSeq(t, i, j) = SubSeq(s, i, j)
  <2>1. CASE j < i
    <3>1. SubSeq(t, i, j) = <<>> /\ SubSeq(s, i, j) = <<>>
      BY <1>2, <2>1, SubSeqEmpty
    <3> QED
      BY <3>1
  <2>2. CASE i <= j
    <3>1. i \in 1 .. Len(s) /\ j \in 1 .. Len(s)
      BY <1>2, <2>2
    <3> QED
      BY <1>1, <1>3, <3>1, SubSeqOfConcat1
  <2> QED
    BY <1>2, <2>1, <2>2
<1>5. t \in T!Text
  BY <1>2 DEF T!Text, RecordedLine
<1> QED
  BY <1>2, <1>4, <1>5

LEMMA DeliverNothing ==
  ASSUME NEW text \in T!Text, NEW start \in 0 .. Len(text)
  PROVE  Delivers(<<>>, text, start, start)
<1> DEFINE c == [i \in 1 .. 1 |-> start]
<1>1. Len(<<>>) = 0
  BY EmptySeq
<1>2. c \in [1 .. Len(<<>>) + 1 -> 0 .. Len(text)]
  BY <1>1
<1>3. Cut(c, <<>>, text, start, start)
  BY <1>1 DEF Cut
<1> QED
  BY <1>2, <1>3 DEF Delivers

LEMMA DeliverMore ==
  ASSUME NEW text \in T!Text, NEW events \in Seq(T!Event), NEW start, NEW mid, NEW end,
         mid \in 0 .. Len(text), end \in mid .. Len(text),
         Delivers(events, text, start, mid),
         NEW event \in T!Event, event.chunk = SubSeq(text, mid + 1, end),
         NEW more, more = Append(events, event)
  PROVE  Delivers(more, text, start, end)
<1>1. PICK c \in [1 .. Len(events) + 1 -> 0 .. Len(text)] : Cut(c, events, text, start, mid)
  BY DEF Delivers
<1>2. /\ Len(events) \in Nat /\ Len(more) = Len(events) + 1
      /\ \A i \in 1 .. Len(events) : more[i] = events[i]
      /\ more[Len(events) + 1] = event
  BY AppendProperties, LenProperties
<1> DEFINE n == Len(events)
           d == [i \in 1 .. n + 2 |-> IF i = n + 2 THEN end ELSE c[i]]
<1>3. Len(text) \in Nat
  BY LenProperties DEF T!Text
<1>4. d \in [1 .. Len(more) + 1 -> 0 .. Len(text)]
  BY <1>1, <1>2, <1>3
<1>5. d[n + 2] = end /\ \A i \in 1 .. n + 1 : d[i] = c[i]
  BY <1>2
<1> HIDE DEF d
<1>6. d[1] = start /\ d[Len(more) + 1] = end /\ d[n + 1] = mid
  BY <1>1, <1>2, <1>5 DEF Cut
<1>7. ASSUME NEW i \in 1 .. Len(more)
      PROVE  d[i] <= d[i + 1] /\ more[i].chunk = SubSeq(text, d[i] + 1, d[i + 1])
  <2>1. CASE i = n + 1
    BY <1>2, <1>3, <1>5, <1>6, <2>1, SMTT(30)
  <2>2. CASE i # n + 1
    <3>1. i \in 1 .. n /\ i + 1 \in 1 .. n + 1 /\ i \in 1 .. n + 1
      BY <1>2, <2>2
    <3>2. c[i] <= c[i + 1] /\ events[i].chunk = SubSeq(text, c[i] + 1, c[i + 1])
      BY <1>1, <3>1 DEF Cut
    <3> QED
      BY <1>2, <1>5, <3>1, <3>2
  <2> QED
    BY <2>1, <2>2
<1>8. Cut(d, more, text, start, end)
  BY <1>6, <1>7 DEF Cut
<1> QED
  BY <1>4, <1>8 DEF Delivers

LEMMA DeliverFirst ==
  ASSUME NEW text \in T!Text, NEW events \in Seq(T!Event), events # <<>>, NEW start, NEW end,
         Delivers(events, text, start, end), NEW later, later = Tail(events)
  PROVE  \E m \in 0 .. Len(text) :
           /\ start <= m /\ Head(events).chunk = SubSeq(text, start + 1, m)
           /\ Delivers(later, text, m, end)
<1>1. PICK c \in [1 .. Len(events) + 1 -> 0 .. Len(text)] : Cut(c, events, text, start, end)
  BY DEF Delivers
<1>2. /\ Len(events) \in Nat \ {0} /\ Len(later) = Len(events) - 1 /\ Head(events) = events[1]
      /\ \A i \in 1 .. Len(later) : later[i] = events[i + 1]
  BY EmptySeq, HeadTailProperties
<1> DEFINE n == Len(events)
           d == [i \in 1 .. n |-> c[i + 1]]
<1>4. d \in [1 .. Len(later) + 1 -> 0 .. Len(text)]
  BY <1>1, <1>2
<1>5. \A i \in 1 .. n : d[i] = c[i + 1]
  OBVIOUS
<1> HIDE DEF d
<1>6. d[1] = c[2] /\ d[Len(later) + 1] = end
  BY <1>1, <1>2, <1>5 DEF Cut
<1>7. ASSUME NEW i \in 1 .. Len(later)
      PROVE  d[i] <= d[i + 1] /\ later[i].chunk = SubSeq(text, d[i] + 1, d[i + 1])
  <2>1. i + 1 \in 1 .. n /\ i \in 1 .. n
    BY <1>2
  <2>2. c[i + 1] <= c[i + 2] /\ events[i + 1].chunk = SubSeq(text, c[i + 1] + 1, c[i + 2])
    BY <1>1, <2>1 DEF Cut
  <2> QED
    BY <1>2, <1>5, <2>1, <2>2
<1>8. Cut(d, later, text, c[2], end)
  BY <1>6, <1>7 DEF Cut
<1>9. Delivers(later, text, c[2], end)
  BY <1>4, <1>8 DEF Delivers
<1>10. c[2] \in 0 .. Len(text) /\ c[1] = start /\ c[1] <= c[2]
       /\ events[1].chunk = SubSeq(text, c[1] + 1, c[2])
  BY <1>1, <1>2, SMTT(30) DEF Cut
<1> QED
  BY <1>2, <1>9, <1>10

LEMMA DeliverGrown ==
  ASSUME NEW text \in T!Text, NEW events \in Seq(T!Event), NEW start, NEW end,
         Delivers(events, text, start, end),
         NEW x \in RecordedLine, NEW longer, longer = Append(text, x)
  PROVE  Delivers(events, longer, start, end)
<1>1. PICK c \in [1 .. Len(events) + 1 -> 0 .. Len(text)] : Cut(c, events, text, start, end)
  BY DEF Delivers
<1>2. /\ Len(longer) = Len(text) + 1 /\ Len(text) \in Nat /\ Len(events) \in Nat
      /\ \A i \in 1 .. Len(text) + 1, j \in 0 .. Len(text) :
           SubSeq(longer, i, j) = SubSeq(text, i, j)
  BY TextGrown, LenProperties
<1>3. c \in [1 .. Len(events) + 1 -> 0 .. Len(longer)]
  BY <1>1, <1>2
<1>4. ASSUME NEW i \in 1 .. Len(events)
      PROVE  c[i] <= c[i + 1] /\ events[i].chunk = SubSeq(longer, c[i] + 1, c[i + 1])
  <2>1. c[i] <= c[i + 1] /\ events[i].chunk = SubSeq(text, c[i] + 1, c[i + 1])
    BY <1>1 DEF Cut
  <2>2. c[i] \in 0 .. Len(text) /\ c[i + 1] \in 0 .. Len(text)
    BY <1>1, <1>2, SMTT(30)
  <2>3. c[i] + 1 \in 1 .. Len(text) + 1
    BY <1>2, <2>2
  <2> QED
    BY <1>2, <2>1, <2>2, <2>3
<1>5. Cut(c, events, longer, start, end)
  BY <1>1, <1>4 DEF Cut
<1> QED
  BY <1>3, <1>5 DEF Delivers

LEMMA DeliverEnd ==
  ASSUME NEW text \in T!Text, NEW events \in Seq(T!Event), NEW start, NEW end,
         Delivers(events, text, start, end)
  PROVE  start \in 0 .. Len(text) /\ end \in 0 .. Len(text)
<1>1. PICK c \in [1 .. Len(events) + 1 -> 0 .. Len(text)] : Cut(c, events, text, start, end)
  BY DEF Delivers
<1>2. Len(events) \in Nat
  BY LenProperties
<1> QED
  BY <1>1, <1>2 DEF Cut

LEMMA Joined ==
  ASSUME NEW text \in T!Text, NEW a \in 0 .. Len(text), NEW b \in a .. Len(text)
  PROVE  /\ SubSeq(text, 1, a) \o SubSeq(text, a + 1, b) = SubSeq(text, 1, b)
         /\ Len(SubSeq(text, a + 1, b)) = b - a
         /\ SubSeq(text, a + 1, b) \in T!Text
         /\ (SubSeq(text, a + 1, b) = <<>> <=> a = b)
         /\ SubSeq(text, 1, Len(text)) = text
<1>1. text \in Seq(RecordedLine) /\ Len(text) \in Nat
  BY LenProperties DEF T!Text, RecordedLine
<1>2. a \in 1 - 1 .. Len(text) /\ 1 \in 1 .. Len(text) + 1 /\ b \in a .. Len(text)
  BY <1>1
<1>3. SubSeq(text, 1, a) \o SubSeq(text, a + 1, b) = SubSeq(text, 1, b)
  BY <1>1, <1>2, ConcatAdjacentSubSeq
<1>4. \A i \in a + 1 .. b : text[i] \in RecordedLine
  BY <1>1, ElementOfSeq
<1> DEFINE piece == SubSeq(text, a + 1, b)
<1>5. piece \in Seq(RecordedLine) /\ Len(piece) = IF a + 1 <= b THEN b - (a + 1) + 1 ELSE 0
  BY <1>1, <1>4, SubSeqProperties
<1>6. Len(piece) = b - a
  BY <1>1, <1>5
<1> HIDE DEF piece
<1>7. piece = <<>> <=> Len(piece) = 0
  BY <1>5, EmptySeq
<1>8. SubSeq(text, 1, Len(text)) = text
  BY <1>1, SubSeqFull
<1>9. piece \in T!Text /\ Len(piece) = b - a /\ (piece = <<>> <=> a = b)
  BY <1>1, <1>5, <1>6, <1>7 DEF T!Text, RecordedLine
<1> QED
  BY <1>3, <1>8, <1>9, Zenon DEF piece

LEMMA DeliverEmpty ==
  ASSUME NEW text, NEW start, NEW end, Delivers(<<>>, text, start, end)
  PROVE  start = end
<1>1. PICK c \in [1 .. Len(<<>>) + 1 -> 0 .. Len(text)] : Cut(c, <<>>, text, start, end)
  BY DEF Delivers
<1>2. Len(<<>>) = 0
  BY EmptySeq
<1> QED
  BY <1>1, <1>2 DEF Cut

LEMMA ViewerTyped ==
  ASSUME TerminalInv
  PROVE  /\ stream \in [open : BOOLEAN, due : BOOLEAN, position : Nat, flight : Seq(T!Event),
                        job : [status : T!Statuses, recording : 0 .. MaxSessions]]
         /\ browser \in [at : {"mounting", "replay", "connect", "live", "ended", "unavailable"},
                         offset : Nat, have : T!Text, of : 0 .. MaxSessions,
                         under : 0 .. MaxSessions, fresh : BOOLEAN,
                         told : T!Statuses \cup {"nothing", "idle"}]
         /\ stream.flight \in Seq(T!Event) /\ stream.position \in Nat
         /\ Len(stream.flight) \in Nat
         /\ browser.have \in T!Text /\ browser.of \in 0 .. MaxSessions
         /\ browser.offset \in Nat /\ browser.offset = Len(browser.have)
         /\ stream.open => browser.at = "live"
         /\ RecordingsOrdered /\ ViewersBehind /\ EndsLast /\ Undistorted
         /\ browser.at \in {"connect", "live", "ended"} =>
              Recorded \in T!Text /\ Len(Recorded) \in Nat
BY LenProperties DEF TerminalInv, T!TerminalTypeOK, ViewersBehind, Copied, Recorded, T!Text

\* The worker goes on: the recording the viewer follows only grows.
LEMMA WorkerKeeps ==
  ASSUME TerminalInv, T!Recording, stream' = stream, browser' = browser
  PROVE  TerminalInv'
<1>w. WorkerTypes /\ RecordingsOrdered' /\ Moved
  BY WorkerSteps
<1>v. /\ stream.flight \in Seq(T!Event) /\ stream.position \in Nat /\ Len(stream.flight) \in Nat
      /\ browser.have \in T!Text /\ browser.of \in 0 .. MaxSessions
      /\ browser.offset \in Nat /\ browser.offset = Len(browser.have)
      /\ stream.open => browser.at = "live"
      /\ RecordingsOrdered /\ ViewersBehind /\ EndsLast /\ Undistorted
      /\ browser.at \in {"connect", "live", "ended"} =>
           Recorded \in T!Text /\ Len(Recorded) \in Nat
  BY ViewerTyped
<1>t. /\ tJob.generation \in 0 .. MaxSessions /\ tJob'.generation \in 0 .. MaxSessions
      /\ browser.under \in 0 .. MaxSessions /\ MaxSessions \in Nat /\ T!TerminalTypeOK
  BY <1>w, TerminalTyped DEF TerminalInv, WorkerTypes, TerminalJobs, T!TerminalTypeOK
<1>1. T!TerminalTypeOK'
  BY <1>t, <1>w DEF T!TerminalTypeOK, WorkerTypes, TerminalJobs
<1>2. Copied /\ browser.under = tJob'.generation =>
        browser.of \in DOMAIN tFile /\ browser.under = tJob.generation
  BY <1>t, <1>v, <1>w DEF ViewersBehind, Moved
<1>4. T!Follows' => T!Follows
  <2> SUFFICES ASSUME T!Follows' PROVE T!Follows
    OBVIOUS
  <2>1. /\ Copied /\ browser.fresh /\ browser.of = tJob'.recording
        /\ browser.under = tJob'.generation
    BY DEF T!Follows, Copied
  <2>2. browser.of \in DOMAIN tFile /\ tJob'.generation = tJob.generation /\ Safe(browser.of)
    BY <1>2, <1>v, <2>1 DEF ViewersBehind, Copied
  <2>3. browser.of = tJob.recording
    BY <1>w, <2>1, <2>2 DEF Moved
  <2> QED
    BY <2>1, <2>2, <2>3 DEF T!Follows, Copied
<1>3. ViewersBehind'
  <2>1. Copied => browser.of \in DOMAIN tFile' /\ browser.under <= tJob'.generation
    BY <1>t, <1>v, <1>w DEF ViewersBehind, Moved
  <2>2. Copied /\ browser.fresh /\ browser.under = tJob'.generation => Safe(browser.of)'
    BY <1>2, <1>v, <1>w DEF ViewersBehind, Moved
  <2>3. tJob.status = "done" => tJob'.status = "done"
    BY <1>w DEF Moved
  <2>4. Copied' = Copied
    BY DEF Copied
  <2> QED
    BY <1>4, <1>v, <2>1, <2>2, <2>3, <2>4 DEF ViewersBehind, Safe
<1>5. tJob.status = "done" => tJob'.status = "done" /\ Recorded' = Recorded
  BY <1>w DEF Moved, Recorded
<1>6. EndsLast'
  BY <1>v, <1>4, <1>5 DEF EndsLast
<1>7. ASSUME T!Follows' PROVE Undistorted'
  <2>1. T!Follows
    BY <1>4, <1>7
  <2>2. /\ browser.offset <= Len(Recorded)
        /\ browser.have = SubSeq(Recorded, 1, browser.offset)
        /\ browser.at = "live" => Delivers(stream.flight, Recorded, browser.offset, stream.position)
        /\ browser.at = "ended" /\ browser.told = "done" =>
             tJob.status = "done" /\ browser.offset = Len(Recorded)
    BY <1>v, <2>1 DEF Undistorted
  <2>3. /\ browser.of \in DOMAIN tFile /\ tJob'.generation = tJob.generation /\ Safe(browser.of)
        /\ Recorded \in T!Text /\ Len(Recorded) \in Nat
    BY <1>7, <1>v, <2>1 DEF ViewersBehind, T!Follows, Copied
  <2>4. Recorded' = Recorded \/ \E x \in RecordedLine : Recorded' = Append(Recorded, x)
    BY <1>w, <2>3 DEF Moved, Recorded, RecordedLine
  <2>5. CASE Recorded' = Recorded
    BY <1>5, <2>2, <2>5 DEF Undistorted
  <2>6. ASSUME NEW x \in RecordedLine, Recorded' = Append(Recorded, x), Recorded' # Recorded
        PROVE  Undistorted'
    <3> DEFINE longer == Append(Recorded, x)
    <3>1. /\ Len(longer) = Len(Recorded) + 1
          /\ \A i \in 1 .. Len(Recorded) + 1, j \in 0 .. Len(Recorded) :
               SubSeq(longer, i, j) = SubSeq(Recorded, i, j)
      BY <2>3, TextGrown
    <3>2. browser.at = "live" => Delivers(stream.flight, longer, browser.offset, stream.position)
      BY <1>v, <2>2, <2>3, DeliverGrown
    <3> HIDE DEF longer
    <3>3. Recorded' = longer
      BY <2>6 DEF longer
    <3>4. SubSeq(longer, 1, browser.offset) = SubSeq(Recorded, 1, browser.offset)
      BY <1>v, <2>2, <2>3, <3>1
    <3>5. browser.offset <= Len(longer)
      BY <1>v, <2>2, <2>3, <3>1
    <3>6. ~(browser.at = "ended" /\ browser.told = "done")
      BY <1>5, <2>2, <2>6
    <3> QED
      BY <2>2, <3>2, <3>3, <3>4, <3>5, <3>6 DEF Undistorted
  <2> QED
    BY <2>4, <2>5, <2>6
<1>8. Undistorted'
  BY <1>7 DEF Undistorted
<1> QED
  BY <1>1, <1>w, <1>3, <1>6, <1>8 DEF TerminalInv

\* What a step of the viewer has to establish.
Watched ==
  /\ T!TerminalTypeOK' /\ ViewersBehind' /\ EndsLast' /\ Undistorted'

LEMMA StreamReset ==
  /\ T!Closed \in [open : BOOLEAN, due : BOOLEAN, position : Nat, flight : Seq(T!Event),
                   job : [status : T!Statuses, recording : 0 .. MaxSessions]]
  /\ T!Closed.open = FALSE /\ T!Closed.flight = <<>> /\ T!Closed.due = TRUE
BY TerminalAssumption DEF T!Closed, T!Statuses, T!NoFile

LEMMA JobAsked ==
  ASSUME TerminalInv, T!GetJob, tJob' = tJob, worker' = worker, tFile' = tFile
  PROVE  Watched
<1>1. /\ browser.at = "mounting" /\ stream' = stream
      /\ browser' = [browser EXCEPT !.at = "replay", !.told = tJob.status, !.of = tJob.recording]
  BY DEF T!GetJob
<1>2. /\ browser'.at = "replay" /\ browser'.told = tJob.status /\ browser'.of = tJob.recording
      /\ browser' \in [at : {"mounting", "replay", "connect", "live", "ended", "unavailable"},
                       offset : Nat, have : T!Text, of : 0 .. MaxSessions,
                       under : 0 .. MaxSessions, fresh : BOOLEAN,
                       told : T!Statuses \cup {"nothing", "idle"}]
      /\ browser'.offset = Len(browser'.have)
  BY <1>1, ViewerTyped, TerminalTyped DEF TerminalInv
<1>3. stream.open = FALSE /\ stream.flight = <<>>
  BY <1>1, ViewerTyped DEF ViewersBehind
<1>4. T!TerminalTypeOK'
  BY <1>1, <1>2, <1>3 DEF T!TerminalTypeOK, TerminalInv
<1>5. ViewersBehind'
  BY <1>1, <1>2, <1>3, TerminalTyped DEF ViewersBehind, Copied, Safe, T!Follows, TerminalInv
<1>6. EndsLast'
  BY <1>1, <1>3, EmptySeq DEF EndsLast
<1>7. Undistorted'
  BY <1>2 DEF Undistorted, T!Follows
<1> QED
  BY <1>4, <1>5, <1>6, <1>7 DEF Watched

LEMMA Replayed ==
  ASSUME TerminalInv, T!Replay, tJob' = tJob, worker' = worker, tFile' = tFile
  PROVE  Watched
<1>v. /\ stream.open => browser.at = "live"
      /\ browser \in [at : {"mounting", "replay", "connect", "live", "ended", "unavailable"},
                       offset : Nat, have : T!Text, of : 0 .. MaxSessions,
                       under : 0 .. MaxSessions, fresh : BOOLEAN,
                       told : T!Statuses \cup {"nothing", "idle"}]
      /\ browser.of \in 0 .. MaxSessions
      /\ RecordingsOrdered /\ ViewersBehind
      /\ browser.offset = Len(browser.have)
  BY ViewerTyped
<1>1. browser.at = "replay" /\ stream' = stream
  BY DEF T!Replay
<1>2. stream.open = FALSE /\ stream.flight = <<>>
  BY <1>v, <1>1 DEF ViewersBehind
<1>3. EndsLast'
  BY <1>1, <1>2, EmptySeq DEF EndsLast
<1>4. CASE browser.of \notin DOMAIN tFile
  <2>1. browser' = [browser EXCEPT !.at = "unavailable"]
    BY <1>4 DEF T!Replay
  <2>2. /\ browser'.at = "unavailable" /\ browser'.of = browser.of
        /\ browser' \in [at : {"mounting", "replay", "connect", "live", "ended", "unavailable"},
                       offset : Nat, have : T!Text, of : 0 .. MaxSessions,
                       under : 0 .. MaxSessions, fresh : BOOLEAN,
                       told : T!Statuses \cup {"nothing", "idle"}]
        /\ browser'.offset = Len(browser'.have)
    BY <1>v, <2>1
  <2>3. T!TerminalTypeOK'
    BY <1>1, <1>2, <2>2 DEF T!TerminalTypeOK, TerminalInv
  <2>4. ViewersBehind'
    BY <1>1, <1>v, <1>2, <2>2 DEF ViewersBehind, Copied, Safe, T!Follows
  <2> QED
    BY <1>3, <2>2, <2>3, <2>4 DEF Watched, Undistorted, T!Follows
<1>5. CASE browser.of \in DOMAIN tFile
  <2> DEFINE at == IF browser.told \in {"done", "cancelled", "dead"} THEN "ended" ELSE "connect"
             fresh == tJob.attempt # browser.of \/ worker \notin {"banner", "point", "launch"}
             under == tJob.generation
  <2>1. browser' = [browser EXCEPT !.at = at, !.have = Recorded, !.offset = Len(Recorded),
                                   !.under = under, !.fresh = fresh]
    BY <1>5 DEF T!Replay, Recorded
  <2>2. Recorded \in T!Text /\ Len(Recorded) \in Nat
    BY <1>5, TerminalTyped DEF TerminalInv, Recorded
  <2>3. at \in {"ended", "connect"} /\ fresh \in BOOLEAN
    BY Zenon
  <2>u. under = tJob.generation /\ under \in 0 .. MaxSessions
    BY TerminalTyped DEF TerminalInv
  <2>6. fresh => Safe(browser.of)
    BY TerminalTyped DEF fresh, Safe, TerminalInv
  <2> HIDE DEF at, fresh, under
  <2>4. /\ browser'.at = at /\ browser'.of = browser.of /\ browser'.told = browser.told
        /\ browser'.have = Recorded /\ browser'.offset = Len(Recorded) /\ browser'.fresh = fresh
        /\ browser'.under = under
        /\ browser' \in [at : {"mounting", "replay", "connect", "live", "ended", "unavailable"},
                       offset : Nat, have : T!Text, of : 0 .. MaxSessions,
                       under : 0 .. MaxSessions, fresh : BOOLEAN,
                       told : T!Statuses \cup {"nothing", "idle"}]
    BY <1>v, <2>1, <2>2, <2>3, <2>u
  <2>5. T!TerminalTypeOK'
    BY <1>1, <1>2, <2>4 DEF T!TerminalTypeOK, TerminalInv
  <2>7. ViewersBehind'
    <3>1. tJob.generation \in Nat /\ tJob' = tJob /\ worker' = worker /\ tFile' = tFile
      BY TerminalTyped DEF TerminalInv
    <3>2. Copied' /\ browser'.of \in DOMAIN tFile' /\ browser'.under = tJob'.generation
      BY <1>5, <2>3, <2>4, <2>u, <3>1 DEF Copied
    <3>3. browser'.fresh => Safe(browser.of)'
      BY <2>4, <2>6, <3>1 DEF Safe
    <3> QED
      BY <1>1, <1>v, <1>2, <2>3, <2>4, <3>1, <3>2, <3>3 DEF ViewersBehind
  <2>8. Recorded' = Recorded
    BY <2>4 DEF Recorded
  <2>9. SubSeq(Recorded, 1, Len(Recorded)) = Recorded
    BY <2>2, Joined
  <2>10. browser.told = "done" => tJob.status = "done"
    BY <1>v, <1>1 DEF ViewersBehind
  <2>11. Undistorted'
    BY <2>2, <2>3, <2>4, <2>8, <2>9, <2>10 DEF Undistorted
  <2> QED
    BY <1>3, <2>5, <2>7, <2>11 DEF Watched
<1> QED
  BY <1>4, <1>5

LEMMA StreamOpened ==
  ASSUME TerminalInv, T!OpenStream, tJob' = tJob, worker' = worker, tFile' = tFile
  PROVE  Watched
<1>v. /\ browser \in [at : {"mounting", "replay", "connect", "live", "ended", "unavailable"},
                       offset : Nat, have : T!Text, of : 0 .. MaxSessions,
                       under : 0 .. MaxSessions, fresh : BOOLEAN,
                       told : T!Statuses \cup {"nothing", "idle"}]
      /\ ViewersBehind /\ Undistorted /\ browser.offset \in Nat
      /\ browser.offset = Len(browser.have)
      /\ browser.at \in {"connect", "live", "ended"} =>
              Recorded \in T!Text /\ Len(Recorded) \in Nat
  BY ViewerTyped
<1>1. /\ browser.at = "connect" /\ browser' = [browser EXCEPT !.at = "live"]
      /\ stream' = [T!Closed EXCEPT !.open = TRUE, !.position = browser.offset]
  BY DEF T!OpenStream
<1>2. /\ browser'.at = "live" /\ browser'.of = browser.of /\ browser'.told = browser.told
      /\ browser'.have = browser.have /\ browser'.offset = browser.offset
      /\ browser'.fresh = browser.fresh /\ browser'.under = browser.under
      /\ browser' \in [at : {"mounting", "replay", "connect", "live", "ended", "unavailable"},
                       offset : Nat, have : T!Text, of : 0 .. MaxSessions,
                       under : 0 .. MaxSessions, fresh : BOOLEAN,
                       told : T!Statuses \cup {"nothing", "idle"}]
  BY <1>v, <1>1
<1>3. /\ stream'.open = TRUE /\ stream'.due = TRUE /\ stream'.position = browser.offset
      /\ stream'.flight = <<>>
      /\ stream' \in [open : BOOLEAN, due : BOOLEAN, position : Nat, flight : Seq(T!Event),
                   job : [status : T!Statuses, recording : 0 .. MaxSessions]]
  BY <1>v, <1>1, StreamReset
<1>4. T!TerminalTypeOK'
  BY <1>v, <1>2, <1>3 DEF T!TerminalTypeOK, TerminalInv
<1>5. ViewersBehind'
  BY <1>v, <1>1, <1>2, <1>3 DEF ViewersBehind, Copied, Safe, T!Follows
<1>6. EndsLast'
  BY <1>3, EmptySeq DEF EndsLast
<1>7. Recorded' = Recorded /\ (T!Follows' => T!Follows)
  BY <1>1, <1>2 DEF Recorded, T!Follows
<1>8. ASSUME T!Follows PROVE Delivers(<<>>, Recorded, browser.offset, browser.offset)
  <2>1. browser.offset \in 0 .. Len(Recorded) /\ Recorded \in T!Text
    BY <1>v, <1>1, <1>8 DEF Undistorted
  <2> QED
    BY <2>1, DeliverNothing
<1>9. Undistorted'
  BY <1>v, <1>2, <1>3, <1>7, <1>8 DEF Undistorted
<1> QED
  BY <1>4, <1>5, <1>6, <1>9 DEF Watched

LEMMA StreamDropped ==
  ASSUME TerminalInv, T!Drop, tJob' = tJob, worker' = worker, tFile' = tFile
  PROVE  Watched
<1>v. /\ browser \in [at : {"mounting", "replay", "connect", "live", "ended", "unavailable"},
                       offset : Nat, have : T!Text, of : 0 .. MaxSessions,
                       under : 0 .. MaxSessions, fresh : BOOLEAN,
                       told : T!Statuses \cup {"nothing", "idle"}]
      /\ ViewersBehind /\ Undistorted /\ browser.offset = Len(browser.have)
  BY ViewerTyped
<1>1. /\ browser.at = "live" /\ browser' = [browser EXCEPT !.at = "connect"]
      /\ stream' = T!Closed
  BY DEF T!Drop
<1>2. /\ browser'.at = "connect" /\ browser'.of = browser.of /\ browser'.told = browser.told
      /\ browser'.have = browser.have /\ browser'.offset = browser.offset
      /\ browser'.fresh = browser.fresh /\ browser'.under = browser.under
      /\ browser' \in [at : {"mounting", "replay", "connect", "live", "ended", "unavailable"},
                       offset : Nat, have : T!Text, of : 0 .. MaxSessions,
                       under : 0 .. MaxSessions, fresh : BOOLEAN,
                       told : T!Statuses \cup {"nothing", "idle"}]
  BY <1>v, <1>1
<1>3. /\ stream'.open = FALSE /\ stream'.flight = <<>>
      /\ stream' \in [open : BOOLEAN, due : BOOLEAN, position : Nat, flight : Seq(T!Event),
                   job : [status : T!Statuses, recording : 0 .. MaxSessions]]
  BY <1>1, StreamReset
<1>4. T!TerminalTypeOK'
  BY <1>v, <1>2, <1>3 DEF T!TerminalTypeOK, TerminalInv
<1>5. ViewersBehind'
  BY <1>v, <1>1, <1>2, <1>3 DEF ViewersBehind, Copied, Safe, T!Follows
<1>6. EndsLast'
  BY <1>3, EmptySeq DEF EndsLast
<1>7. Recorded' = Recorded /\ (T!Follows' => T!Follows)
  BY <1>1, <1>2 DEF Recorded, T!Follows
<1>8. Undistorted'
  BY <1>v, <1>1, <1>2, <1>7 DEF Undistorted
<1> QED
  BY <1>4, <1>5, <1>6, <1>8 DEF Watched

LEMMA JobPolled ==
  ASSUME TerminalInv, T!PollJob, tJob' = tJob, worker' = worker, tFile' = tFile
  PROVE  Watched
<1>v. /\ stream \in [open : BOOLEAN, due : BOOLEAN, position : Nat, flight : Seq(T!Event),
                   job : [status : T!Statuses, recording : 0 .. MaxSessions]]
      /\ ViewersBehind /\ EndsLast /\ Undistorted /\ (stream.open => browser.at = "live")
  BY ViewerTyped
<1>1. /\ stream.open /\ browser' = browser
      /\ stream' = [stream EXCEPT !.due = FALSE,
                      !.job = [status |-> tJob.status, recording |-> tJob.recording]]
  BY DEF T!PollJob, T!Seen
<1>2. tJob.status \in T!Statuses /\ tJob.recording \in 0 .. MaxSessions /\ MaxSessions \in Nat
  BY TerminalTyped DEF TerminalInv
<1>3. /\ stream'.open = stream.open /\ stream'.flight = stream.flight
      /\ stream'.position = stream.position
      /\ stream'.job = [status |-> tJob.status, recording |-> tJob.recording]
      /\ stream' \in [open : BOOLEAN, due : BOOLEAN, position : Nat, flight : Seq(T!Event),
                   job : [status : T!Statuses, recording : 0 .. MaxSessions]]
  BY <1>v, <1>1, <1>2
<1>4. T!TerminalTypeOK'
  BY <1>1, <1>3 DEF T!TerminalTypeOK, TerminalInv
<1>5. ViewersBehind'
  BY <1>v, <1>1, <1>2, <1>3 DEF ViewersBehind, Copied, Safe, T!Follows
<1>6. Recorded' = Recorded /\ (T!Follows' <=> T!Follows)
  BY <1>1 DEF Recorded, T!Follows
<1>7. EndsLast'
  BY <1>v, <1>3, <1>6 DEF EndsLast
<1>8. Undistorted'
  BY <1>v, <1>1, <1>3, <1>6 DEF Undistorted
<1> QED
  BY <1>4, <1>5, <1>7, <1>8 DEF Watched

LEMMA Received ==
  ASSUME TerminalInv, T!Receive, tJob' = tJob, worker' = worker, tFile' = tFile
  PROVE  Watched
<1> DEFINE event == Head(stream.flight)
           later == Tail(stream.flight)
<1>v. /\ stream \in [open : BOOLEAN, due : BOOLEAN, position : Nat, flight : Seq(T!Event),
                   job : [status : T!Statuses, recording : 0 .. MaxSessions]]
      /\ browser \in [at : {"mounting", "replay", "connect", "live", "ended", "unavailable"},
                       offset : Nat, have : T!Text, of : 0 .. MaxSessions,
                       under : 0 .. MaxSessions, fresh : BOOLEAN,
                       told : T!Statuses \cup {"nothing", "idle"}]
      /\ stream.flight \in Seq(T!Event) /\ Len(stream.flight) \in Nat
      /\ browser.have \in T!Text /\ browser.offset \in Nat /\ browser.offset = Len(browser.have)
      /\ ViewersBehind /\ EndsLast /\ Undistorted /\ stream.position \in Nat
      /\ browser.at \in {"connect", "live", "ended"} => Recorded \in T!Text /\ Len(Recorded) \in Nat
  BY ViewerTyped
<1>1. /\ browser.at = "live" /\ stream.flight # <<>>
      /\ stream' = [stream EXCEPT !.flight = later]
      /\ browser' = IF event.end # "no"
                    THEN [browser EXCEPT !.at = "ended", !.told = event.end]
                    ELSE [browser EXCEPT !.have = browser.have \o event.chunk,
                                         !.offset = browser.offset + Len(event.chunk)]
  BY DEF T!Receive
<1>2. /\ event \in T!Event /\ event = stream.flight[1] /\ later \in Seq(T!Event)
      /\ Len(stream.flight) \in Nat \ {0} /\ Len(later) = Len(stream.flight) - 1
      /\ \A i \in 1 .. Len(later) : later[i] = stream.flight[i + 1]
  BY <1>1, <1>v, HeadTailProperties, EmptySeq
<1>d. T!Follows => \E m \in 0 .. Len(Recorded) :
        /\ browser.offset <= m /\ event.chunk = SubSeq(Recorded, browser.offset + 1, m)
        /\ Delivers(later, Recorded, m, stream.position)
  <2> SUFFICES ASSUME T!Follows
               PROVE  \E m \in 0 .. Len(Recorded) :
                        /\ browser.offset <= m
                        /\ event.chunk = SubSeq(Recorded, browser.offset + 1, m)
                        /\ Delivers(later, Recorded, m, stream.position)
    OBVIOUS
  <2>1. Delivers(stream.flight, Recorded, browser.offset, stream.position)
    BY <1>1, <1>v DEF Undistorted
  <2> QED
    BY <1>1, <1>v, <2>1, DeliverFirst
<1> HIDE DEF event, later
<1>3. /\ stream'.open = stream.open /\ stream'.due = stream.due /\ stream'.flight = later
      /\ stream'.position = stream.position /\ stream'.job = stream.job
      /\ stream' \in [open : BOOLEAN, due : BOOLEAN, position : Nat, flight : Seq(T!Event),
                   job : [status : T!Statuses, recording : 0 .. MaxSessions]]
  BY <1>v, <1>1, <1>2
<1>4. CASE event.end # "no"
  <2>1. /\ Len(stream.flight) = 1 /\ ~stream.open /\ event.chunk = <<>>
        /\ event.end = "done" =>
             tJob.status = "done" /\ (T!Follows => stream.position = Len(Recorded))
    <3>1. 1 \in 1 .. Len(stream.flight) /\ stream.flight[1].end # "no"
      BY <1>2, <1>4
    <3>2. /\ 1 = Len(stream.flight) /\ ~stream.open /\ stream.flight[1].chunk = <<>>
          /\ stream.flight[1].end = "done" =>
               tJob.status = "done" /\ (T!Follows => stream.position = Len(Recorded))
      BY <1>v, <3>1 DEF EndsLast
    <3> QED
      BY <1>2, <3>2
  <2>2. /\ event.end \in {"idle", "done", "cancelled"}
        /\ event.end \in T!Statuses \cup {"nothing", "idle"}
    BY <1>2, <1>4 DEF T!Event, T!Statuses
  <2>3. /\ browser'.at = "ended" /\ browser'.told = event.end /\ browser'.of = browser.of
        /\ browser'.have = browser.have /\ browser'.offset = browser.offset
        /\ browser'.fresh = browser.fresh /\ browser'.under = browser.under
        /\ browser' \in [at : {"mounting", "replay", "connect", "live", "ended", "unavailable"},
                       offset : Nat, have : T!Text, of : 0 .. MaxSessions,
                       under : 0 .. MaxSessions, fresh : BOOLEAN,
                       told : T!Statuses \cup {"nothing", "idle"}]
    BY <1>v, <1>1, <1>4, <2>2
  <2>4. later = <<>>
    BY <1>2, <2>1, EmptySeq
  <2>5. T!TerminalTypeOK'
    BY <1>v, <1>3, <2>1, <2>3 DEF T!TerminalTypeOK, TerminalInv
  <2>6. ViewersBehind'
    BY <1>v, <1>1, <1>3, <2>1, <2>3 DEF ViewersBehind, Copied, Safe, T!Follows
  <2>7. EndsLast'
    BY <1>3, <2>4, EmptySeq DEF EndsLast
  <2>8. Recorded' = Recorded /\ (T!Follows' => T!Follows)
    BY <1>1, <2>3 DEF Recorded, T!Follows
  <2>9. T!Follows => browser.offset = stream.position
    <3> SUFFICES ASSUME T!Follows PROVE browser.offset = stream.position
      OBVIOUS
    <3>1. PICK m \in 0 .. Len(Recorded) :
            /\ browser.offset <= m /\ event.chunk = SubSeq(Recorded, browser.offset + 1, m)
            /\ Delivers(later, Recorded, m, stream.position)
      BY <1>d
    <3>2. browser.offset \in 0 .. Len(Recorded) /\ m \in browser.offset .. Len(Recorded)
      BY <1>1, <1>v, <3>1
    <3>3. browser.offset = m
      BY <1>1, <1>v, <2>1, <3>1, <3>2, Joined
    <3>4. m = stream.position
      BY <2>4, <3>1, DeliverEmpty
    <3> QED
      BY <3>3, <3>4
  <2>10. Undistorted'
    BY <1>v, <2>1, <2>3, <2>8, <2>9 DEF Undistorted
  <2> QED
    BY <2>5, <2>6, <2>7, <2>10 DEF Watched
<1>5. CASE event.end = "no"
  <2> DEFINE have == browser.have \o event.chunk
  <2>1. event.chunk \in T!Text /\ Len(event.chunk) \in Nat
    BY <1>2, LenProperties DEF T!Event, T!Text
  <2>2. have \in T!Text /\ Len(have) = browser.offset + Len(event.chunk)
    BY <1>v, <2>1, ConcatProperties DEF T!Text
  <2> HIDE DEF have
  <2>3. browser' = [browser EXCEPT !.have = have, !.offset = Len(have)]
    BY <1>1, <1>5, <2>2 DEF have
  <2>a. Len(have) \in Nat
    BY <1>v, <2>1, <2>2
  <2>4. /\ browser'.at = "live" /\ browser'.told = browser.told /\ browser'.of = browser.of
        /\ browser'.have = have /\ browser'.offset = Len(have) /\ browser'.fresh = browser.fresh /\ browser'.under = browser.under
        /\ Len(have) \in Nat
        /\ browser' \in [at : {"mounting", "replay", "connect", "live", "ended", "unavailable"},
                       offset : Nat, have : T!Text, of : 0 .. MaxSessions,
                       under : 0 .. MaxSessions, fresh : BOOLEAN,
                       told : T!Statuses \cup {"nothing", "idle"}]
    BY <1>v, <1>1, <2>2, <2>3, <2>a
  <2>5. T!TerminalTypeOK'
    BY <1>3, <2>4 DEF T!TerminalTypeOK, TerminalInv
  <2>6. ViewersBehind'
    BY <1>v, <1>1, <1>3, <2>4 DEF ViewersBehind, Copied, Safe, T!Follows
  <2>7. Recorded' = Recorded /\ (T!Follows' => T!Follows)
    BY <1>1, <2>4 DEF Recorded, T!Follows
  <2>8. EndsLast'
    <3> SUFFICES ASSUME NEW i \in 1 .. Len(later), later[i].end # "no"
                 PROVE  /\ i = Len(later) /\ ~stream.open /\ later[i].chunk = <<>>
                        /\ later[i].end = "done" =>
                             /\ tJob.status = "done"
                             /\ T!Follows => stream.position = Len(Recorded)
      BY <1>3, <2>7 DEF EndsLast
    <3>1. i + 1 \in 1 .. Len(stream.flight) /\ stream.flight[i + 1] = later[i]
      BY <1>2
    <3>2. i + 1 = Len(stream.flight) => i = Len(later)
      BY <1>2
    <3> QED
      BY <1>v, <3>1, <3>2 DEF EndsLast
  <2>9. ASSUME T!Follows
        PROVE  /\ Len(have) <= Len(Recorded) /\ have = SubSeq(Recorded, 1, Len(have))
               /\ Delivers(later, Recorded, Len(have), stream.position)
    <3>1. PICK m \in 0 .. Len(Recorded) :
            /\ browser.offset <= m /\ event.chunk = SubSeq(Recorded, browser.offset + 1, m)
            /\ Delivers(later, Recorded, m, stream.position)
      BY <1>d, <2>9
    <3>2. browser.offset \in 0 .. Len(Recorded) /\ m \in browser.offset .. Len(Recorded)
      BY <1>1, <1>v, <3>1
    <3>3. /\ SubSeq(Recorded, 1, browser.offset) \o SubSeq(Recorded, browser.offset + 1, m)
               = SubSeq(Recorded, 1, m)
          /\ Len(SubSeq(Recorded, browser.offset + 1, m)) = m - browser.offset
      <4> DEFINE text == Recorded
                 k == browser.offset
      <4>1. text \in T!Text /\ k \in 0 .. Len(text) /\ m \in k .. Len(text)
        BY <1>1, <1>v, <3>2
      <4> HIDE DEF text, k
      <4>2. /\ SubSeq(text, 1, k) \o SubSeq(text, k + 1, m) = SubSeq(text, 1, m)
            /\ Len(SubSeq(text, k + 1, m)) = m - k
        BY <4>1, Joined
      <4> QED
        BY <4>2 DEF text, k
    <3>4. browser.have = SubSeq(Recorded, 1, browser.offset)
      BY <1>v, <2>9 DEF Undistorted
    <3>5. have = SubSeq(Recorded, 1, m)
      BY <3>1, <3>3, <3>4 DEF have
    <3>6. Len(have) = m
      BY <1>v, <2>2, <3>1, <3>2, <3>3
    <3> QED
      BY <1>v, <3>1, <3>5, <3>6
  <2>10. Undistorted'
    BY <1>3, <2>4, <2>7, <2>9 DEF Undistorted
  <2> QED
    BY <2>5, <2>6, <2>8, <2>10 DEF Watched
<1> QED
  BY <1>4, <1>5

\* The recording read from where the stream had got to.
LEMMA ReadOn ==
  ASSUME TerminalInv, stream.open, ~stream.due,
         NEW chunk, NEW position,
         chunk = (IF stream.job.recording \in DOMAIN tFile
                  THEN T!ReadFrom(stream.job.recording, stream.position) ELSE <<>>),
         position = (IF stream.job.recording \in DOMAIN tFile
                     THEN Len(tFile[stream.job.recording]) ELSE stream.position)
  PROVE  /\ chunk \in T!Text /\ position \in Nat
         /\ T!Follows => /\ stream.position \in 0 .. Len(Recorded) /\ position = Len(Recorded)
                         /\ chunk = SubSeq(Recorded, stream.position + 1, position)
<1>v. /\ stream.flight \in Seq(T!Event) /\ stream.position \in Nat
      /\ ViewersBehind /\ Undistorted /\ browser.at = "live"
      /\ Recorded \in T!Text /\ Len(Recorded) \in Nat
      /\ browser.of \in 0 .. MaxSessions
  BY ViewerTyped
<1>j. /\ stream.job.recording \in 0 .. MaxSessions /\ tJob.recording \in 0 .. MaxSessions
      /\ MaxSessions \in Nat
      /\ \A a \in DOMAIN tFile : tFile[a] \in T!Text /\ Len(tFile[a]) \in Nat
  BY TerminalTyped, ViewerTyped DEF TerminalInv
<1> DEFINE target == stream.job.recording
           text == tFile[target]
           from == IF Len(text) < stream.position THEN 0 ELSE stream.position
<1>1. ASSUME target \in DOMAIN tFile
      PROVE  chunk = SubSeq(text, from + 1, Len(text)) /\ position = Len(text)
             /\ chunk \in T!Text /\ position \in Nat /\ from \in 0 .. Len(text)
  <2>1. chunk = SubSeq(text, from + 1, Len(text)) /\ position = Len(text)
    BY <1>1 DEF T!ReadFrom
  <2>2. text \in T!Text /\ Len(text) \in Nat
    BY <1>1, <1>j
  <2>3. from \in 0 .. Len(text) /\ Len(text) \in from .. Len(text)
    BY <1>v, <2>2
  <2> HIDE DEF from, text
  <2>4. SubSeq(text, from + 1, Len(text)) \in T!Text
    BY <2>2, <2>3, Joined
  <2> QED
    BY <2>1, <2>2, <2>3, <2>4
<1>2. target \notin DOMAIN tFile => chunk \in T!Text /\ position \in Nat
  BY <1>v, EmptySeq DEF T!Text
<1>3. ASSUME T!Follows
      PROVE  /\ stream.position \in 0 .. Len(Recorded) /\ position = Len(Recorded)
             /\ chunk = SubSeq(Recorded, stream.position + 1, position)
  <2>1. Delivers(stream.flight, Recorded, browser.offset, stream.position)
    BY <1>v, <1>3 DEF Undistorted
  <2>2. stream.position \in 0 .. Len(Recorded)
    BY <1>v, <2>1, DeliverEnd
  <2>3. browser.of = target /\ target \in DOMAIN tFile
    <3>1. browser.of = target
      BY <1>v, <1>3 DEF ViewersBehind
    <3>2. browser.of \in DOMAIN tFile
      BY <1>v DEF ViewersBehind, Copied
    <3> QED
      BY <3>1, <3>2
  <2>4. text = Recorded
    BY <2>3 DEF Recorded
  <2>5. from = stream.position
    BY <1>v, <2>2, <2>4
  <2> QED
    BY <1>1, <2>2, <2>3, <2>4, <2>5
<1> QED
  BY <1>1, <1>2, <1>3

NoEnds(events) == \A i \in 1 .. Len(events) : events[i].end = "no"

\* One more event of a stream.
LEMMA OneMore ==
  ASSUME NEW events \in Seq(T!Event), NEW event \in T!Event,
         NEW new, new = events \o <<event>>
  PROVE  /\ new \in Seq(T!Event) /\ Len(events) \in Nat /\ Len(new) = Len(events) + 1
         /\ \A i \in 1 .. Len(events) : new[i] = events[i]
         /\ new[Len(events) + 1] = event
         /\ \A text \in T!Text, start \in Nat : \A a \in 0 .. Len(text), b \in 0 .. Len(text) :
              a <= b /\ Delivers(events, text, start, a) /\ event.chunk = SubSeq(text, a + 1, b)
                => Delivers(new, text, start, b)
<1>1. new = Append(events, event)
  BY AppendIsConcat
<1>2. /\ new \in Seq(T!Event) /\ Len(events) \in Nat /\ Len(new) = Len(events) + 1
      /\ \A i \in 1 .. Len(events) : new[i] = events[i]
      /\ new[Len(events) + 1] = event
  BY <1>1, AppendProperties, LenProperties
<1>3. ASSUME NEW text \in T!Text, NEW start \in Nat, NEW a \in 0 .. Len(text),
             NEW b \in 0 .. Len(text), a <= b,
             Delivers(events, text, start, a), event.chunk = SubSeq(text, a + 1, b)
      PROVE  Delivers(new, text, start, b)
  <2>1. b \in a .. Len(text)
    BY <1>3, LenProperties DEF T!Text
  <2> QED
    BY <1>1, <1>3, <2>1, DeliverMore
<1> QED
  BY <1>2, <1>3

LEMMA OutputSent ==
  ASSUME NEW events \in Seq(T!Event), NoEnds(events), NEW chunk \in T!Text,
         NEW mid, mid = events \o T!Output(chunk)
  PROVE  /\ mid \in Seq(T!Event) /\ NoEnds(mid)
         /\ \A text \in T!Text, start \in Nat : \A a \in 0 .. Len(text) :
              Delivers(events, text, start, a) /\ chunk = SubSeq(text, a + 1, Len(text))
                => Delivers(mid, text, start, Len(text))
<1>1. CASE chunk = <<>>
  <2>1. mid = events
    BY <1>1, ConcatEmptySeq DEF T!Output
  <2>2. ASSUME NEW text \in T!Text, NEW a \in 0 .. Len(text), chunk = SubSeq(text, a + 1, Len(text))
        PROVE  a = Len(text)
    <3> DEFINE b == Len(text)
    <3>1. b \in a .. Len(text)
      BY LenProperties DEF T!Text
    <3>2. chunk = SubSeq(text, a + 1, b)
      BY <2>2
    <3> HIDE DEF b
    <3>3. SubSeq(text, a + 1, b) = <<>> <=> a = b
      BY <3>1, Joined
    <3> QED
      BY <1>1, <3>2, <3>3 DEF b
  <2> QED
    BY <2>1, <2>2
<1>2. CASE chunk # <<>>
  <2> DEFINE event == [end |-> "no", chunk |-> chunk]
  <2>1. event \in T!Event /\ event.end = "no" /\ event.chunk = chunk
    BY DEF T!Event
  <2>2. mid = events \o <<event>>
    BY <1>2 DEF T!Output
  <2> HIDE DEF event
  <2>3. /\ mid \in Seq(T!Event) /\ Len(events) \in Nat /\ Len(mid) = Len(events) + 1
        /\ \A i \in 1 .. Len(events) : mid[i] = events[i]
        /\ mid[Len(events) + 1] = event
    BY <2>1, <2>2, OneMore
  <2>4. NoEnds(mid)
    <3> SUFFICES ASSUME NEW i \in 1 .. Len(mid) PROVE mid[i].end = "no"
      BY DEF NoEnds
    <3>1. i \in 1 .. Len(events) \/ i = Len(events) + 1
      BY <2>3
    <3> QED
      BY <2>1, <2>3, <3>1 DEF NoEnds
  <2>5. ASSUME NEW text \in T!Text, NEW start \in Nat, NEW a \in 0 .. Len(text),
               Delivers(events, text, start, a), chunk = SubSeq(text, a + 1, Len(text))
        PROVE  Delivers(mid, text, start, Len(text))
    <3> DEFINE b == Len(text)
    <3>1. b \in 0 .. Len(text) /\ a <= b
      BY LenProperties DEF T!Text
    <3>2. chunk = SubSeq(text, a + 1, b)
      BY <2>5
    <3> HIDE DEF b
    <3>3. Delivers(mid, text, start, b)
      BY <2>1, <2>2, <2>5, <3>1, <3>2, OneMore, ZenonT(40)
    <3> QED
      BY <3>3 DEF b
  <2> QED
    BY <2>3, <2>4, <2>5
<1> QED
  BY <1>1, <1>2

EndedBy(mid, new, status) ==
  /\ new \in Seq(T!Event)
  /\ \A i \in 1 .. Len(new) : new[i].end # "no" =>
       i = Len(new) /\ new[i].chunk = <<>> /\ new[i].end = status
  /\ \A text \in T!Text, start \in Nat : \A a \in 0 .. Len(text) :
       Delivers(mid, text, start, a) => Delivers(new, text, start, a)

LEMMA EndSent ==
  ASSUME NEW mid \in Seq(T!Event), NoEnds(mid), NEW status \in {"idle", "done", "cancelled"},
         NEW new, new = mid \o T!End(status)
  PROVE  EndedBy(mid, new, status)
<1> DEFINE event == [end |-> status, chunk |-> <<>>]
<1>1. event \in T!Event /\ event.end = status /\ event.chunk = <<>>
  BY EmptySeq DEF T!Event, T!Text
<1>2. new = mid \o <<event>>
  BY DEF T!End
<1> HIDE DEF event
<1>3. /\ new \in Seq(T!Event) /\ Len(mid) \in Nat /\ Len(new) = Len(mid) + 1
      /\ \A i \in 1 .. Len(mid) : new[i] = mid[i]
      /\ new[Len(mid) + 1] = event
  BY <1>1, <1>2, OneMore
<1>4. ASSUME NEW i \in 1 .. Len(new), new[i].end # "no"
      PROVE  i = Len(new) /\ new[i].chunk = <<>> /\ new[i].end = status
  <2>1. i \in 1 .. Len(mid) \/ i = Len(mid) + 1
    BY <1>3
  <2> QED
    BY <1>1, <1>3, <1>4, <2>1 DEF NoEnds
<1>5. ASSUME NEW text \in T!Text, NEW start \in Nat, NEW a \in 0 .. Len(text),
             Delivers(mid, text, start, a)
      PROVE  Delivers(new, text, start, a)
  <2>1. Len(text) \in Nat /\ a \in a .. Len(text) /\ a <= a
    BY LenProperties DEF T!Text
  <2>2. event.chunk = SubSeq(text, a + 1, a)
    BY <1>1, <2>1, Joined
  <2> QED
    BY <1>1, <1>2, <1>5, <2>1, <2>2, OneMore
<1> QED
  BY <1>3, <1>4, <1>5 DEF EndedBy

\* A step of the server's side of the stream, with what it makes of the flight.
LEMMA StreamWent ==
  ASSUME TerminalInv, stream.open, ~stream.due, browser' = browser,
         tJob' = tJob, worker' = worker, tFile' = tFile,
         NEW position \in Nat, NEW flight \in Seq(T!Event), NEW open \in BOOLEAN,
         stream' = [stream EXCEPT !.position = position, !.flight = flight, !.open = open],
         \A i \in 1 .. Len(flight) : flight[i].end # "no" =>
           /\ i = Len(flight) /\ ~open /\ flight[i].chunk = <<>>
           /\ flight[i].end = "done" =>
                tJob.status = "done" /\ (T!Follows => position = Len(Recorded)),
         T!Follows => Delivers(flight, Recorded, browser.offset, position)
  PROVE  Watched
<1>v. /\ stream \in [open : BOOLEAN, due : BOOLEAN, position : Nat, flight : Seq(T!Event),
                   job : [status : T!Statuses, recording : 0 .. MaxSessions]]
      /\ ViewersBehind /\ Undistorted /\ browser.at = "live"
  BY ViewerTyped
<1>1. /\ stream'.open = open /\ stream'.due = stream.due /\ stream'.job = stream.job
      /\ stream'.position = position /\ stream'.flight = flight
      /\ stream' \in [open : BOOLEAN, due : BOOLEAN, position : Nat, flight : Seq(T!Event),
                   job : [status : T!Statuses, recording : 0 .. MaxSessions]]
  BY <1>v
<1>2. T!TerminalTypeOK'
  BY <1>v, <1>1 DEF T!TerminalTypeOK, TerminalInv
<1>3. ViewersBehind'
  BY <1>v, <1>1 DEF ViewersBehind, Copied, Safe, T!Follows
<1>4. Recorded' = Recorded /\ (T!Follows' <=> T!Follows)
  BY DEF Recorded, T!Follows
<1>5. EndsLast'
  BY <1>1, <1>4 DEF EndsLast
<1>6. Undistorted'
  BY <1>v, <1>1, <1>4 DEF Undistorted
<1> QED
  BY <1>2, <1>3, <1>5, <1>6 DEF Watched

LEMMA FlightOpen ==
  ASSUME TerminalInv, stream.open
  PROVE  /\ stream.flight \in Seq(T!Event) /\ NoEnds(stream.flight) /\ browser.at = "live"
         /\ browser.offset \in Nat /\ Recorded \in T!Text
         /\ T!Follows => Delivers(stream.flight, Recorded, browser.offset, stream.position)
BY ViewerTyped DEF EndsLast, NoEnds, Undistorted

LEMMA FileTailed ==
  ASSUME TerminalInv, T!TailFile, tJob' = tJob, worker' = worker, tFile' = tFile
  PROVE  Watched
<1> DEFINE there == stream.job.recording \in DOMAIN tFile
           chunk == IF there THEN T!ReadFrom(stream.job.recording, stream.position) ELSE <<>>
           position == IF there THEN Len(tFile[stream.job.recording]) ELSE stream.position
           over == T!Finished(stream.job.status)
           mid == stream.flight \o T!Output(chunk)
           flight == mid \o (IF over THEN T!End(stream.job.status) ELSE <<>>)
<1>1. /\ stream.open /\ ~stream.due /\ browser' = browser
      /\ stream' = [stream EXCEPT !.position = position, !.flight = flight, !.open = ~over]
  BY DEF T!TailFile
<1>2. /\ chunk \in T!Text /\ position \in Nat
      /\ T!Follows => /\ stream.position \in 0 .. Len(Recorded) /\ position = Len(Recorded)
                      /\ chunk = SubSeq(Recorded, stream.position + 1, position)
  <2> HIDE DEF chunk, position
  <2>1. /\ chunk = (IF stream.job.recording \in DOMAIN tFile
                    THEN T!ReadFrom(stream.job.recording, stream.position) ELSE <<>>)
        /\ position = (IF stream.job.recording \in DOMAIN tFile
                       THEN Len(tFile[stream.job.recording]) ELSE stream.position)
    BY DEF chunk, position
  <2> QED
    BY <1>1, <2>1, ReadOn
<1>3. /\ stream.flight \in Seq(T!Event) /\ NoEnds(stream.flight)
      /\ browser.offset \in Nat /\ Recorded \in T!Text
      /\ T!Follows => Delivers(stream.flight, Recorded, browser.offset, stream.position)
  BY <1>1, FlightOpen
<1> HIDE DEF chunk, position
<1>4. /\ mid \in Seq(T!Event) /\ NoEnds(mid)
      /\ \A text \in T!Text, start \in Nat : \A a \in 0 .. Len(text) :
           Delivers(stream.flight, text, start, a) /\ chunk = SubSeq(text, a + 1, Len(text))
             => Delivers(mid, text, start, Len(text))
  <2> DEFINE events == stream.flight
  <2>1. mid = events \o T!Output(chunk) /\ events \in Seq(T!Event) /\ NoEnds(events)
    BY <1>3
  <2> HIDE DEF mid, events
  <2>2. /\ mid \in Seq(T!Event) /\ NoEnds(mid)
        /\ \A text \in T!Text, start \in Nat : \A a \in 0 .. Len(text) :
             Delivers(events, text, start, a) /\ chunk = SubSeq(text, a + 1, Len(text))
               => Delivers(mid, text, start, Len(text))
    BY <1>2, <2>1, OutputSent
  <2> QED
    BY <2>2 DEF events
<1>5. T!Follows => Delivers(mid, Recorded, browser.offset, position)
  BY <1>2, <1>3, <1>4
<1> HIDE DEF mid
<1>6. CASE ~over
  <2>1. flight = mid
    BY <1>4, <1>6, ConcatEmptySeq
  <2>2. (~over) = TRUE
    BY <1>6
  <2> HIDE DEF flight, over
  <2>3. stream' = [stream EXCEPT !.position = position, !.flight = mid, !.open = TRUE]
    BY <1>1, <2>1, <2>2
  <2> QED
    BY <1>1, <1>2, <1>4, <1>5, <2>3, StreamWent DEF NoEnds
<1>7. CASE over
  <2> DEFINE status == stream.job.status
  <2>1. status \in {"idle", "done", "cancelled"} /\ flight = mid \o T!End(status)
    BY <1>7 DEF T!Finished
  <2>2. status = "done" => tJob.status = "done"
    BY <1>1, ViewerTyped DEF ViewersBehind
  <2>3. (~over) = FALSE
    BY <1>7
  <2> HIDE DEF flight, over, status
  <2>a. EndedBy(mid, flight, status)
    BY <1>4, <2>1, EndSent
  <2>4. /\ flight \in Seq(T!Event)
        /\ \A i \in 1 .. Len(flight) : flight[i].end # "no" =>
             i = Len(flight) /\ flight[i].chunk = <<>> /\ flight[i].end = status
        /\ \A text \in T!Text, start \in Nat : \A a \in 0 .. Len(text) :
             Delivers(mid, text, start, a) => Delivers(flight, text, start, a)
    BY <2>a DEF EndedBy
  <2>5. T!Follows => Delivers(flight, Recorded, browser.offset, position)
    <3> SUFFICES ASSUME T!Follows PROVE Delivers(flight, Recorded, browser.offset, position)
      OBVIOUS
    <3>1. position \in 0 .. Len(Recorded)
      BY <1>2
    <3> QED
      BY <1>3, <1>5, <2>4, <3>1
  <2>6. stream' = [stream EXCEPT !.position = position, !.flight = flight, !.open = FALSE]
    BY <1>1, <2>3
  <2>7. \A i \in 1 .. Len(flight) : flight[i].end # "no" =>
           /\ i = Len(flight) /\ ~FALSE /\ flight[i].chunk = <<>>
           /\ flight[i].end = "done" =>
                tJob.status = "done" /\ (T!Follows => position = Len(Recorded))
    BY <1>2, <2>2, <2>4
  <2> QED
    BY <1>1, <1>2, <2>4, <2>5, <2>6, <2>7, StreamWent
<1> QED
  BY <1>6, <1>7

LEMMA StreamIdled ==
  ASSUME TerminalInv, T!IdleOut, tJob' = tJob, worker' = worker, tFile' = tFile
  PROVE  Watched
<1> DEFINE flight == T!End("idle")
           position == stream.position
<1>1. /\ stream.open /\ ~stream.due /\ browser' = browser /\ stream.flight = <<>>
      /\ stream' = [stream EXCEPT !.flight = T!End("idle"), !.open = FALSE]
  BY DEF T!IdleOut
<1>v. /\ stream \in [open : BOOLEAN, due : BOOLEAN, position : Nat, flight : Seq(T!Event),
                   job : [status : T!Statuses, recording : 0 .. MaxSessions]]
  BY ViewerTyped
<1>2. stream' = [stream EXCEPT !.position = position, !.flight = flight, !.open = FALSE]
  BY <1>1, <1>v
<1>3. /\ browser.offset \in Nat /\ Recorded \in T!Text
      /\ <<>> \in Seq(T!Event) /\ NoEnds(<<>>) /\ position \in Nat
      /\ T!Follows => Delivers(<<>>, Recorded, browser.offset, position)
  BY <1>1, <1>v, FlightOpen
<1>4. flight = <<>> \o T!End("idle")
  BY DEF T!End
<1> DEFINE mid == <<>>
           status == "idle"
<1>b. mid \in Seq(T!Event) /\ NoEnds(mid) /\ status \in {"idle", "done", "cancelled"}
      /\ flight = mid \o T!End(status)
  BY <1>3, <1>4
<1> HIDE DEF flight, position, mid, status
<1>a. EndedBy(mid, flight, status)
  BY <1>b, EndSent
<1>5. /\ flight \in Seq(T!Event)
      /\ \A i \in 1 .. Len(flight) : flight[i].end # "no" =>
           i = Len(flight) /\ flight[i].chunk = <<>> /\ flight[i].end = "idle"
      /\ \A text \in T!Text, start \in Nat : \A a \in 0 .. Len(text) :
           Delivers(<<>>, text, start, a) => Delivers(flight, text, start, a)
  BY <1>a DEF EndedBy, mid, status
<1>6. T!Follows => Delivers(flight, Recorded, browser.offset, position)
  <2> SUFFICES ASSUME T!Follows PROVE Delivers(flight, Recorded, browser.offset, position)
    OBVIOUS
  <2>1. position \in 0 .. Len(Recorded)
    <3>1. browser.offset = position /\ Delivers(<<>>, Recorded, browser.offset, position)
      BY <1>3, DeliverEmpty
    <3> QED
      BY <1>3, <3>1, DeliverEnd
  <2> QED
    BY <1>3, <1>5, <2>1
<1>7. \A i \in 1 .. Len(flight) : flight[i].end # "no" =>
         /\ i = Len(flight) /\ ~FALSE /\ flight[i].chunk = <<>>
         /\ flight[i].end = "done" =>
              tJob.status = "done" /\ (T!Follows => position = Len(Recorded))
  BY <1>5
<1> QED
  BY <1>1, <1>2, <1>3, <1>5, <1>6, <1>7, StreamWent

LEMMA TerminalStep == TerminalInv /\ [T!Next]_T!vars => TerminalInv'
<1> SUFFICES ASSUME TerminalInv, [T!Next]_T!vars PROVE TerminalInv'
  OBVIOUS
<1>1. CASE T!Recording /\ stream' = stream /\ browser' = browser
  BY <1>1, WorkerKeeps
<1>2. CASE T!Watching /\ tJob' = tJob /\ worker' = worker /\ tFile' = tFile
  <2>1. Watched
    BY <1>2, JobAsked, Replayed, StreamOpened, Received, StreamDropped, JobPolled, FileTailed,
       StreamIdled DEF T!Watching
  <2>2. RecordingsOrdered'
    BY <1>2 DEF TerminalInv, RecordingsOrdered
  <2> QED
    BY <2>1, <2>2 DEF Watched, TerminalInv
<1>3. CASE /\ stream' = stream /\ browser' = browser
           /\ tJob' = tJob /\ worker' = worker /\ tFile' = tFile
  <2>1. T!TerminalTypeOK' /\ RecordingsOrdered' /\ ViewersBehind'
    BY <1>3 DEF TerminalInv, T!TerminalTypeOK, RecordingsOrdered, ViewersBehind, Copied, Safe, T!Follows
  <2>2. Recorded' = Recorded /\ (T!Follows' <=> T!Follows)
    BY <1>3 DEF Recorded, T!Follows
  <2>3. EndsLast' /\ Undistorted'
    BY <1>3, <2>2 DEF TerminalInv, EndsLast, Undistorted
  <2> QED
    BY <2>1, <2>3 DEF TerminalInv
<1> QED
  BY <1>1, <1>2, <1>3, Apart

\* Terminal: what the browser shows of one claim's session is its recording
\* from the start, without a gap or a repeated line, however often the
\* connection dropped, and once it is told the run is done it is the whole
\* recording (use-job-recording.ts:90-130, StreamTerminal.py:68-104).  Follows
\* leaves out a page that stays open into a later claim, whose session may go
\* into the same file after a requeue or a retry.
THEOREM RecordingShown == T!Spec => []ShowsRecording
<1>1. TerminalInv => ShowsRecording
  <2> SUFFICES ASSUME TerminalInv, T!Follows
               PROVE  /\ T!IsPrefix(browser.have, tFile[browser.of])
                      /\ browser.at = "ended" /\ browser.told = "done" =>
                           browser.have = tFile[browser.of]
    BY DEF ShowsRecording, T!ShowsRecording
  <2>1. /\ browser.have \in T!Text /\ browser.offset = Len(browser.have)
        /\ Recorded \in T!Text /\ browser.offset \in Nat /\ Len(Recorded) \in Nat
        /\ browser.offset <= Len(Recorded)
        /\ browser.have = SubSeq(Recorded, 1, browser.offset)
        /\ browser.at = "ended" /\ browser.told = "done" => browser.offset = Len(Recorded)
    BY ViewerTyped DEF Undistorted, T!Follows
  <2>2. SubSeq(Recorded, 1, Len(Recorded)) = Recorded
    BY <2>1, Joined
  <2>3. SubSeq(browser.have, 1, Len(browser.have)) = browser.have
    BY <2>1, Joined
  <2>4. T!IsPrefix(browser.have, Recorded)
    BY <2>1, <2>3 DEF T!IsPrefix
  <2> QED
    BY <2>1, <2>2, <2>4 DEF Recorded
<1> QED
  BY <1>1, TerminalInit, TerminalStep, PTL DEF T!Spec

-----------------------------------------------------------------------------
\* The parts of the desk side by side: each stays well typed.
THEOREM DeskTyped == W!Spec /\ O!Spec /\ K!Spec /\ B!Spec /\ T!Spec => []DeskTypeOK
<1>1. /\ WorkspaceInv => W!WorkspaceTypeOK
      /\ OpeningsInv => O!OpeningsTypeOK
      /\ TakeoffInv => K!TakeoffTypeOK
      /\ TerminalInv => T!TerminalTypeOK
  BY DEF WorkspaceInv, OpeningsInv, TakeoffInv, TerminalInv
<1> QED
  BY <1>1, WorkspaceStart, WorkspaceStep, OpeningsInit, OpeningsStep, TakeoffInit, TakeoffStep,
     TerminalInit, TerminalStep, BooksTyped, PTL
     DEF W!Spec, O!Spec, K!Spec, T!Spec, DeskTypeOK
=============================================================================
