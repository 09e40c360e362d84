-------------------------------- MODULE MCDesk --------------------------------
(* Small instances of the parts of Desk.  They share no variable, so nothing *)
(* is learnt from interleaving them: the initial state picks the part that   *)
(* moves, and the others stay in an initial state of theirs.  The price      *)
(* books move twice: indexed and searched, with no parser, and parsed, with  *)
(* nobody searching and one description at most.                             *)
EXTENDS Desk, TLC

CONSTANTS d1, d2

VARIABLE part

workspace == <<live, scratch, made, base, wrote, onLive, rest, synced, wJob, wPc, wBudget>>
openings  == <<rows, sched, seen, bulk, lease, left, oPc, oShaken>>
takeoff   == <<clone, db, runs, acts, kSheet, kFile, kPc>>
books     == <<book, index, pages, ijob, pjob, djob, clock, search, cache, bSheet, bShaken,
               bBudget>>
terminal  == <<worker, stream, browser, drops, tJob, tFile>>

\* Two artifacts; two crashes, or one disturbance of another kind.
Artifacts == {"openings", "lines"}
Disturbed == [crash |-> 2, stall |-> 1, export |-> 1, unprepared |-> 1]

\* A door listed twice, or another in its place; each of the estimator's acts.
Listed == {(d1 :> 2) @@ (d2 :> 0), (d1 :> 0) @@ (d2 :> 1)}
Edited == [kind \in {"rename", "correct", "confirm", "delete", "add"} |-> 1]

\* A page that reads as no door, one, or the same one twice.
Read == {<<>>, <<d1>>, <<d1, d1>>}

\* Sheets of one page and of three, and one fault of each kind.
Sizes == ("new" :> 1) @@ ("old" :> 3)
Once  == [kind \in {"crash", "mineru", "short"} |-> 1]

I == INSTANCE PriceBooks WITH
       Budget <- Failures, MaxKinds <- MaxFailures, Parser <- FALSE, Searched <- TRUE,
       sheet <- bSheet, shaken <- bShaken, budget <- bBudget
P == INSTANCE PriceBooks WITH
       Budget <- Failures, MaxKinds <- MaxFailures, Searched <- FALSE, MaxClock <- 1,
       sheet <- bSheet, shaken <- bShaken, budget <- bBudget

Parts == {"workspace", "openings", "takeoff", "indexing", "parsing", "terminal"}

Init ==
  /\ part \in Parts
  /\ W!Init /\ (part # "workspace" => \A f \in Files : synced[f] = W!Absent)
  /\ O!Init
  /\ K!Init /\ (part # "takeoff" => kSheet = [parsed |-> <<>>, candidate |-> FALSE])
  /\ B!Init /\ (part \notin {"indexing", "parsing"} => book[d2].multiplier)
  /\ T!Init

Next ==
  /\ UNCHANGED part
  /\ \/ part = "workspace" /\ W!Next /\ UNCHANGED <<openings, takeoff, books, terminal>>
     \/ part = "openings" /\ O!Next /\ UNCHANGED <<workspace, takeoff, books, terminal>>
     \/ part = "takeoff" /\ K!Next /\ UNCHANGED <<workspace, openings, books, terminal>>
     \/ part = "indexing" /\ I!Next /\ UNCHANGED <<workspace, openings, takeoff, terminal>>
     \/ part = "parsing" /\ P!Next /\ UNCHANGED <<workspace, openings, takeoff, terminal>>
     \/ part = "terminal" /\ T!Next /\ UNCHANGED <<workspace, openings, takeoff, books>>

vars == <<part, workspace, openings, takeoff, books, terminal>>
Spec == Init /\ [][Next]_vars
=============================================================================
