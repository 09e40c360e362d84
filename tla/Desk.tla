--------------------------------- MODULE Desk ---------------------------------
(***************************************************************************)
(* What the queue's lease does not tie together: the scratch of a pass     *)
(* (Workspace), the openings and their import (Openings), the take-off's   *)
(* working document (Takeoff), the price books (PriceBooks) and the        *)
(* watching of a run (Terminal).  The five share no variable.  Here they   *)
(* stand side by side, each with constants of its own, what is asked of    *)
(* the constants, and the properties that are checked and proved of them.  *)
(***************************************************************************)
EXTENDS Integers, Sequences, FiniteSets

CONSTANTS
  Marks,                                         \* door marks
  Files, Quote, MaxClaims, Disturbances, MaxDisturbances,           \* Workspace
  Repeats, MaxRows, MaxPasses, Schedules, Touches, MaxTouches,      \* Openings
  Found, Parses, MaxRuns, MaxActs,                                  \* Takeoff
  Books, PageCount, WindowPages, MaxUploads, MaxClock, Failures, MaxFailures,
  Parser, Searched,                                                 \* PriceBooks
  MaxSessions, MaxLines, MaxDrops                                   \* Terminal

VARIABLES
  live, scratch, made, base, wrote, onLive, rest, synced, wJob, wPc, wBudget,
  rows, sched, seen, bulk, lease, left, oPc, oShaken,
  clone, db, runs, acts, kSheet, kFile, kPc,
  book, index, pages, ijob, pjob, djob, clock, search, cache, bSheet, bShaken, bBudget,
  worker, stream, browser, drops, tJob, tFile

W == INSTANCE Workspace WITH
       MaxRuns <- MaxClaims, Budget <- Disturbances, MaxKinds <- MaxDisturbances,
       job <- wJob, pc <- wPc, budget <- wBudget

O == INSTANCE Openings WITH
       Budget <- Touches, MaxKinds <- MaxTouches, pc <- oPc, shaken <- oShaken

K == INSTANCE Takeoff WITH sheet <- kSheet, file <- kFile, pc <- kPc

B == INSTANCE PriceBooks WITH
       Budget <- Failures, MaxKinds <- MaxFailures,
       sheet <- bSheet, shaken <- bShaken, budget <- bBudget

T == INSTANCE Terminal WITH job <- tJob, file <- tFile

-----------------------------------------------------------------------------
(* The constants.                                                          *)

\* A job has its claims numbered, and a quote among its files.
ASSUME WorkspaceAssumption ==
  /\ MaxClaims \in Nat
  /\ Quote \in Files
  /\ Disturbances \in [W!Faults -> Nat]

\* A schedule lists each mark at most Repeats times.
ASSUME OpeningsAssumption ==
  /\ Marks # {} /\ Repeats \in Nat \ {0} /\ MaxRows \in Nat /\ MaxPasses \in Nat
  /\ Schedules \subseteq [Marks -> 0 .. Repeats]
  /\ Touches \in [O!Kinds -> Nat]

\* The parser reads marks; a row without one is told apart.
ASSUME TakeoffAssumption ==
  /\ K!NoMark \notin Marks
  /\ Found \subseteq Marks
  /\ Parses \subseteq Seq(Marks)
  /\ MaxRuns \in Nat /\ MaxActs \in Nat

\* A window has a page, and a sheet too.
ASSUME PriceBooksAssumption ==
  /\ DOMAIN PageCount # {} /\ IsFiniteSet(DOMAIN PageCount)
  /\ PageCount \in [DOMAIN PageCount -> Nat \ {0}]
  /\ "none" \notin DOMAIN PageCount
  /\ WindowPages \in Nat \ {0} /\ MaxUploads \in Nat /\ MaxClock \in Nat
  /\ Failures \in [B!Faults -> Nat]

ASSUME TerminalAssumption ==
  MaxSessions \in Nat /\ MaxLines \in Nat /\ MaxDrops \in Nat

-----------------------------------------------------------------------------
(* The properties.                                                         *)

\* Every part is well typed.
DeskTypeOK ==
  W!WorkspaceTypeOK /\ O!OpeningsTypeOK /\ K!TakeoffTypeOK /\ B!BooksTypeOK /\ T!TerminalTypeOK

\* What is synced is what the job's last claim wrote (Workspace).
SyncedIsOwn == W!SyncedIsOwn

\* Nothing of a dead claim is promoted by a later one (Workspace).
IsolatedFromTheDead == W!IsolatedFromTheDead

\* What the estimator settled before an import survives it (Openings).
KeepsDecisions == O!KeepsDecisions

\* A scheduled door has one opening after an import (Openings).
OneOpeningPerDoor == O!OneOpeningPerDoor

\* A reseed carries the numbered decisions across (Takeoff).
SeedKeepsNumbered == K!SeedKeepsNumbered

\* No invented box comes out of an import (Takeoff).
ImportedIsLocated == K!ImportedIsLocated

\* A parse that ends has stored every page of its sheet (PriceBooks).
ParsedIsWhole == B!ParsedIsWhole

\* A cached search is answered as a fresh one would be (PriceBooks).
ServedIsCurrent == B!ServedIsCurrent

\* The browser shows the recording without a gap, and all of it (Terminal).
ShowsRecording == T!ShowsRecording
=============================================================================
