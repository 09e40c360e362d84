------------------------------ MODULE Learning ------------------------------
(***************************************************************************)
(* What estimators teach the matcher.  Correcting the part of a line adds  *)
(* an event; a drain reads the events not yet applied, oldest first, folds *)
(* each into the row of its specification, and only then marks the ones it *)
(* read.  Every pass that ends drains, whichever bid it is of, and so does *)
(* an operator: several drains may run at once, and each may die between   *)
(* any two of its writes.                                                  *)
(*                                                                         *)
(* Only events of MATCH_EVENTS are in the queue.  Of these the program     *)
(* records corrections only, so matchRejected is left out.                 *)
(***************************************************************************)
EXTENDS Integers, Sequences, FiniteSetsExt

CONSTANTS
  Specs,      \* specifications, by their spec_key
  Items,      \* catalog rows
  MaxEvents,  \* bound: corrections made
  Drains,     \* bound: drains
  Limit,      \* events a drain reads
  MaxCrashes  \* bound: drains that die

Nowhere == 0  \* no catalog row

VARIABLES
  events,   \* feedbackEvents, in the order they occurred
  learned,  \* matchLearning: the row of each specification
  drain,    \* where each drain stands
  crossed,  \* two drains have been under way at once
  crashes

vars == <<events, learned, drain, crossed, crashes>>

Untaught == [item |-> Nowhere, confirms |-> 0, sources |-> {}]
Queue    == {i \in DOMAIN events : ~events[i].applied}
Resting  == [at |-> "idle", batch |-> {}, todo |-> {}]
Under    == {d \in Drains : drain[d].at \notin {"idle", "over"}}

Init ==
  /\ events = <<>>
  /\ learned = [s \in Specs |-> Untaught]
  /\ drain = [d \in Drains |-> Resting]
  /\ crossed = FALSE
  /\ crashes = 0

\* record_edits for a changed part: what was specified, and the catalog row the
\* new part is found under, if there is one.
record(s, item) ==
  /\ Len(events) < MaxEvents
  /\ events' = Append(events, [spec |-> s, item |-> item, applied |-> FALSE])
  /\ UNCHANGED <<learned, drain, crossed, crashes>>

-----------------------------------------------------------------------------
(* A drain: apply_to_learning.                                             *)

\* The oldest events come first, and at most as many as the limit allows.
Oldest(S) == {i \in S : Cardinality({j \in S : j < i}) < Limit}

unapplied(d) ==
  /\ drain[d].at = "idle"
  /\ Queue # {}
  /\ drain' = [drain EXCEPT ![d] = [at |-> "apply", batch |-> Oldest(Queue), todo |-> Oldest(Queue)]]
  /\ crossed' = (crossed \/ Under # {})
  /\ UNCHANGED <<events, learned, crashes>>

\* The row takes the item of the event; a replayed event is counted again.
Confirmed(row, e) ==
  [item |-> events[e].item, confirms |-> row.confirms + 1, sources |-> row.sources \cup {e}]

\* resolve_item, then confirm, of the oldest that is left: an event that leads
\* to no row teaches nothing.
confirm(d) ==
  /\ drain[d].at = "apply"
  /\ LET e    == Min(drain[d].todo)
         left == drain[d].todo \ {e}
     IN /\ learned' = IF events[e].item = Nowhere THEN learned
                      ELSE [learned EXCEPT ![events[e].spec] = Confirmed(@, e)]
        /\ drain' = [drain EXCEPT ![d].todo = left,
                                  ![d].at = IF left = {} THEN "mark" ELSE @]
  /\ UNCHANGED <<events, crossed, crashes>>

\* Mutant: the queue is marked, not what was read of it.
WholeQueue(d) == DOMAIN events

Drained(d) == drain[d].batch

mark_applied(d) ==
  /\ drain[d].at = "mark"
  /\ events' = [i \in DOMAIN events |->
                  IF i \in Drained(d) THEN [events[i] EXCEPT !.applied = TRUE] ELSE events[i]]
  /\ drain' = [drain EXCEPT ![d] = [Resting EXCEPT !.at = "over"]]
  /\ UNCHANGED <<learned, crossed, crashes>>

\* The process is killed, or MongoDB fails the drain; the pass goes on.
Dies(d) ==
  /\ d \in Under
  /\ crashes < MaxCrashes
  /\ crashes' = crashes + 1
  /\ drain' = [drain EXCEPT ![d] = [Resting EXCEPT !.at = "over"]]
  /\ UNCHANGED <<events, learned, crossed>>

Next ==
  \/ \E s \in Specs, item \in Items \cup {Nowhere} : record(s, item)
  \/ \E d \in Drains : unapplied(d) \/ confirm(d) \/ mark_applied(d) \/ Dies(d)

Spec == Init /\ [][Next]_vars

-----------------------------------------------------------------------------
(* Properties.                                                             *)

LearningTypeOK ==
  /\ \A i \in DOMAIN events : events[i] \in [spec : Specs, item : Items \cup {Nowhere},
                                             applied : BOOLEAN]
  /\ \A s \in Specs : /\ learned[s].item \in Items \cup {Nowhere}
                      /\ learned[s].sources \subseteq DOMAIN events
  /\ \A d \in Drains : drain[d].todo \subseteq drain[d].batch
                         /\ drain[d].batch \subseteq DOMAIN events

Lessons(s) == {i \in DOMAIN events : events[i].spec = s /\ events[i].item # Nowhere}

\* No lesson is lost: what is marked has been taught, whatever was recorded
\* while a drain ran and wherever one died.  And "the last word is the most
\* recent one": once all is marked, a specification means what its latest
\* correction says, after any replay - as long as no two drains overlapped
\* (feedback.py:118-137, 141-193).
LessonsKept ==
  \A s \in Specs :
    /\ \A i \in Lessons(s) : events[i].applied => i \in learned[s].sources
    /\ Queue = {} /\ Under = {} /\ ~crossed /\ Lessons(s) # {} =>
         learned[s].item = events[Max(Lessons(s))].item
=============================================================================
