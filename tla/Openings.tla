------------------------------ MODULE Openings ------------------------------
(***************************************************************************)
(* The openings of one bid.  An extraction writes a door schedule and its  *)
(* sync imports it: each scheduled door updates the opening it is matched  *)
(* to, or becomes a new one.  Meanwhile, and between one extraction and    *)
(* the next, the estimator edits, confirms, deletes and adds openings.     *)
(*                                                                         *)
(* The import reads the openings, asks for the lease once more, and sends  *)
(* one unordered bulk write, whose operations MongoDB performs one by one. *)
(* What the estimator does in between is not seen, and a second worker may *)
(* be importing too.                                                       *)
(***************************************************************************)
EXTENDS Naturals, FiniteSets

CONSTANTS
  Marks,      \* door marks
  Repeats,    \* bound: doors a schedule lists under one mark
  MaxRows,    \* bound: openings the bid may come to have
  MaxPasses,  \* bound: extractions
  Schedules,  \* bound: how often a schedule may list each mark
  Budget,     \* bound: how often the estimator does what, by kind
  MaxKinds    \* bound: kinds of estimator's actions in one behaviour

Passes == 1 .. MaxPasses
Ids    == 1 .. MaxRows
Kinds  == {"rename", "correct", "confirm", "delete", "add"}

VARIABLES
  rows,    \* the openings, by age
  pc,      \* where each extraction's import stands
  sched,   \* the door schedule each extraction wrote, and how it rates
  seen,    \* the openings as its import read them
  bulk,    \* its bulk write: the doors whose operation is still to come,
           \* whether one was refused, and (history) whether nobody else has
           \* written to the openings since they were read
  lease,   \* the extraction that holds the job's lease
  left,    \* what is left of Budget
  shaken   \* an opening was renamed or deleted, or an import wrote what it
           \* had read before a change

vars == <<rows, pc, sched, seen, bulk, lease, left, shaken>>

\* doorNumber: the mark and its number among the repeats.  text: the
\* extraction the opening's fields come from, 0 for the estimator.  status: a
\* duplicate is an opening that needs a look.
NoDoor == <<>>
Doors  == {NoDoor} \cup (Marks \X (1 .. Repeats))
Status == {"clear", "needs_look", "by_hand"}
Row    == [live : BOOLEAN, mark : Marks, door : Doors, text : {0} \cup Passes,
           status : Status, confirmed : BOOLEAN, hand : BOOLEAN]
Schedule == [count : [Marks -> 0 .. Repeats], status : Status \ {"by_hand"}]
Points == {"idle", "read", "check", "bulk", "landed", "failed", "over"}

Blank == [live |-> FALSE, mark |-> CHOOSE m \in Marks : TRUE, door |-> NoDoor, text |-> 0,
          status |-> "clear", confirmed |-> FALSE, hand |-> FALSE]
NoRows == [i \in Ids |-> Blank]
Empty  == [count |-> [m \in Marks |-> 0], status |-> "clear"]
NoBulk == [todo |-> {}, refused |-> FALSE, alone |-> FALSE]

Live(rs)     == {i \in Ids : rs[i].live}
Of(rs, m)    == {i \in Live(rs) : rs[i].mark = m}
Fresh(rs)    == {i \in Ids : rs[i] = Blank}
Goto(p, there) == pc' = [pc EXCEPT ![p] = there]
NewRow(rs)   == CHOOSE n \in Fresh(rs) : \A o \in Fresh(rs) : n <= o

\* Everyone but p has been disturbed.
Disturbed(p) == [q \in Passes |-> IF q = p THEN bulk[q] ELSE [bulk[q] EXCEPT !.alone = FALSE]]
Spend(kind) ==
  /\ left[kind] > 0
  /\ Cardinality({k \in Kinds \ {kind} : left[k] < Budget[k]}) < MaxKinds
  /\ left' = [left EXCEPT ![kind] = @ - 1]

Init ==
  /\ rows = NoRows
  /\ pc = [p \in Passes |-> "idle"]
  /\ sched = [p \in Passes |-> Empty]
  /\ seen = [p \in Passes |-> NoRows]
  /\ bulk = [p \in Passes |-> NoBulk]
  /\ lease = 0
  /\ left = Budget
  /\ shaken = FALSE

-----------------------------------------------------------------------------
(* Identity.                                                               *)

\* Mutant: the plain identity, every repeat under the key of the first.
PlainKeys(rs, m, k) == {i \in Of(rs, m) : \A j \in Of(rs, m) : i <= j}

\* distinct_keys over the stored openings, in the order of their age: the
\* opening a schedule's k-th door of this mark is matched to, if any.
distinct_keys(rs, m, k) ==
  {i \in Of(rs, m) : Cardinality({j \in Of(rs, m) : j <= i}) = k}

\* The unique index on (orgId, projectId, doorNumber).  The openings added by
\* hand carry an orgId and the imported ones none, so the two do not meet.
Taken(rs, i, door, hand) ==
  \E j \in Live(rs) \ {i} : rs[j].hand = hand /\ rs[j].door = door

-----------------------------------------------------------------------------
(* import_extraction.                                                      *)

\* Mutant: an opening is the estimator's while its status says so.
LooksClear(row) == row.status \in {"clear", "by_hand"}

\* confirmedAt or addedByHand: only the evidence is refreshed.
Kept(row) == row.confirmed \/ row.hand

Match(p, key) == distinct_keys(seen[p], key[1], key[2])

\* The doors the bulk write has an operation for that changes more than the
\* evidence: inserts, and updates of openings nobody has settled.
Operations(p) ==
  {key \in Marks \X (1 .. Repeats) :
     key[2] <= sched[p].count[key[1]] /\ \A i \in Match(p, key) : ~Kept(seen[p][i])}

\* An import that is over has nothing in hand.
Forgets(p, there) ==
  /\ Goto(p, there)
  /\ seen' = [seen EXCEPT ![p] = NoRows]
  /\ sched' = [sched EXCEPT ![p] = Empty]
  /\ bulk' = [bulk EXCEPT ![p] = NoBulk]

\* The job is claimed, by a new worker when an earlier one was reaped.
Begins(p) ==
  /\ \A q \in Passes : q < p => pc[q] # "idle"
  /\ pc[p] = "idle"
  /\ \E count \in Schedules, status \in Status \ {"by_hand"} :
       sched' = [sched EXCEPT ![p] = [count |-> count, status |-> status]]
  /\ lease' = p
  /\ Goto(p, "read")
  /\ UNCHANGED <<rows, seen, bulk, left, shaken>>

Aborts(p) ==
  /\ pc[p] \in {"read", "check"}
  /\ lease # p
  /\ Forgets(p, "over")
  /\ UNCHANGED <<rows, lease, left, shaken>>

Reads(p) ==
  /\ pc[p] = "read"
  /\ lease = p
  /\ seen' = [seen EXCEPT ![p] = rows]
  /\ bulk' = [bulk EXCEPT ![p].alone = TRUE]
  /\ Goto(p, "check")
  /\ UNCHANGED <<rows, sched, lease, left, shaken>>

HoldsLease(p) ==
  /\ pc[p] = "check"
  /\ lease = p
  /\ bulk' = [bulk EXCEPT ![p].todo = Operations(p)]
  /\ Goto(p, "bulk")
  /\ UNCHANGED <<rows, sched, seen, lease, left, shaken>>

\* The inserts go before the updates, and the repeats of a mark in their order.
Inserts(p) == {key \in bulk[p].todo : Match(p, key) = {}}

Due(p) ==
  LET first == IF Inserts(p) # {} THEN Inserts(p) ELSE bulk[p].todo
  IN {key \in first : \A other \in first : other[1] = key[1] => key[2] <= other[2]}

\* One operation: the door leaves the list, refused or not.
Performed(p, key, refused) ==
  /\ bulk' = [Disturbed(p) EXCEPT ![p].todo = @ \ {key}, ![p].refused = @ \/ refused]
  /\ shaken' = (shaken \/ ~bulk[p].alone)
  /\ UNCHANGED <<pc, sched, seen, lease, left>>

Insert(p, key) ==
  LET refused == Taken(rows, 0, key, FALSE)
  IN /\ pc[p] = "bulk"
     /\ key \in Due(p) /\ Match(p, key) = {}
     /\ refused \/ Fresh(rows) # {}
     /\ rows' = IF refused THEN rows
                ELSE [rows EXCEPT ![NewRow(rows)] =
                        [live |-> TRUE, mark |-> key[1], door |-> key, text |-> p,
                         status |-> sched[p].status, confirmed |-> FALSE, hand |-> FALSE]]
     /\ Performed(p, key, refused)

\* An opening that is gone by now matches nothing; one that was confirmed
\* since it was read is written all the same.
Update(p, key, i) ==
  LET refused == rows[i].live /\ Taken(rows, i, key, rows[i].hand)
  IN /\ pc[p] = "bulk"
     /\ key \in Due(p) /\ i \in Match(p, key)
     /\ rows' = IF refused \/ ~rows[i].live THEN rows
                ELSE [rows EXCEPT ![i].mark = key[1], ![i].door = key, ![i].text = p,
                                  ![i].status = sched[p].status]
     /\ Performed(p, key, refused)

\* An operation that was refused does not stop the rest, and raises at the end.
apply_bulk(p) ==
  /\ pc[p] = "bulk"
  /\ bulk[p].todo = {}
  /\ Forgets(p, IF bulk[p].refused THEN "failed" ELSE "landed")
  /\ UNCHANGED <<rows, lease, left, shaken>>

\* The review verdict of the extraction puts every clear opening back in
\* front of the estimator; what records the confirmation stays.
reopen_confirmed(p) ==
  /\ pc[p] = "landed"
  /\ \/ /\ rows' = [i \in Ids |-> IF rows[i].live /\ rows[i].status = "clear"
                                  THEN [rows[i] EXCEPT !.status = "needs_look"] ELSE rows[i]]
        /\ bulk' = Disturbed(p)
     \/ UNCHANGED <<rows, bulk>>
  /\ Goto(p, "over")
  /\ UNCHANGED <<sched, seen, lease, left, shaken>>

-----------------------------------------------------------------------------
(* The estimator.                                                          *)

Theirs(i) == rows[i].live
Estimates == bulk' = Disturbed(0) /\ UNCHANGED <<pc, sched, seen, lease>>

\* update_line_item: a field, or the mark itself; doorNumber stays what it was.
Corrects(i) ==
  /\ Theirs(i)
  /\ Spend("correct")
  /\ rows' = [rows EXCEPT ![i].text = 0]
  /\ UNCHANGED shaken
  /\ Estimates

Renames(i, m) ==
  /\ Theirs(i)
  /\ rows[i].mark # m
  /\ Spend("rename")
  /\ rows' = [rows EXCEPT ![i].text = 0, ![i].mark = m]
  /\ shaken' = TRUE
  /\ Estimates

\* confirm_line_item, a bulk confirm, or resolve_duplicate.
Confirmed(row) == [row EXCEPT !.status = "clear", !.confirmed = TRUE]

Confirms(set) ==
  /\ set # {} /\ set \subseteq Live(rows)
  /\ Spend("confirm")
  /\ rows' = [i \in Ids |-> IF i \in set THEN Confirmed(rows[i]) ELSE rows[i]]
  /\ UNCHANGED shaken
  /\ Estimates

Flagged == {i \in Live(rows) : rows[i].status = "needs_look"}

confirm_all == Confirms(Flagged)

\* delete_line_item, or a bulk delete.
Deletes(set) ==
  /\ set # {} /\ set \subseteq Live(rows)
  /\ Spend("delete")
  /\ rows' = [i \in Ids |-> IF i \in set THEN [rows[i] EXCEPT !.live = FALSE] ELSE rows[i]]
  /\ shaken' = TRUE
  /\ Estimates

\* add_line_item: confirmed on arrival.  A door number already added by hand
\* is refused by the index.
Adds(m) ==
  /\ Fresh(rows) # {}
  /\ ~Taken(rows, 0, <<m, 1>>, TRUE)
  /\ Spend("add")
  /\ rows' = [rows EXCEPT ![NewRow(rows)] =
       [live |-> TRUE, mark |-> m, door |-> <<m, 1>>, text |-> 0,
        status |-> "by_hand", confirmed |-> TRUE, hand |-> TRUE]]
  /\ UNCHANGED shaken
  /\ Estimates

Next ==
  \/ \E p \in Passes : \/ Begins(p) \/ Aborts(p) \/ Reads(p) \/ HoldsLease(p) \/ apply_bulk(p)
                       \/ reopen_confirmed(p)
                       \/ \E key \in bulk[p].todo :
                            Insert(p, key) \/ \E i \in Ids : Update(p, key, i)
  \/ \E i \in Ids : Corrects(i) \/ \E m \in Marks : Renames(i, m)
  \/ \E set \in {{i} : i \in Ids} : Confirms(set) \/ Deletes(set)
  \/ confirm_all
  \/ \E m \in Marks : Adds(m)

Spec == Init /\ [][Next]_vars

-----------------------------------------------------------------------------
(* Properties.                                                             *)

OpeningsTypeOK ==
  /\ rows \in [Ids -> Row]
  /\ pc \in [Passes -> Points]
  /\ sched \in [Passes -> Schedule]
  /\ seen \in [Passes -> [Ids -> Row]]
  /\ bulk \in [Passes -> [todo : SUBSET (Marks \X (1 .. Repeats)), refused : BOOLEAN,
                          alone : BOOLEAN]]
  /\ lease \in {0} \cup Passes
  /\ left \in [Kinds -> Nat]
  /\ shaken \in BOOLEAN

\* An import leaves every opening alone that was confirmed or added by hand
\* when it read them, also one an earlier review verdict has put back to
\* needs_look, whatever its schedule says of that door (door_schedule.py:202-209).
KeepsDecisions ==
  [][\A p \in Passes : pc[p] = "bulk" /\ bulk'[p].todo # bulk[p].todo =>
       \A i \in Live(rows) :
         seen[p][i].confirmed \/ seen[p][i].hand => rows'[i] = rows[i]]_vars

\* An import of what nobody has touched since it was read gives every
\* scheduled door one opening and no door a second one: a mark's openings
\* become as many as the schedule lists, never more on the next run.  And the
\* unique door number turns an import down only once an opening was renamed
\* or deleted, or changed under an import: repeats, openings added by hand
\* and repeated runs never make one fail (pass_files.py:27-36,
\* door_schedule.py:161-225, extraction/infrastructure/collections.py:46-55).
OneOpeningPerDoor ==
  [][\A p \in Passes : pc[p] = "bulk" /\ pc'[p] # "bulk" =>
       /\ pc'[p] = "failed" => shaken
       /\ pc'[p] = "landed" /\ bulk[p].alone =>
            \A m \in Marks :
              Cardinality(Of(rows, m)) =
                IF Cardinality(Of(seen[p], m)) < sched[p].count[m]
                THEN sched[p].count[m] ELSE Cardinality(Of(seen[p], m))]_vars

=============================================================================
