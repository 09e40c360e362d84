------------------------------- MODULE Quote --------------------------------
(***************************************************************************)
(* The quote of one bid.  A pricing pass writes priced/line_items.json and *)
(* its sync imports it into the quote lines; the estimator adds, edits and *)
(* deletes lines, applies vendor prices, sets freight and tax, and writes  *)
(* the file back down.  Whoever changed something reprices: reads the      *)
(* quote, reads the lines, writes the lines that came out differently and  *)
(* then the totals, each blindly over what is there by then.               *)
(*                                                                         *)
(* A cost stands for cost and quantity, a rate for a margin; a price is    *)
(* the pair it is computed from, so that two prices are equal exactly when *)
(* they were computed from the same cost at the same margin.               *)
(***************************************************************************)
EXTENDS Naturals, FiniteSets, SequencesExt

CONSTANTS
  Keys,       \* line keys a pricing pass may give its lines
  MaxRows,    \* bound: quote lines the bid may come to have
  Costs,      \* costs, positive
  Rates,      \* margins, positive
  States,     \* ship-to states
  Files,      \* what passes leave behind: keys to [cost, margin], or
  Unreadable, \* a file that cannot be read
  Requests,   \* requests that change the quote
  Passes,     \* pricing passes that succeeded, in their order
  Edits,      \* what each of the requests may do
  Crowd       \* bound: requests and syncs under way at once

None == 0

\* What a pass leaves behind names lines by its own keys.
ASSUME QuoteAssumption ==
  /\ IsFiniteSet(Keys) /\ None \notin Keys /\ MaxRows \in Nat
  /\ Costs \subseteq Nat \ {0} /\ Rates \subseteq Nat \ {0} /\ Rates # {}
  /\ States # {} /\ {"unset", "NONE"} \cap States = {}
  /\ Passes \subseteq Nat \ {0} /\ Requests \cap Passes = {}
  /\ Crowd \in Nat
  /\ Files \subseteq {Unreadable} \cup
       UNION {[ks -> [cost : {None} \cup Costs, margin : {None} \cup Rates]] :
                ks \in SUBSET Keys}

Ids   == 1 .. MaxRows
Procs == Requests \cup Passes
NoSell == <<>>
Price == {NoSell} \cup (Costs \X Rates)

VARIABLES
  rows,   \* the quote lines, by age
  quote,  \* the stored totals, with freight and tax jurisdiction
  file,   \* priced/line_items.json: the lines in it, or Unreadable
  band,   \* the margin the framework gives a line without one
  ship,   \* the ship-to state of the bid
  ruled,  \* the jurisdiction the estimator has ruled, "unset" if none
  pc,     \* where each request and each pass's sync stands
  got,    \* what each of them has read; left: what its write has left
          \* behind, if it wrote over what it had read
  lease   \* the pass that holds the job's lease

vars == <<rows, quote, file, band, ship, ruled, pc, got, lease>>

\* key: lineKey, the row's own number for a line added by hand, None where no
\* line has been yet.  over: marginOverridden.  frozen: the rate of
\* marginSnapshot.
Key  == Keys \cup Ids
Line == [live : BOOLEAN, key : {None} \cup Key, hand : BOOLEAN, over : BOOLEAN,
         cost : {None} \cup Costs, margin : {None} \cup Rates,
         frozen : {None} \cup Rates, sell : Price]
Entry == [cost : {None} \cup Costs, margin : {None} \cup Rates]
Contents == UNION {[ks -> Entry] : ks \in SUBSET Key}
Totals == [sub : [Ids -> Price], freight : BOOLEAN,
           tax : {"unset", "NONE"} \cup States]

Gone == [live |-> FALSE, key |-> None, hand |-> FALSE, over |-> FALSE, cost |-> None,
         margin |-> None, frozen |-> None, sell |-> NoSell]
NoRows == [i \in Ids |-> Gone]
NoTotals == [sub |-> [i \in Ids |-> NoSell], freight |-> FALSE, tax |-> "unset"]
Nothing == [given |-> <<>>, rows |-> NoRows, quote |-> NoTotals, ship |-> "unset",
            band |-> None, left |-> NoRows, export |-> "no"]
Points == {"idle", "import", "rows", "check", "bulk", "quote", "lines", "write", "totals",
           "export", "over"}

Live  == {i \in Ids : rows[i].live}
Fresh == {i \in Ids : rows[i] = Gone}
Goto(p, there) == pc' = [pc EXCEPT ![p] = there]
Ends(p) == Goto(p, "over") /\ got' = [got EXCEPT ![p] = Nothing]
HoldsLease(p) == lease = p
Starts(p) == /\ pc[p] = "idle"
             /\ Cardinality({q \in Procs : pc[q] \notin {"idle", "over"}}) < Crowd

Init ==
  /\ rows = NoRows
  /\ quote = NoTotals
  /\ file = <<>>
  /\ band \in Rates
  /\ ship \in States
  /\ ruled = "unset"
  /\ pc = [p \in Procs |-> "idle"]
  /\ got = [p \in Procs |-> Nothing]
  /\ lease = None

-----------------------------------------------------------------------------
(* Repricing.                                                              *)

\* Mutant: a line that has no margin is given none.
StaysBlank(line, default) == line.margin

\* Mutant: without the snapshot, a margin equal to it is derived again.
Rederives(line, default) ==
  IF line.cost = None THEN line.margin
  ELSE IF line.margin \notin {None, line.frozen} THEN line.margin ELSE default

\* The frozen rate, unless somebody has written another margin since.
_resolve_margin(line, default) ==
  IF line.cost = None THEN line.margin
  ELSE IF line.frozen # None /\ line.margin \in {None, line.frozen} THEN line.frozen
  ELSE IF line.margin # None THEN line.margin ELSE default

price_line(cost, margin) == IF cost = None THEN NoSell ELSE <<cost, margin>>

reprice(line, default) ==
  LET applied == _resolve_margin(line, default)
  IN [line EXCEPT !.margin = applied, !.sell = price_line(line.cost, applied),
                  !.frozen = IF line.cost = None THEN @ ELSE applied]

\* Mutant: a line is rewritten when its margin came out differently.
MarginDiffers(line, priced) == line.margin # priced.margin

\* Only sell, extended and margin are compared.
Differs(line, priced) == <<line.sell, line.margin>> # <<priced.sell, priced.margin>>

\* A stored jurisdiction other than the ship-to state is taken for a ruling.
tax_state(state, stored) == IF stored # "unset" THEN stored ELSE state

ReadsQuote(p) ==
  /\ pc[p] = "quote"
  /\ got' = [got EXCEPT ![p].quote = quote]
  /\ Goto(p, "lines")
  /\ UNCHANGED <<rows, quote, file, band, ship, ruled, lease>>

lines_for(p) ==
  /\ pc[p] = "lines"
  /\ got' = [got EXCEPT ![p].rows = rows, ![p].band = band]
  /\ Goto(p, "write")
  /\ UNCHANGED <<rows, quote, file, band, ship, ruled, lease>>

Priced(p) == [i \in Ids |-> IF got[p].rows[i].live
                            THEN reprice(got[p].rows[i], got[p].band) ELSE Gone]

\* A line that is gone by now matches nothing.
WritesLines(p) ==
  /\ pc[p] = "write"
  /\ rows' = [i \in Ids |->
       IF rows[i].live /\ got[p].rows[i].live /\ Differs(got[p].rows[i], Priced(p)[i])
       THEN [rows[i] EXCEPT !.sell = Priced(p)[i].sell, !.margin = Priced(p)[i].margin,
                            !.frozen = Priced(p)[i].frozen]
       ELSE rows[i]]
  /\ got' = [got EXCEPT ![p].left = IF rows = got[p].rows THEN rows' ELSE NoRows]
  /\ Goto(p, "totals")
  /\ UNCHANGED <<quote, file, band, ship, ruled, lease>>

\* The totals carry the freight and the jurisdiction they were computed with.
WritesTotals(p) ==
  /\ pc[p] = "totals"
  /\ quote' = [sub |-> [i \in Ids |-> Priced(p)[i].sell], freight |-> got[p].quote.freight,
               tax |-> tax_state(got[p].ship, got[p].quote.tax)]
  /\ IF got[p].export = "no" THEN Ends(p) ELSE Goto(p, "export") /\ UNCHANGED got
  /\ UNCHANGED <<rows, file, band, ship, ruled, lease>>

-----------------------------------------------------------------------------
(* The file.                                                               *)

InFile == IF file = Unreadable THEN {} ELSE DOMAIN file
Stored == {rows[i].key : i \in Live}
Row(key) == CHOOSE i \in Live : rows[i].key = key /\ \A j \in Live : rows[j].key = key => j <= i

\* An unreadable file is refused; a file with lines is kept when there are
\* none to replace them, unless a line has just been deleted.
export_quote_lines(p) ==
  /\ pc[p] = "export"
  /\ file' = IF file = Unreadable \/ (Live = {} /\ got[p].export # "allow_empty")
             THEN file
             ELSE [key \in Stored |-> [cost |-> rows[Row(key)].cost,
                                       margin |-> rows[Row(key)].margin]]
  /\ Ends(p)
  /\ UNCHANGED <<rows, quote, band, ship, ruled, lease>>

\* A pass has promoted its file: what it was asked for, an empty shell, or
\* the file it was given with lines dropped from it.
Prices(p) ==
  /\ \A q \in Passes : q < p => pc[q] # "idle"
  /\ Starts(p)
  /\ \/ file' \in Files
     \/ \E kept \in SUBSET InFile : file' = [key \in kept |-> file[key]]
  /\ lease' = p
  /\ got' = [got EXCEPT ![p].ship = ship]
  /\ Goto(p, "import")
  /\ UNCHANGED <<rows, quote, band, ship, ruled>>

\* An empty file never wipes the lines: there is nothing to import, and the
\* sync reprices.
Imports(p) ==
  /\ pc[p] = "import"
  /\ IF ~HoldsLease(p) \/ file = Unreadable THEN Ends(p)
     ELSE IF InFile = {} THEN Goto(p, "quote") /\ UNCHANGED got
     ELSE Goto(p, "rows") /\ got' = [got EXCEPT ![p].given = file]
  /\ UNCHANGED <<rows, quote, file, band, ship, ruled, lease>>

ReadsRows(p) ==
  /\ pc[p] = "rows"
  /\ got' = [got EXCEPT ![p].rows = rows]
  /\ Goto(p, "check")
  /\ UNCHANGED <<rows, quote, file, band, ship, ruled, lease>>

Checks(p) ==
  /\ pc[p] = "check"
  /\ IF HoldsLease(p) THEN Goto(p, "bulk") /\ UNCHANGED got ELSE Ends(p)
  /\ UNCHANGED <<rows, quote, file, band, ship, ruled, lease>>

\* Of the lines read, the one a key stands for.
Known(p, key) == {i \in Ids : /\ got[p].rows[i].live /\ got[p].rows[i].key = key
                              /\ \A j \in Ids : got[p].rows[j].live /\ got[p].rows[j].key = key
                                                => j <= i}
PricedKeys(p) == DOMAIN got[p].given
Standing(p) == UNION {Known(p, key) : key \in Key}

\* Mutant: only a line added by hand is the estimator's.
HandOnly(line) == line.hand

\* Only the provenance of these is refreshed.
Protected(line) == line.over \/ line.hand

Follows(p, i) == i \in Standing(p) /\ rows[i].live

Drops(p, i) == /\ Follows(p, i) /\ rows[i].key \notin PricedKeys(p)
               /\ ~got[p].rows[i].hand

Updates(p, i) == /\ Follows(p, i) /\ rows[i].key \in PricedKeys(p)
                 /\ ~Protected(got[p].rows[i])

\* The price a pass writes along with a margin is the one that follows.
Taken(line, entry) ==
  [line EXCEPT !.cost = entry.cost, !.margin = entry.margin,
     !.sell = IF entry.margin = None THEN NoSell ELSE price_line(entry.cost, entry.margin)]

NewKeys(p) == SetToSeq({key \in PricedKeys(p) : Known(p, key) = {}})
NewRow(p, i) == Cardinality({j \in Fresh : j <= i})

Bulk(p) ==
  /\ pc[p] = "bulk"
  /\ Len(NewKeys(p)) <= Cardinality(Fresh)
  /\ rows' = [i \in Ids |->
       IF i \in Fresh /\ NewRow(p, i) <= Len(NewKeys(p))
       THEN LET key == NewKeys(p)[NewRow(p, i)]
            IN Taken([Gone EXCEPT !.live = TRUE, !.key = key], got[p].given[key])
       ELSE IF Drops(p, i) THEN [rows[i] EXCEPT !.live = FALSE]
       ELSE IF Updates(p, i) THEN Taken(rows[i], got[p].given[rows[i].key])
       ELSE rows[i]]
  /\ Goto(p, "quote")
  /\ got' = [got EXCEPT ![p].given = <<>>]
  /\ UNCHANGED <<quote, file, band, ship, ruled, lease>>

-----------------------------------------------------------------------------
(* The estimator.                                                          *)

\* A request has loaded the bid and makes its change; then it reprices.
Asks(r, edit, export) ==
  /\ Starts(r)
  /\ edit \in Edits[r]
  /\ got' = [got EXCEPT ![r].ship = ship, ![r].export = export]
  /\ Goto(r, "quote")
  /\ UNCHANGED <<file, band, ship, lease>>

add_line(r, cost, margin) ==
  /\ Asks(r, "add", "no")
  /\ Fresh # {}
  /\ LET i == CHOOSE n \in Fresh : \A o \in Fresh : n <= o
     IN rows' = [rows EXCEPT ![i] = [Gone EXCEPT !.live = TRUE, !.key = i, !.hand = TRUE,
                                                 !.cost = cost, !.margin = margin]]
  /\ UNCHANGED <<quote, ruled>>

\* update_line with a margin, with a cost, or an applied vendor price.
Overrides(r, i, margin) ==
  /\ Asks(r, "margin", "no")
  /\ i \in Live
  /\ rows' = [rows EXCEPT ![i].margin = margin, ![i].over = TRUE]
  /\ UNCHANGED <<quote, ruled>>

Recosts(r, i, cost) ==
  /\ Asks(r, "cost", "no")
  /\ i \in Live
  /\ rows' = [rows EXCEPT ![i].cost = cost]
  /\ UNCHANGED <<quote, ruled>>

delete_line(r, i) ==
  /\ Asks(r, "delete", "allow_empty")
  /\ i \in Live
  /\ rows' = [rows EXCEPT ![i].live = FALSE]
  /\ UNCHANGED <<quote, ruled>>

\* update_settings: freight, or the jurisdiction.
SetsFreight(r) ==
  /\ Asks(r, "freight", "no")
  /\ quote' = [quote EXCEPT !.freight = ~@]
  /\ UNCHANGED <<rows, ruled>>

RulesTax(r, where) ==
  /\ Asks(r, "tax", "no")
  /\ quote' = [quote EXCEPT !.tax = where]
  /\ ruled' = where
  /\ UNCHANGED rows

continue_to_proposal(r) ==
  /\ Asks(r, "continue", "yes")
  /\ UNCHANGED <<rows, quote, ruled>>

\* Elsewhere the margin framework is edited, or the bid's ship-to state; nobody
\* reprices.
Elsewhere(r, edit) ==
  /\ pc[r] = "idle"
  /\ edit \in Edits[r]
  /\ Ends(r)
  /\ UNCHANGED <<rows, quote, file, ruled, lease>>

update_margins(r, rate) ==
  /\ Elsewhere(r, "margins")
  /\ band # rate /\ band' = rate
  /\ UNCHANGED ship

update_project(r, state) ==
  /\ Elsewhere(r, "project")
  /\ ship # state /\ ship' = state
  /\ UNCHANGED band

Next ==
  \/ \E p \in Procs : \/ ReadsQuote(p) \/ lines_for(p) \/ WritesLines(p) \/ WritesTotals(p)
                      \/ export_quote_lines(p)
  \/ \E p \in Passes : Prices(p) \/ Imports(p) \/ ReadsRows(p) \/ Checks(p) \/ Bulk(p)
  \/ \E r \in Requests :
       \/ \E cost \in {None} \cup Costs, margin \in {None} \cup Rates : add_line(r, cost, margin)
       \/ \E i \in Ids : \/ delete_line(r, i)
                         \/ \E margin \in Rates : Overrides(r, i, margin)
                         \/ \E cost \in Costs : Recosts(r, i, cost)
       \/ SetsFreight(r) \/ continue_to_proposal(r)
       \/ \E where \in {"NONE"} \cup States : RulesTax(r, where)
       \/ \E rate \in Rates : update_margins(r, rate)
       \/ \E state \in States : update_project(r, state)

Spec == Init /\ [][Next]_vars

-----------------------------------------------------------------------------
(* Properties.                                                             *)

QuoteTypeOK ==
  /\ rows \in [Ids -> Line]
  /\ quote \in Totals
  /\ file \in {Unreadable} \cup Contents
  /\ band \in Rates /\ ship \in States
  /\ ruled \in {"unset", "NONE"} \cup States
  /\ pc \in [Procs -> Points]
  /\ \A p \in Procs : /\ got[p].given \in Contents /\ got[p].rows \in [Ids -> Line]
                     /\ got[p].quote \in Totals
  /\ lease \in {None} \cup Passes

\* An import removes no line that was added by hand, before or after it read
\* the lines, and writes no cost or margin over one that was added by hand or
\* whose margin was overridden when it did (priced_lines.py:150-204).
HandWorkSurvives ==
  [][\A p \in Passes : pc[p] = "bulk" /\ pc'[p] # "bulk" =>
       \A i \in Live :
         /\ rows[i].hand => rows'[i] = rows[i]
         /\ got[p].rows[i].over => rows'[i] \in {rows[i], [rows[i] EXCEPT !.live = FALSE]}]_vars

Settled(line) == /\ line.cost # None /\ line.frozen \in {None, line.margin}
                 /\ line.sell = <<line.cost, line.margin>>

\* A price that was settled moves by nobody's repricing: not because the margin
\* framework was edited, not because somebody else's line changed.  A repricing
\* that read the line as it still is leaves it as it is (quote.py:84-124,
\* "frozen, unchanged").
QuotedPriceStands ==
  [][\A p \in Procs : pc[p] = "write" /\ pc'[p] # "write" =>
       \A i \in Live : Settled(rows[i]) /\ got[p].rows[i] = rows[i] =>
                         rows'[i].sell = rows[i].sell /\ rows'[i].margin = rows[i].margin]_vars

\* A repricing nobody interferes with leaves lines and totals in agreement,
\* whatever earlier races left behind: every line stored at the price of its
\* cost and margin, and the totals rolled up from just these
\* (quote.py:184-224, 246-295).
TotalsMatch ==
  [][\A p \in Procs :
       pc[p] = "totals" /\ pc'[p] # "totals" /\ rows = got[p].left =>
         \A i \in Ids :
            /\ i \in Live => rows[i].sell = price_line(rows[i].cost, rows[i].margin)
            /\ quote'.sub[i] = IF i \in Live THEN rows[i].sell ELSE NoSell]_vars

\* Unless the estimator has ruled otherwise, a repricing puts the quote under
\* the ship-to state of its bid, as it was when the repricing loaded the bid
\* (quote.py:66-81).
ShipToDecides ==
  [][\A p \in Procs : pc[p] = "totals" /\ pc'[p] # "totals" /\ ruled = "unset" =>
       quote'.tax = got[p].ship]_vars

=============================================================================
