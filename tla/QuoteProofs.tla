----------------------------- MODULE QuoteProofs -----------------------------
(***************************************************************************)
(* The quote of a bid under any number of requests and pricing passes that *)
(* overlap: hand work survives an import, a settled price survives a       *)
(* repricing, and lines and totals agree after an undisturbed one.         *)
(*                                                                         *)
(* What an import may do to a line depends on what the line was when it    *)
(* read it.  So the proof is about rows keeping their identity: once a     *)
(* line has been in a row, the row stays that line's, deleted or not.      *)
(***************************************************************************)
EXTENDS Quote, FiniteSetTheorems, TLAPS

\* What a request or a sync has in hand.
Grip == [given : Contents, rows : [Ids -> Line], quote : Totals, ship : {"unset"} \cup States,
         band : {None} \cup Rates, left : [Ids -> Line],
         export : {"no", "yes", "allow_empty"}]

FileOK(content) == content \in {Unreadable} \cup Contents

\* Every line has a key, and a row that a line was read from is still its row.
Keyed == \A i \in Ids : rows[i].live => rows[i].key # None

SameLine(line, row) == line.live => row.key # None /\ row.hand = line.hand

Same == \A p \in Procs : \A i \in Ids : SameLine(got[p].rows[i], rows[i])

\* Nobody reprices without the margin of the framework.
Banded(there, grip) == there \in {"write", "totals"} => grip.band \in Rates

PricedIn(grip, i) == IF grip.rows[i].live THEN reprice(grip.rows[i], grip.band) ELSE Gone

\* What a write that nobody disturbed has left behind is priced, as it was in
\* hand.
Agrees(grip) ==
  \A i \in Ids :
    /\ grip.left[i].live = grip.rows[i].live
    /\ grip.left[i].live =>
         /\ grip.left[i].sell = PricedIn(grip, i).sell
         /\ grip.left[i].sell = price_line(grip.left[i].cost, grip.left[i].margin)

Rolled(there, grip) == there = "totals" => grip.left = NoRows \/ Agrees(grip)

QuoteInv ==
  /\ QuoteTypeOK
  /\ got \in [Procs -> Grip]
  /\ Keyed
  /\ Same
  /\ \A p \in Procs : Banded(pc[p], got[p]) /\ Rolled(pc[p], got[p])

-----------------------------------------------------------------------------
(* Operators.                                                              *)

\* What a file holds, and what it is made of.
LEMMA FileHolds ==
  /\ <<>> \in Contents
  /\ \A ks \in SUBSET Key : \A f \in [ks -> Entry] : f \in Contents
  /\ \A f \in Contents : /\ DOMAIN f \in SUBSET Key
                         /\ \A key \in DOMAIN f : f[key] \in Entry
<1>1. <<>> \in [{} -> Entry]
  OBVIOUS
<1>2. \A ks \in SUBSET Key : \A f \in [ks -> Entry] : f \in Contents
  BY DEF Contents
<1>3. ASSUME NEW f \in Contents
      PROVE  DOMAIN f \in SUBSET Key /\ \A key \in DOMAIN f : f[key] \in Entry
  <2>1. PICK ks \in SUBSET Key : f \in [ks -> Entry]
    BY DEF Contents
  <2> QED
    BY <2>1
<1> QED
  BY <1>1, <1>2, <1>3

LEMMA SharpTypes ==
  /\ Gone \in Line /\ NoRows \in [Ids -> Line] /\ NoTotals \in Totals /\ Nothing \in Grip
  /\ None \notin Key
  /\ \A i \in Ids : i \in Nat \ {0}
<1>1. Gone \in Line
  BY DEF Gone, Line, Price
<1>2. NoTotals \in Totals
  BY DEF NoTotals, Totals, Price
<1>3. None \notin Key /\ \A i \in Ids : i \in Nat \ {0}
  BY QuoteAssumption DEF Key, Ids, None
<1>4. NoRows \in [Ids -> Line]
  BY <1>1 DEF NoRows
<1> QED
  BY <1>1, <1>2, <1>3, <1>4, FileHolds DEF Nothing, Grip

\* A nonempty finite set of numbers has a smallest and a largest element.
LEMMA Extremes ==
  ASSUME NEW S \in SUBSET Nat, IsFiniteSet(S), S # {}
  PROVE  /\ \E n \in S : \A m \in S : m <= n
         /\ \E n \in S : \A m \in S : n <= m
<1>1. \A T \in SUBSET S : IsFiniteSet(T)
  BY FS_Subset
<1>2. ASSUME NEW C \in SUBSET SUBSET S, C # {}
      PROVE  \E A \in C : \A B \in C : ~(B \subseteq A /\ B # A)
  <2>1. IsWellFoundedOn(StrictSubsetOrdering(S), FiniteSubsetsOf(S))
    BY FS_StrictSubsetOrderingWellFounded
  <2>2. C \subseteq FiniteSubsetsOf(S)
    BY <1>1, <1>2 DEF FiniteSubsetsOf
  <2>3. \E A \in C : \A B \in C : ~(<<B, A>> \in StrictSubsetOrdering(S))
    BY ONLY <1>2, <2>1, <2>2, WFMin, Zenon
  <2>4. \A A, B \in C : B \subseteq A /\ B # A => <<B, A>> \in StrictSubsetOrdering(S)
    BY <1>2 DEF StrictSubsetOrdering
  <2> QED
    BY <2>3, <2>4
<1> DEFINE Up(n) == {m \in S : n <= m}
           Down(n) == {m \in S : m <= n}
<1>3. \E n \in S : \A m \in S : m <= n
  <2>1. {Up(n) : n \in S} # {} /\ {Up(n) : n \in S} \in SUBSET SUBSET S
    OBVIOUS
  <2>2. PICK A \in {Up(n) : n \in S} : \A B \in {Up(n) : n \in S} : ~(B \subseteq A /\ B # A)
    BY <1>2, <2>1
  <2>3. PICK n \in S : A = Up(n)
    BY <2>2
  <2>4. n \in Nat /\ \A m \in S : m \in Nat
    OBVIOUS
  <2>5. ASSUME NEW m \in S, n < m
        PROVE  FALSE
    <3>1. \A k \in S : m <= k => n <= k
      BY <2>4, <2>5
    <3>2. n <= n /\ ~(m <= n)
      BY <2>4, <2>5
    <3>3. Up(m) \subseteq Up(n)
      BY <3>1
    <3>4. n \in Up(n) /\ n \notin Up(m)
      BY <3>2
    <3>5. Up(m) \in {Up(o) : o \in S}
      OBVIOUS
    <3> HIDE DEF Up
    <3> QED
      BY <2>2, <2>3, <3>3, <3>4, <3>5
  <2> QED
    BY <2>4, <2>5
<1>4. \E n \in S : \A m \in S : n <= m
  <2>1. {Down(n) : n \in S} # {} /\ {Down(n) : n \in S} \in SUBSET SUBSET S
    OBVIOUS
  <2>2. PICK A \in {Down(n) : n \in S} :
          \A B \in {Down(n) : n \in S} : ~(B \subseteq A /\ B # A)
    BY <1>2, <2>1
  <2>3. PICK n \in S : A = Down(n)
    BY <2>2
  <2>4. n \in Nat /\ \A m \in S : m \in Nat
    OBVIOUS
  <2>5. ASSUME NEW m \in S, m < n
        PROVE  FALSE
    <3>1. \A k \in S : k <= m => k <= n
      BY <2>4, <2>5
    <3>2. n <= n /\ ~(n <= m)
      BY <2>4, <2>5
    <3>3. Down(m) \subseteq Down(n)
      BY <3>1
    <3>4. n \in Down(n) /\ n \notin Down(m)
      BY <3>2
    <3>5. Down(m) \in {Down(o) : o \in S}
      OBVIOUS
    <3> HIDE DEF Down
    <3> QED
      BY <2>2, <2>3, <3>3, <3>4, <3>5
  <2> QED
    BY <2>4, <2>5
<1> QED
  BY <1>3, <1>4

LEMMA RowsFinite == IsFiniteSet(Ids) /\ IsFiniteSet(Key) /\ Ids \subseteq Nat
<1>1. IsFiniteSet(Ids) /\ Ids \subseteq Nat
  BY QuoteAssumption, FS_Interval DEF Ids
<1> QED
  BY <1>1, QuoteAssumption, FS_Union DEF Key

\* The keys of a set, one after the other.
LEMMA Listed ==
  ASSUME NEW S, IsFiniteSet(S)
  PROVE  /\ Len(SetToSeq(S)) \in Nat
         /\ \A n \in 1 .. Len(SetToSeq(S)) : SetToSeq(S)[n] \in S
<1>1. Cardinality(S) \in Nat /\ ExistsBijection(1 .. Cardinality(S), S)
  BY FS_CardinalityType
<1>2. \E f \in [1 .. Cardinality(S) -> S] : IsInjective(f)
  BY <1>1 DEF ExistsBijection, Bijection, Injection, IsInjective
<1>3. SetToSeq(S) \in [1 .. Cardinality(S) -> S]
  BY <1>2 DEF SetToSeq, IsInjective
<1> QED
  BY <1>1, <1>3

\* A repriced line is the same line, at the price of its cost and its margin.
LEMMA Reprices ==
  ASSUME NEW line \in Line, NEW default \in Rates
  PROVE  LET priced == reprice(line, default)
         IN  /\ priced \in Line
             /\ priced.live = line.live /\ priced.cost = line.cost
             /\ priced.sell = price_line(line.cost, priced.margin)
<1> DEFINE applied == _resolve_margin(line, default)
<1>1. line.cost = None => applied = line.margin
  BY DEF _resolve_margin
<1>2. line.cost # None => applied \in Rates
  BY DEF _resolve_margin, Line, None
<1>3. applied \in {None} \cup Rates
  BY <1>1, <1>2 DEF Line
<1>4. price_line(line.cost, applied) \in Price
  BY <1>1, <1>2 DEF price_line, Price, Line
<1> HIDE DEF applied
<1>5. (IF line.cost = None THEN line.frozen ELSE applied) \in {None} \cup Rates
  BY <1>3 DEF Line
<1>6. reprice(line, default) =
        [line EXCEPT !.margin = applied, !.sell = price_line(line.cost, applied),
                     !.frozen = IF line.cost = None THEN line.frozen ELSE applied]
  BY DEF reprice, applied
<1> QED
  BY <1>3, <1>4, <1>5, <1>6 DEF Line

\* A line taken from the file is the line it was, at the file's cost.
LEMMA Takes ==
  ASSUME NEW line \in Line, NEW entry \in Entry
  PROVE  /\ Taken(line, entry) \in Line
         /\ Taken(line, entry).live = line.live
         /\ Taken(line, entry).key = line.key
         /\ Taken(line, entry).hand = line.hand
<1> DEFINE sold == IF entry.margin = None THEN NoSell ELSE price_line(entry.cost, entry.margin)
<1>1. sold \in Price
  BY DEF Entry, Price, price_line
<1>2. Taken(line, entry) = [line EXCEPT !.cost = entry.cost, !.margin = entry.margin,
                                        !.sell = sold]
  BY DEF Taken
<1> HIDE DEF sold
<1> QED
  BY <1>1, <1>2 DEF Line, Entry

-----------------------------------------------------------------------------
(* What a step does to the rows, to what is around them, and to the one      *)
(* request or sync that takes it.                                          *)

\* A row that has had a line keeps its key and its origin.
RowsKept ==
  \A i \in Ids :
    /\ rows'[i].live => rows'[i].key # None
    /\ rows[i].key # None => rows'[i].key # None /\ rows'[i].hand = rows[i].hand

Around ==
  /\ quote \in Totals /\ FileOK(file) /\ band \in Rates /\ ship \in States
  /\ ruled \in {"unset", "NONE"} \cup States /\ lease \in {None} \cup Passes

LEMMA Parts ==
  ASSUME QuoteInv
  PROVE  /\ rows \in [Ids -> Line] /\ Around /\ pc \in [Procs -> Points]
         /\ got \in [Procs -> Grip] /\ Keyed /\ Same
         /\ \A p \in Procs : Banded(pc[p], got[p]) /\ Rolled(pc[p], got[p])
BY DEF QuoteInv, QuoteTypeOK, Around, FileOK

LEMMA StepKeeps ==
  ASSUME QuoteInv, NEW p \in Procs, NEW g \in Grip, NEW there \in Points,
         pc' = [pc EXCEPT ![p] = there], got' = [got EXCEPT ![p] = g],
         rows' \in [Ids -> Line], RowsKept, Around',
         \A i \in Ids : SameLine(g.rows[i], rows[i]),
         Banded(there, g), Rolled(there, g)
  PROVE  QuoteInv'
<1>1. rows \in [Ids -> Line] /\ pc \in [Procs -> Points] /\ got \in [Procs -> Grip]
  BY Parts
<1>2. pc'[p] = there /\ got'[p] = g
  BY <1>1
<1>3. \A q \in Procs : q # p => pc'[q] = pc[q] /\ got'[q] = got[q]
  BY <1>1
<1>4. pc' \in [Procs -> Points] /\ got' \in [Procs -> Grip]
  BY <1>1
<1>5. Same'
  <2>1. ASSUME NEW q \in Procs, NEW i \in Ids
        PROVE  SameLine(got'[q].rows[i], rows[i])
    BY <1>2, <1>3, Parts DEF Same
  <2> QED
    BY <2>1 DEF Same, SameLine, RowsKept
<1>6. Keyed'
  BY DEF Keyed, RowsKept
<1>7. ASSUME NEW q \in Procs
      PROVE  Banded(pc'[q], got'[q]) /\ Rolled(pc'[q], got'[q])
  BY <1>2, <1>3, Parts
<1>8. QuoteTypeOK'
  BY <1>4 DEF QuoteTypeOK, Around, FileOK, Grip
<1> QED
  BY <1>4, <1>5, <1>6, <1>7, <1>8 DEF QuoteInv

\* The rows stay as they are.
LEMMA RowsStand ==
  ASSUME QuoteInv, rows' = rows
  PROVE  rows' \in [Ids -> Line] /\ RowsKept
BY Parts DEF RowsKept, Keyed

\* A request that is answered, or a sync that is over, has nothing in hand.
LEMMA EndKeeps ==
  ASSUME QuoteInv, NEW p \in Procs, Ends(p), Around', rows' = rows
  PROVE  QuoteInv'
<1>1. Nothing \in Grip /\ "over" \in Points
  BY SharpTypes DEF Points
<1>2. \A i \in Ids : SameLine(Nothing.rows[i], rows[i])
  BY DEF Nothing, NoRows, Gone, SameLine
<1>3. Banded("over", Nothing) /\ Rolled("over", Nothing)
  BY DEF Banded, Rolled
<1> QED
  BY <1>1, <1>2, <1>3, RowsStand, StepKeeps DEF Ends, Goto

\* A step that moves with what was in hand before, or with the rows as they are.
LEMMA HandKeeps ==
  ASSUME QuoteInv, NEW p \in Procs, NEW g \in Grip, NEW there \in Points \ {"totals"},
         Goto(p, there), got' = [got EXCEPT ![p] = g],
         rows' \in [Ids -> Line], RowsKept, Around',
         g.rows = got[p].rows \/ g.rows = rows,
         Banded(there, g)
  PROVE  QuoteInv'
<1>1. \A i \in Ids : SameLine(g.rows[i], rows[i])
  BY Parts DEF Same, Keyed, SameLine
<1>2. Rolled(there, g)
  BY DEF Rolled
<1> QED
  BY <1>1, <1>2, StepKeeps DEF Goto

-----------------------------------------------------------------------------
(* Repricing.                                                              *)

\* What a repricing makes of a line it has in hand.
LEMMA PricedLine ==
  ASSUME NEW g \in Grip, g.band \in Rates, NEW i \in Ids
  PROVE  /\ PricedIn(g, i) \in Line
         /\ g.rows[i].live =>
              PricedIn(g, i).sell = price_line(g.rows[i].cost, PricedIn(g, i).margin)
         /\ ~g.rows[i].live => PricedIn(g, i).sell = NoSell
<1>1. g.rows[i] \in Line
  BY DEF Grip
<1>2. CASE g.rows[i].live
  BY <1>1, <1>2, Reprices DEF PricedIn
<1>3. CASE ~g.rows[i].live
  BY <1>3, SharpTypes DEF PricedIn, Gone
<1> QED
  BY <1>2, <1>3

LEMMA PricedIs ==
  ASSUME NEW p, NEW i \in Ids
  PROVE  Priced(p)[i] = PricedIn(got[p], i)
BY DEF Priced, PricedIn

LEMMA ReadsKeep ==
  ASSUME QuoteInv, NEW p \in Procs, ReadsQuote(p) \/ lines_for(p)
  PROVE  QuoteInv'
<1>1. /\ got \in [Procs -> Grip] /\ got[p] \in Grip /\ quote \in Totals /\ band \in Rates
      /\ rows \in [Ids -> Line] /\ Around
  BY Parts DEF Around
<1>2. Around' /\ rows' = rows
  BY <1>1 DEF ReadsQuote, lines_for, Around, FileOK
<1>3. CASE ReadsQuote(p)
  <2> DEFINE g == [got[p] EXCEPT !.quote = quote]
  <2>1. g \in Grip /\ g.rows = got[p].rows
    BY <1>1 DEF Grip
  <2>2. got' = [got EXCEPT ![p] = g] /\ Goto(p, "lines")
    BY <1>1, <1>3 DEF ReadsQuote
  <2>3. "lines" \in Points \ {"totals"} /\ Banded("lines", g)
    BY DEF Points, Banded
  <2> HIDE DEF g
  <2> QED
    BY <1>2, <2>1, <2>2, <2>3, RowsStand, HandKeeps
<1>4. CASE lines_for(p)
  <2> DEFINE g == [got[p] EXCEPT !.rows = rows, !.band = band]
  <2>1. g \in Grip /\ g.rows = rows /\ g.band = band
    BY <1>1 DEF Grip
  <2>2. got' = [got EXCEPT ![p] = g] /\ Goto(p, "write")
    BY <1>1, <1>4 DEF lines_for
  <2>3. "write" \in Points \ {"totals"} /\ Banded("write", g)
    BY <1>1, <2>1 DEF Points, Banded
  <2> HIDE DEF g
  <2> QED
    BY <1>2, <2>1, <2>2, <2>3, RowsStand, HandKeeps
<1> QED
  BY <1>3, <1>4

\* The lines as a repricing leaves them.
LEMMA Written ==
  ASSUME QuoteInv, NEW p \in Procs, WritesLines(p), NEW i \in Ids
  PROVE  /\ rows'[i] \in Line
         /\ \A field \in {"live", "key", "hand", "cost"} : rows'[i][field] = rows[i][field]
         /\ rows[i].live /\ got[p].rows[i] = rows[i] =>
              /\ rows'[i].sell = PricedIn(got[p], i).sell
              /\ rows'[i].margin = PricedIn(got[p], i).margin
<1> DEFINE line == got[p].rows[i]
           priced == PricedIn(got[p], i)
<1>1. got[p] \in Grip /\ got[p].band \in Rates /\ rows[i] \in Line
  BY Parts DEF Banded, WritesLines
<1>2. priced \in Line
  BY <1>1, PricedLine
<1>3. rows'[i] = IF rows[i].live /\ line.live /\ Differs(line, priced)
                 THEN [rows[i] EXCEPT !.sell = priced.sell, !.margin = priced.margin,
                                      !.frozen = priced.frozen]
                 ELSE rows[i]
  BY PricedIs DEF WritesLines
<1> HIDE DEF priced
<1>4. rows'[i] \in Line
  BY <1>1, <1>2, <1>3 DEF Line
<1>5. \A field \in {"live", "key", "hand", "cost"} : rows'[i][field] = rows[i][field]
  BY <1>1, <1>2, <1>3 DEF Line
<1>6. ASSUME rows[i].live, line = rows[i]
      PROVE  rows'[i].sell = priced.sell /\ rows'[i].margin = priced.margin
  <2>1. CASE Differs(line, priced)
    BY <1>1, <1>3, <1>6, <2>1 DEF Line
  <2>2. CASE ~Differs(line, priced)
    BY <1>3, <1>6, <2>2 DEF Differs
  <2> QED
    BY <2>1, <2>2
<1> QED
  BY <1>4, <1>5, <1>6 DEF priced

LEMMA WritesKeep ==
  ASSUME QuoteInv, NEW p \in Procs, WritesLines(p)
  PROVE  QuoteInv'
<1>1. /\ got \in [Procs -> Grip] /\ got[p] \in Grip /\ got[p].band \in Rates /\ Around
      /\ rows \in [Ids -> Line]
  BY Parts DEF Banded, WritesLines
<1>2. rows' \in [Ids -> Line]
  <2>1. rows' = [i \in Ids |-> rows'[i]]
    BY DEF WritesLines
  <2> QED
    BY <2>1, Written
<1>3. RowsKept
  <2>1. ASSUME NEW i \in Ids
        PROVE  rows'[i].live = rows[i].live /\ rows'[i].key = rows[i].key
               /\ rows'[i].hand = rows[i].hand
    BY Written
  <2> QED
    BY <2>1, Parts DEF RowsKept, Keyed
<1>4. Around'
  BY <1>1 DEF WritesLines, Around, FileOK
<1> DEFINE leaves == IF rows = got[p].rows THEN rows' ELSE NoRows
           g == [got[p] EXCEPT !.left = leaves]
<1>5. leaves \in [Ids -> Line]
  BY <1>2, SharpTypes
<1>6. g \in Grip /\ g.rows = got[p].rows /\ g.band = got[p].band /\ g.left = leaves
  BY <1>1, <1>5 DEF Grip
<1>7. got' = [got EXCEPT ![p] = g] /\ pc' = [pc EXCEPT ![p] = "totals"]
  BY <1>1 DEF WritesLines, Goto
<1>8. \A i \in Ids : SameLine(g.rows[i], rows[i])
  BY <1>6, Parts DEF Same
<1>9. Banded("totals", g) /\ "totals" \in Points
  BY <1>1, <1>6 DEF Banded, Points
<1>10. Rolled("totals", g)
  <2>1. CASE rows # got[p].rows
    BY <1>6, <2>1 DEF Rolled
  <2>2. CASE rows = got[p].rows
    <3>1. ASSUME NEW i \in Ids
          PROVE  /\ rows'[i].live = rows[i].live
                 /\ rows[i].live =>
                      /\ rows'[i].sell = PricedIn(got[p], i).sell
                      /\ rows'[i].sell = price_line(rows'[i].cost, rows'[i].margin)
      BY <1>1, <2>2, Written, PricedLine
    <3>2. \A i \in Ids : PricedIn(g, i) = PricedIn(got[p], i)
      BY <1>6 DEF PricedIn
    <3>3. g.left = rows' /\ g.rows = rows
      BY <1>6, <2>2
    <3> HIDE DEF g, leaves
    <3> QED
      BY <3>1, <3>2, <3>3 DEF Rolled, Agrees
  <2> QED
    BY <2>1, <2>2
<1> HIDE DEF g, leaves
<1> QED
  BY <1>2, <1>3, <1>4, <1>6, <1>7, <1>8, <1>9, <1>10, StepKeeps

LEMMA TotalsKeep ==
  ASSUME QuoteInv, NEW p \in Procs, WritesTotals(p)
  PROVE  QuoteInv'
<1>1. /\ got \in [Procs -> Grip] /\ got[p] \in Grip /\ got[p].band \in Rates /\ Around
  BY Parts DEF Banded, WritesTotals
<1>2. [i \in Ids |-> Priced(p)[i].sell] \in [Ids -> Price]
  <2>1. ASSUME NEW i \in Ids
        PROVE  Priced(p)[i].sell \in Price
    BY <1>1, PricedLine, PricedIs DEF Line
  <2> QED
    BY <2>1
<1>3. tax_state(got[p].ship, got[p].quote.tax) \in {"unset", "NONE"} \cup States
  BY <1>1 DEF tax_state, Grip, Totals
<1>4. got[p].quote.freight \in BOOLEAN
  BY <1>1 DEF Grip, Totals
<1>5. quote' \in Totals
  BY <1>2, <1>3, <1>4 DEF WritesTotals, Totals
<1>6. Around' /\ rows' = rows
  BY <1>1, <1>5 DEF WritesTotals, Around, FileOK
<1>7. CASE Ends(p)
  BY <1>6, <1>7, EndKeeps
<1>8. CASE Goto(p, "export") /\ got' = got
  <2>1. got' = [got EXCEPT ![p] = got[p]]
    BY <1>1, <1>8
  <2>2. "export" \in Points \ {"totals"} /\ Banded("export", got[p])
    BY DEF Points, Banded
  <2> QED
    BY <1>1, <1>6, <1>8, <2>1, <2>2, RowsStand, HandKeeps
<1> QED
  BY <1>7, <1>8 DEF WritesTotals

-----------------------------------------------------------------------------
(* The file.                                                               *)

LEMMA ExportKeeps ==
  ASSUME QuoteInv, NEW p \in Procs, export_quote_lines(p)
  PROVE  QuoteInv'
<1>1. rows \in [Ids -> Line] /\ Around /\ Keyed
  BY Parts
<1>2. ASSUME NEW key \in Stored
      PROVE  key \in Key /\ Row(key) \in Live
  <2>1. PICK i \in Live : rows[i].key = key
    BY DEF Stored
  <2>2. key \in Key
    BY <1>1, <2>1 DEF Live, Keyed, Line
  <2> DEFINE Of == {j \in Live : rows[j].key = key}
  <2>3. Of \in SUBSET Nat /\ Of # {} /\ IsFiniteSet(Of)
    BY <2>1, RowsFinite, FS_Subset DEF Live
  <2>4. PICK n \in Of : \A j \in Of : j <= n
    BY <2>3, Extremes
  <2>5. \E n2 \in Live : rows[n2].key = key /\ \A j \in Live : rows[j].key = key => j <= n2
    BY <2>4
  <2> QED
    BY <2>2, <2>5 DEF Row
<1>3. FileOK(file')
  <2>1. CASE file' = file
    BY <1>1, <2>1 DEF Around
  <2>2. CASE file' = [key \in Stored |-> [cost |-> rows[Row(key)].cost,
                                          margin |-> rows[Row(key)].margin]]
    <3>1. ASSUME NEW key \in Stored
          PROVE  key \in Key /\ file'[key] \in Entry
      BY <1>1, <1>2, <2>2 DEF Live, Line, Entry
    <3>2. file' \in [Stored -> Entry] /\ Stored \in SUBSET Key
      BY <2>2, <3>1
    <3> QED
      BY <3>2, FileHolds DEF FileOK
  <2> QED
    BY <2>1, <2>2 DEF export_quote_lines
<1>4. Around' /\ rows' = rows /\ Ends(p)
  BY <1>1, <1>3 DEF export_quote_lines, Around
<1> QED
  BY <1>4, EndKeeps

LEMMA PricesKeep ==
  ASSUME QuoteInv, NEW p \in Passes, Prices(p)
  PROVE  QuoteInv'
<1>1. p \in Procs /\ got \in [Procs -> Grip] /\ got[p] \in Grip /\ Around
  BY Parts DEF Procs
<1>2. FileOK(file')
  <2>1. CASE file' \in Files
    <3>1. CASE file' = Unreadable
      BY <3>1 DEF FileOK
    <3>2. ASSUME NEW ks \in SUBSET Keys,
                 file' \in [ks -> [cost : {None} \cup Costs, margin : {None} \cup Rates]]
          PROVE  FileOK(file')
      <4>1. ks \in SUBSET Key /\ file' \in [ks -> Entry]
        BY <3>2 DEF Key, Entry
      <4> QED
        BY <4>1, FileHolds DEF FileOK
    <3> QED
      BY <2>1, <3>1, <3>2, QuoteAssumption
  <2>2. ASSUME NEW kept \in SUBSET InFile, file' = [key \in kept |-> file[key]]
        PROVE  FileOK(file')
    <3>1. \A key \in kept : key \in Key /\ file[key] \in Entry
      BY <1>1, <2>2, FileHolds DEF InFile, Around, FileOK
    <3>2. file' \in [kept -> Entry] /\ kept \in SUBSET Key
      BY <2>2, <3>1
    <3> QED
      BY <3>2, FileHolds DEF FileOK
  <2> QED
    BY <2>1, <2>2 DEF Prices
<1> DEFINE g == [got[p] EXCEPT !.ship = ship]
<1>3. g \in Grip /\ g.rows = got[p].rows
  BY <1>1 DEF Grip, Around
<1>4. got' = [got EXCEPT ![p] = g] /\ Goto(p, "import")
  BY <1>1 DEF Prices
<1>5. Around' /\ rows' = rows
  BY <1>1, <1>2 DEF Prices, Around
<1>6. "import" \in Points \ {"totals"} /\ Banded("import", g)
  BY DEF Points, Banded
<1> HIDE DEF g
<1> QED
  BY <1>1, <1>3, <1>4, <1>5, <1>6, RowsStand, HandKeeps

LEMMA ImportsKeep ==
  ASSUME QuoteInv, NEW p \in Passes, Imports(p) \/ ReadsRows(p) \/ Checks(p)
  PROVE  QuoteInv'
<1>1. /\ p \in Procs /\ got \in [Procs -> Grip] /\ got[p] \in Grip /\ Around
      /\ rows \in [Ids -> Line]
  BY Parts DEF Procs
<1>2. Around' /\ rows' = rows
  BY <1>1 DEF Imports, ReadsRows, Checks, Around, FileOK
<1>3. CASE Ends(p)
  BY <1>1, <1>2, <1>3, EndKeeps
<1>4. CASE Imports(p) /\ ~Ends(p)
  <2> DEFINE g == [got[p] EXCEPT !.given = file]
  <2>1. CASE Goto(p, "quote") /\ got' = got
    <3>1. got' = [got EXCEPT ![p] = got[p]]
      BY <1>1, <2>1
    <3>2. "quote" \in Points \ {"totals"} /\ Banded("quote", got[p])
      BY DEF Points, Banded
    <3> QED
      BY <1>1, <1>2, <2>1, <3>1, <3>2, RowsStand, HandKeeps
  <2>2. CASE Goto(p, "rows") /\ got' = [got EXCEPT ![p].given = file] /\ file # Unreadable
    <3>1. file \in Contents
      BY <1>1, <2>2 DEF Around, FileOK
    <3>2. g \in Grip /\ g.rows = got[p].rows
      BY <1>1, <3>1 DEF Grip
    <3>3. got' = [got EXCEPT ![p] = g]
      BY <1>1, <2>2
    <3>4. "rows" \in Points \ {"totals"} /\ Banded("rows", g)
      BY DEF Points, Banded
    <3> HIDE DEF g
    <3> QED
      BY <1>1, <1>2, <2>2, <3>2, <3>3, <3>4, RowsStand, HandKeeps
  <2> QED
    BY <1>4, <2>1, <2>2 DEF Imports
<1>5. CASE ReadsRows(p)
  <2> DEFINE g == [got[p] EXCEPT !.rows = rows]
  <2>1. g \in Grip /\ g.rows = rows
    BY <1>1 DEF Grip
  <2>2. got' = [got EXCEPT ![p] = g] /\ Goto(p, "check")
    BY <1>1, <1>5 DEF ReadsRows
  <2>3. "check" \in Points \ {"totals"} /\ Banded("check", g)
    BY DEF Points, Banded
  <2> HIDE DEF g
  <2> QED
    BY <1>1, <1>2, <2>1, <2>2, <2>3, RowsStand, HandKeeps
<1>6. CASE Checks(p) /\ ~Ends(p)
  <2>1. got' = [got EXCEPT ![p] = got[p]] /\ Goto(p, "bulk")
    BY <1>1, <1>6 DEF Checks
  <2>2. "bulk" \in Points \ {"totals"} /\ Banded("bulk", got[p])
    BY DEF Points, Banded
  <2> QED
    BY <1>1, <1>2, <2>1, <2>2, RowsStand, HandKeeps
<1> QED
  BY <1>3, <1>4, <1>5, <1>6

LEMMA NewKeysGiven ==
  ASSUME QuoteInv, NEW p \in Procs, NEW n \in 1 .. Len(NewKeys(p))
  PROVE  NewKeys(p)[n] \in PricedKeys(p)
<1> DEFINE S == {key \in PricedKeys(p) : Known(p, key) = {}}
<1>1. PricedKeys(p) \subseteq Key
  BY Parts, FileHolds DEF PricedKeys, Grip
<1>2. IsFiniteSet(S)
  BY <1>1, RowsFinite, FS_Subset
<1>3. \A m \in 1 .. Len(SetToSeq(S)) : SetToSeq(S)[m] \in S
  BY <1>2, Listed
<1> QED
  BY <1>3 DEF NewKeys

\* What an import makes of one row: a new line where none has been, a line
\* dropped, a line taken from the file, or what there was.
LEMMA Imported ==
  ASSUME QuoteInv, NEW p \in Passes, Bulk(p), NEW i \in Ids
  PROVE  /\ rows'[i] \in Line
         /\ rows'[i].live => rows'[i].key # None
         /\ rows[i].key # None =>
              /\ rows'[i].key = rows[i].key /\ rows'[i].hand = rows[i].hand
              /\ \/ rows'[i] = rows[i]
                 \/ Drops(p, i) /\ rows'[i] = [rows[i] EXCEPT !.live = FALSE]
                 \/ Updates(p, i)
<1>1. rows \in [Ids -> Line] /\ rows[i] \in Line /\ p \in Procs /\ Keyed
  BY Parts DEF Procs
<1>2. \A key \in PricedKeys(p) : key \in Key /\ got[p].given[key] \in Entry
  BY <1>1, Parts, FileHolds DEF PricedKeys, Grip
<1>3. i \in Fresh => rows[i].key = None
  BY DEF Fresh, Gone
<1>4. CASE rows'[i] = rows[i]
  BY <1>1, <1>4 DEF Keyed
<1>5. CASE i \in Fresh /\ NewRow(p, i) <= Len(NewKeys(p))
  <2> DEFINE key == NewKeys(p)[NewRow(p, i)]
             row == [Gone EXCEPT !.live = TRUE, !.key = key]
  <2>1. NewRow(p, i) \in 1 .. Len(NewKeys(p))
    <3> DEFINE S == {j \in Fresh : j <= i}
    <3>1. IsFiniteSet(S) /\ i \in S
      <4>1. S \in SUBSET Ids /\ i <= i
        BY SharpTypes DEF Fresh
      <4>2. IsFiniteSet(S)
        BY <4>1, RowsFinite, FS_Subset
      <4> QED
        BY <1>5, <4>1, <4>2
    <3>2. Cardinality(S) \in Nat /\ Cardinality(S) # 0
      BY <3>1, FS_CardinalityType, FS_EmptySet
    <3>3. IsFiniteSet({k \in PricedKeys(p) : Known(p, k) = {}})
      BY <1>2, RowsFinite, FS_Subset
    <3>4. Len(NewKeys(p)) \in Nat
      BY <3>3, Listed DEF NewKeys
    <3> QED
      BY <1>5, <3>2, <3>4 DEF NewRow
  <2>2. key \in PricedKeys(p) /\ key \in Key /\ got[p].given[key] \in Entry
    BY <1>1, <1>2, <2>1, NewKeysGiven
  <2>3. row \in Line /\ row.key = key
    BY <2>2, SharpTypes DEF Line, Gone
  <2>4. rows'[i] = Taken(row, got[p].given[key])
    BY <1>5 DEF Bulk
  <2>5. key # None
    BY <2>2, SharpTypes
  <2> HIDE DEF row, key
  <2> QED
    BY <1>3, <1>5, <2>2, <2>3, <2>4, <2>5, Takes
<1>6. CASE Drops(p, i) /\ rows'[i] = [rows[i] EXCEPT !.live = FALSE]
  BY <1>1, <1>6 DEF Line
<1>7. CASE Updates(p, i) /\ rows'[i] = Taken(rows[i], got[p].given[rows[i].key])
  <2>1. rows[i].key \in PricedKeys(p) /\ rows[i].live
    BY <1>7 DEF Updates, Follows
  <2> QED
    BY <1>1, <1>2, <1>7, <2>1, Takes DEF Keyed
<1> QED
  BY <1>1, <1>4, <1>5, <1>6, <1>7 DEF Bulk

LEMMA BulkKeeps ==
  ASSUME QuoteInv, NEW p \in Passes, Bulk(p)
  PROVE  QuoteInv'
<1>1. /\ p \in Procs /\ got \in [Procs -> Grip] /\ got[p] \in Grip /\ Around
      /\ rows \in [Ids -> Line]
  BY Parts DEF Procs
<1>2. rows' \in [Ids -> Line]
  <2>1. rows' = [i \in Ids |-> rows'[i]]
    BY <1>1 DEF Bulk
  <2>2. \A i \in Ids : rows'[i] \in Line
    BY Imported
  <2> QED
    BY <2>1, <2>2
<1>3. RowsKept
  BY Imported DEF RowsKept
<1>4. Around'
  BY <1>1 DEF Bulk, Around, FileOK
<1> DEFINE g == [got[p] EXCEPT !.given = <<>>]
<1>5. Goto(p, "quote") /\ got' = [got EXCEPT ![p] = g]
  BY <1>1 DEF Bulk
<1>6. "quote" \in Points \ {"totals"} /\ Banded("quote", g)
  BY DEF Points, Banded
<1>7. g \in Grip /\ g.rows = got[p].rows
  BY <1>1, FileHolds DEF Grip
<1> HIDE DEF g
<1> QED
  BY <1>1, <1>2, <1>3, <1>4, <1>5, <1>6, <1>7, HandKeeps

-----------------------------------------------------------------------------
(* The estimator.                                                          *)

\* A request that has made its change to the rows and the quote.
LEMMA AsksKeep ==
  ASSUME QuoteInv, NEW r \in Requests, NEW edit, NEW export \in {"no", "yes", "allow_empty"},
         Asks(r, edit, export),
         rows' \in [Ids -> Line], RowsKept, quote' \in Totals,
         ruled' \in {"unset", "NONE"} \cup States
  PROVE  QuoteInv'
<1>1. /\ r \in Procs /\ got \in [Procs -> Grip] /\ got[r] \in Grip /\ Around
      /\ rows \in [Ids -> Line]
  BY Parts DEF Procs
<1> DEFINE g == [got[r] EXCEPT !.ship = ship, !.export = export]
<1>2. g \in Grip /\ g.rows = got[r].rows
  BY <1>1 DEF Grip, Around
<1>3. got' = [got EXCEPT ![r] = g] /\ Goto(r, "quote")
  BY <1>1 DEF Asks
<1>4. Around'
  BY <1>1 DEF Asks, Around, FileOK
<1>5. "quote" \in Points \ {"totals"} /\ Banded("quote", g)
  BY DEF Points, Banded
<1> HIDE DEF g
<1> QED
  BY <1>1, <1>2, <1>3, <1>4, <1>5, HandKeeps

\* One row changes; if a line has been in it, it stays that line's.
LEMMA OneRow ==
  ASSUME QuoteInv, NEW i \in Ids, NEW line \in Line, rows' = [rows EXCEPT ![i] = line],
         line.key # None, rows[i].key # None => line.hand = rows[i].hand
  PROVE  rows' \in [Ids -> Line] /\ RowsKept
BY Parts DEF RowsKept, Keyed

LEMMA EditsKeep ==
  ASSUME QuoteInv, NEW r \in Requests, NEW i \in Ids,
         \/ delete_line(r, i)
         \/ \E margin \in Rates : Overrides(r, i, margin)
         \/ \E cost \in Costs : Recosts(r, i, cost)
  PROVE  QuoteInv'
<1>1. rows[i] \in Line /\ rows \in [Ids -> Line] /\ Around /\ Keyed
  BY Parts
<1>2. rows[i].live /\ rows[i].key # None
  BY <1>1 DEF delete_line, Overrides, Recosts, Live, Keyed
<1>3. ASSUME NEW line \in Line, rows' = [rows EXCEPT ![i] = line],
             line.key = rows[i].key, line.hand = rows[i].hand
      PROVE  rows' \in [Ids -> Line] /\ RowsKept
  BY <1>2, <1>3, OneRow
<1>4. quote' \in Totals /\ ruled' \in {"unset", "NONE"} \cup States
  BY <1>1 DEF delete_line, Overrides, Recosts, Around
<1>5. CASE delete_line(r, i)
  <2> DEFINE line == [rows[i] EXCEPT !.live = FALSE]
  <2>1. /\ line \in Line /\ line.key = rows[i].key /\ line.hand = rows[i].hand
        /\ rows' = [rows EXCEPT ![i] = line]
    BY <1>1, <1>5 DEF delete_line, Line
  <2> HIDE DEF line
  <2> QED
    BY <1>3, <1>4, <1>5, <2>1, AsksKeep DEF delete_line
<1>6. ASSUME NEW margin \in Rates, Overrides(r, i, margin)
      PROVE  QuoteInv'
  <2> DEFINE line == [rows[i] EXCEPT !.margin = margin, !.over = TRUE]
  <2>1. /\ line \in Line /\ line.key = rows[i].key /\ line.hand = rows[i].hand
        /\ rows' = [rows EXCEPT ![i] = line]
    BY <1>1, <1>6 DEF Overrides, Line
  <2> HIDE DEF line
  <2> QED
    BY <1>3, <1>4, <1>6, <2>1, AsksKeep DEF Overrides
<1>7. ASSUME NEW cost \in Costs, Recosts(r, i, cost)
      PROVE  QuoteInv'
  <2> DEFINE line == [rows[i] EXCEPT !.cost = cost]
  <2>1. /\ line \in Line /\ line.key = rows[i].key /\ line.hand = rows[i].hand
        /\ rows' = [rows EXCEPT ![i] = line]
    BY <1>1, <1>7 DEF Recosts, Line
  <2> HIDE DEF line
  <2> QED
    BY <1>3, <1>4, <1>7, <2>1, AsksKeep DEF Recosts
<1> QED
  BY <1>5, <1>6, <1>7

LEMMA AddsKeep ==
  ASSUME QuoteInv, NEW r \in Requests, NEW cost \in {None} \cup Costs,
         NEW margin \in {None} \cup Rates, add_line(r, cost, margin)
  PROVE  QuoteInv'
<1> DEFINE i == CHOOSE n \in Fresh : \A o \in Fresh : n <= o
           line == [Gone EXCEPT !.live = TRUE, !.key = i, !.hand = TRUE,
                                !.cost = cost, !.margin = margin]
<1>1. Fresh # {} /\ Fresh \in SUBSET Nat /\ IsFiniteSet(Fresh)
  BY RowsFinite, FS_Subset DEF add_line, Fresh
<1>2. i \in Fresh
  BY <1>1, Extremes
<1>3. rows' = [rows EXCEPT ![i] = line]
  BY DEF add_line
<1> HIDE DEF i
<1>4. i \in Ids /\ i \in Key /\ i # None /\ rows[i].key = None
  BY <1>2, SharpTypes DEF Fresh, Gone, Key, None
<1>5. line \in Line /\ line.key = i
  BY <1>4, SharpTypes DEF Line, Gone
<1>6. quote' \in Totals /\ ruled' \in {"unset", "NONE"} \cup States
  BY Parts DEF add_line, Around
<1> HIDE DEF line
<1>7. rows' \in [Ids -> Line] /\ RowsKept
  BY <1>3, <1>4, <1>5, OneRow
<1> QED
  BY <1>6, <1>7, AsksKeep DEF add_line

LEMMA SettingsKeep ==
  ASSUME QuoteInv, NEW r \in Requests,
         \/ SetsFreight(r) \/ continue_to_proposal(r)
         \/ \E where \in {"NONE"} \cup States : RulesTax(r, where)
  PROVE  QuoteInv'
<1>1. quote \in Totals /\ ruled \in {"unset", "NONE"} \cup States
  BY Parts DEF Around
<1>2. rows' = rows
  BY DEF SetsFreight, continue_to_proposal, RulesTax
<1>3. quote' \in Totals /\ ruled' \in {"unset", "NONE"} \cup States
  BY <1>1 DEF SetsFreight, continue_to_proposal, RulesTax, Totals
<1>4. \/ Asks(r, "freight", "no") \/ Asks(r, "continue", "yes") \/ Asks(r, "tax", "no")
  BY DEF SetsFreight, continue_to_proposal, RulesTax
<1> QED
  BY <1>2, <1>3, <1>4, RowsStand, AsksKeep

LEMMA ElsewhereKeeps ==
  ASSUME QuoteInv, NEW r \in Requests,
         \/ \E rate \in Rates : update_margins(r, rate)
         \/ \E state \in States : update_project(r, state)
  PROVE  QuoteInv'
<1>1. Ends(r) /\ rows' = rows /\ r \in Procs
  BY DEF update_margins, update_project, Elsewhere, Procs
<1>2. Around'
  BY Parts DEF update_margins, update_project, Elsewhere, Around, FileOK
<1> QED
  BY <1>1, <1>2, EndKeeps

-----------------------------------------------------------------------------
(* The invariant.                                                          *)

LEMMA InitQuote == Init => QuoteInv
<1> SUFFICES ASSUME Init PROVE QuoteInv
  OBVIOUS
<1>1. QuoteTypeOK
  BY SharpTypes, FileHolds DEF Init, QuoteTypeOK, Nothing, Points
<1>2. got \in [Procs -> Grip]
  BY SharpTypes DEF Init
<1>3. Keyed /\ Same
  BY DEF Init, Keyed, Same, SameLine, Nothing, NoRows, Gone
<1>4. \A p \in Procs : Banded(pc[p], got[p]) /\ Rolled(pc[p], got[p])
  BY DEF Init, Banded, Rolled
<1> QED
  BY <1>1, <1>2, <1>3, <1>4 DEF QuoteInv

LEMMA StepQuote == QuoteInv /\ [Next]_vars => QuoteInv'
<1> SUFFICES ASSUME QuoteInv, [Next]_vars PROVE QuoteInv'
  OBVIOUS
<1>1. ASSUME NEW p \in Procs,
             \/ ReadsQuote(p) \/ lines_for(p) \/ WritesLines(p) \/ WritesTotals(p)
             \/ export_quote_lines(p)
      PROVE  QuoteInv'
  BY <1>1, ReadsKeep, WritesKeep, TotalsKeep, ExportKeeps
<1>2. ASSUME NEW p \in Passes, Prices(p) \/ Imports(p) \/ ReadsRows(p) \/ Checks(p) \/ Bulk(p)
      PROVE  QuoteInv'
  BY <1>2, PricesKeep, ImportsKeep, BulkKeeps
<1>3. ASSUME NEW r \in Requests, NEW cost \in {None} \cup Costs,
             NEW margin \in {None} \cup Rates, add_line(r, cost, margin)
      PROVE  QuoteInv'
  BY <1>3, AddsKeep
<1>4. ASSUME NEW r \in Requests, NEW i \in Ids,
             \/ delete_line(r, i)
             \/ \E margin \in Rates : Overrides(r, i, margin)
             \/ \E cost \in Costs : Recosts(r, i, cost)
      PROVE  QuoteInv'
  BY <1>4, EditsKeep
<1>5. ASSUME NEW r \in Requests,
             \/ SetsFreight(r) \/ continue_to_proposal(r)
             \/ \E where \in {"NONE"} \cup States : RulesTax(r, where)
      PROVE  QuoteInv'
  BY <1>5, SettingsKeep
<1>6. ASSUME NEW r \in Requests,
             \/ \E rate \in Rates : update_margins(r, rate)
             \/ \E state \in States : update_project(r, state)
      PROVE  QuoteInv'
  BY <1>6, ElsewhereKeeps
<1>7. CASE UNCHANGED vars
  BY <1>7 DEF vars, QuoteInv, QuoteTypeOK, Keyed, Same, Banded, Rolled
<1> QED
  BY <1>1, <1>2, <1>3, <1>4, <1>5, <1>6, <1>7 DEF Next

LEMMA QuoteInvariant == Spec => []QuoteInv
BY InitQuote, StepQuote, PTL DEF Spec

\* Whoever leaves its bulk write, its write of the lines or of the totals does
\* so by that write.
LEMMA Mover ==
  ASSUME QuoteInv, Next, NEW p \in Procs, pc'[p] # pc[p]
  PROVE  /\ pc[p] = "bulk" => p \in Passes /\ Bulk(p)
         /\ pc[p] = "write" => WritesLines(p)
         /\ pc[p] = "totals" => WritesTotals(p)
<1>1. pc \in [Procs -> Points]
  BY Parts
<1>2. ASSUME NEW q \in Procs, NEW there, Goto(q, there)
      PROVE  q = p
  BY <1>1, <1>2 DEF Goto
<1>3. ASSUME NEW q \in Procs, \/ ReadsQuote(q) \/ lines_for(q) \/ WritesLines(q)
                              \/ WritesTotals(q) \/ export_quote_lines(q)
      PROVE  /\ q = p
             /\ pc[q] # "bulk"
             /\ pc[q] = "write" => WritesLines(q)
             /\ pc[q] = "totals" => WritesTotals(q)
  BY <1>2, <1>3 DEF ReadsQuote, lines_for, WritesLines, WritesTotals, export_quote_lines, Ends
<1>4. ASSUME NEW q \in Passes, Prices(q) \/ Imports(q) \/ ReadsRows(q) \/ Checks(q) \/ Bulk(q)
      PROVE  /\ q = p
             /\ pc[q] \notin {"write", "totals"}
             /\ pc[q] = "bulk" => Bulk(q)
  BY <1>2, <1>4 DEF Prices, Imports, ReadsRows, Checks, Bulk, Ends, Starts, Procs
<1>5. ASSUME NEW r \in Requests, pc[r] = "idle", \E there : Goto(r, there)
      PROVE  r = p /\ pc[p] = "idle"
  BY <1>2, <1>5 DEF Procs
<1>6. ASSUME NEW r \in Requests, NEW edit, NEW export, Asks(r, edit, export)
      PROVE  r = p /\ pc[p] = "idle"
  BY <1>5, <1>6 DEF Asks, Starts
<1>7. ASSUME NEW r \in Requests, NEW edit, Elsewhere(r, edit)
      PROVE  r = p /\ pc[p] = "idle"
  BY <1>5, <1>7 DEF Elsewhere, Ends
<1>8. \/ \E q \in Procs : \/ ReadsQuote(q) \/ lines_for(q) \/ WritesLines(q)
                          \/ WritesTotals(q) \/ export_quote_lines(q)
      \/ \E q \in Passes : Prices(q) \/ Imports(q) \/ ReadsRows(q) \/ Checks(q) \/ Bulk(q)
      \/ \E r \in Requests : \E edit, export : Asks(r, edit, export)
      \/ \E r \in Requests : \E edit : Elsewhere(r, edit)
  BY DEF Next, add_line, delete_line, Overrides, Recosts, SetsFreight, continue_to_proposal,
         RulesTax, update_margins, update_project
<1> QED
  BY <1>3, <1>4, <1>6, <1>7, <1>8

-----------------------------------------------------------------------------

\* Lines, totals, the file and what everybody has in hand keep their shape; a
\* line is priced with a margin and a cost it really has.
THEOREM QuoteTypeCorrect == Spec => []QuoteTypeOK
<1>1. QuoteInv => QuoteTypeOK
  BY DEF QuoteInv
<1> QED
  BY <1>1, QuoteInvariant, PTL

\* However many requests and imports overlap, an import removes and changes no
\* line added by hand, and writes no cost or margin over one whose margin was
\* overridden when it read the lines (priced_lines.py:150-204).
THEOREM HandWorkIsSafe == Spec => HandWorkSurvives
<1> DEFINE Kept(p) ==
      \A i \in Live :
         /\ rows[i].hand => rows'[i] = rows[i]
         /\ got[p].rows[i].over => rows'[i] \in {rows[i], [rows[i] EXCEPT !.live = FALSE]}
<1>1. ASSUME QuoteInv, NEW p \in Passes, Bulk(p)
      PROVE  Kept(p)
  <2> SUFFICES ASSUME NEW i \in Live
               PROVE  /\ rows[i].hand => rows'[i] = rows[i]
                      /\ got[p].rows[i].over =>
                           rows'[i] \in {rows[i], [rows[i] EXCEPT !.live = FALSE]}
    OBVIOUS
  <2>1. i \in Ids /\ rows[i].key # None /\ p \in Procs
    BY <1>1, Parts DEF Live, Keyed, Procs
  <2>2. \/ rows'[i] = rows[i]
        \/ Drops(p, i) /\ rows'[i] = [rows[i] EXCEPT !.live = FALSE]
        \/ Updates(p, i)
    BY <1>1, <2>1, Imported
  <2>3. i \in Standing(p) => got[p].rows[i].live
    BY DEF Standing, Known
  <2>4. got[p].rows[i].live => rows[i].hand = got[p].rows[i].hand
    BY <1>1, <2>1, Parts DEF Same, SameLine
  <2>5. rows[i].hand => ~Drops(p, i) /\ ~Updates(p, i)
    BY <2>3, <2>4 DEF Drops, Updates, Follows, Protected
  <2>6. got[p].rows[i].over => ~Updates(p, i)
    BY DEF Updates, Protected
  <2> QED
    BY <2>2, <2>5, <2>6
<1>2. ASSUME QuoteInv, [Next]_vars
      PROVE  [\A p \in Passes : pc[p] = "bulk" /\ pc'[p] # "bulk" => Kept(p)]_vars
  <2>1. ASSUME Next, NEW p \in Passes, pc[p] = "bulk", pc'[p] # "bulk"
        PROVE  Kept(p)
    BY <1>1, <1>2, <2>1, Mover DEF Procs
  <2> QED
    BY <1>2, <2>1
<1> QED
  BY <1>2, QuoteInvariant, PTL DEF Spec, HandWorkSurvives

\* A settled price survives every repricing that read the line as it still is,
\* whatever the margin framework has become (quote.py:84-124).
THEOREM SettledPricesStand == Spec => QuotedPriceStands
<1> DEFINE Stands(p) ==
      \A i \in Live : Settled(rows[i]) /\ got[p].rows[i] = rows[i] =>
                        rows'[i].sell = rows[i].sell /\ rows'[i].margin = rows[i].margin
<1>1. ASSUME QuoteInv, NEW p \in Procs, WritesLines(p)
      PROVE  Stands(p)
  <2> SUFFICES ASSUME NEW i \in Live, Settled(rows[i]), got[p].rows[i] = rows[i]
               PROVE  rows'[i].sell = rows[i].sell /\ rows'[i].margin = rows[i].margin
    OBVIOUS
  <2>1. i \in Ids /\ rows[i].live /\ rows[i] \in Line
    BY <1>1, Parts DEF Live
  <2>2. rows[i].margin \in Rates
    BY <2>1 DEF Settled, Line, Price, NoSell
  <2>3. _resolve_margin(rows[i], got[p].band) = rows[i].margin
    BY <2>2, QuoteAssumption DEF Settled, _resolve_margin, None
  <2>4. /\ PricedIn(got[p], i).sell = price_line(rows[i].cost, rows[i].margin)
        /\ PricedIn(got[p], i).margin = rows[i].margin
    BY <2>1, <2>3 DEF PricedIn, reprice, Line
  <2>5. price_line(rows[i].cost, rows[i].margin) = rows[i].sell
    BY DEF Settled, price_line
  <2> QED
    BY <1>1, <2>1, <2>4, <2>5, Written
<1>2. ASSUME QuoteInv, [Next]_vars
      PROVE  [\A p \in Procs : pc[p] = "write" /\ pc'[p] # "write" => Stands(p)]_vars
  <2>1. ASSUME Next, NEW p \in Procs, pc[p] = "write", pc'[p] # "write"
        PROVE  Stands(p)
    BY <1>1, <1>2, <2>1, Mover
  <2> QED
    BY <1>2, <2>1
<1> QED
  BY <1>2, QuoteInvariant, PTL DEF Spec, QuotedPriceStands

\* A repricing that nobody interferes with leaves every line at the price of
\* its cost and margin, and totals that are the sum of these lines
\* (quote.py:184-224, 246-295).
THEOREM TotalsAreOfTheLines == Spec => TotalsMatch
<1> DEFINE Match ==
      \A i \in Ids :
         /\ i \in Live => rows[i].sell = price_line(rows[i].cost, rows[i].margin)
         /\ quote'.sub[i] = IF i \in Live THEN rows[i].sell ELSE NoSell
<1>1. ASSUME QuoteInv, NEW p \in Procs, WritesTotals(p), rows = got[p].left
      PROVE  Match
  <2> SUFFICES ASSUME NEW i \in Ids
               PROVE  /\ i \in Live => rows[i].sell = price_line(rows[i].cost, rows[i].margin)
                      /\ quote'.sub[i] = IF i \in Live THEN rows[i].sell ELSE NoSell
    OBVIOUS
  <2>1. got[p] \in Grip /\ got[p].band \in Rates /\ Rolled("totals", got[p])
    BY <1>1, Parts DEF Banded, WritesTotals
  <2>2. quote'.sub[i] = PricedIn(got[p], i).sell
    BY <1>1, PricedIs DEF WritesTotals
  <2>3. i \in Live <=> rows[i].live
    BY DEF Live
  <2>4. CASE Agrees(got[p])
    BY <1>1, <2>1, <2>2, <2>3, <2>4, PricedLine DEF Agrees
  <2>5. CASE rows = NoRows
    <3>1. ~rows[i].live /\ rows[i].key = None
      BY <2>5 DEF NoRows, Gone
    <3>2. ~got[p].rows[i].live
      BY <1>1, <3>1, Parts DEF Same, SameLine
    <3> QED
      BY <2>1, <2>2, <2>3, <3>1, <3>2, PricedLine
  <2> QED
    BY <1>1, <2>1, <2>4, <2>5 DEF Rolled
<1>2. ASSUME QuoteInv, [Next]_vars
      PROVE  [\A p \in Procs : pc[p] = "totals" /\ pc'[p] # "totals" /\ rows = got[p].left =>
                Match]_vars
  <2>1. ASSUME Next, NEW p \in Procs, pc[p] = "totals", pc'[p] # "totals", rows = got[p].left
        PROVE  Match
    BY <1>1, <1>2, <2>1, Mover
  <2> QED
    BY <1>2, <2>1
<1> QED
  BY <1>2, QuoteInvariant, PTL DEF Spec, TotalsMatch

=============================================================================
