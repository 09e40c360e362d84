------------------------------ MODULE PriceBooks ------------------------------
(***************************************************************************)
(* The price books.  Uploading a book's sheet stores the file, points the  *)
(* book at it, and queues two jobs: one describes the pages of the file    *)
(* into the page index, the other parses the file window by window into    *)
(* stored page rows.  Deleting a book queues the removal of both and drops *)
(* the book at once.  A pricing pass searches the index through a cache.   *)
(*                                                                         *)
(* The jobs belong to no bid, so nothing keeps two of them apart: several  *)
(* workers index, parse and delete side by side.                           *)
(***************************************************************************)
EXTENDS Integers, Sequences, FiniteSetsExt

CONSTANTS
  Books,       \* price books
  PageCount,   \* pages of each content a sheet may have
  WindowPages, \* pages MinerU is asked for at a time
  MaxUploads,  \* bound: sheets uploaded
  Budget,      \* bound: crashes, failures of MinerU, short answers
  MaxKinds,    \* bound: kinds of them in one behaviour
  MaxClock,    \* bound: descriptions built
  Parser,      \* TRUE when PARSER_URL is set
  Searched     \* TRUE when pricing passes search meanwhile

Contents == DOMAIN PageCount
Uploads  == 1 .. MaxUploads
NoSheet  == 0
Faults   == {"crash", "mineru", "short"}

VARIABLES
  book,    \* the price-book records
  sheet,   \* the files under pricebooks/, in the order they were uploaded
  index,   \* pageIndex: when each file's description was built, 0 for none
  pages,   \* catalogPages and multiplierPages
  ijob,    \* the index_catalog job of each file
  pjob,    \* the parse_catalog or parse_multiplier job of each file
  djob,    \* the delete_catalog job of each book
  clock,
  search,  \* a search under way: the headers it read
  cache,   \* find_pages: the answer by watermark
  shaken,  \* a description was removed, or saved after a newer one
  budget

vars == <<book, sheet, index, pages, ijob, pjob, djob, clock, search, cache, shaken, budget>>

Sheets   == 1 .. Len(sheet)
LastPage == Max({PageCount[c] : c \in Contents})

\* A file has a name of its own, and is a catalog of its own: unique_filename
\* stamps a name that is taken (to the second: two uploads of one name within
\* it are left out), and catalog_id_for is the file's stem.
Owner(u) == IF book[sheet[u].book].multiplier
            THEN <<"multiplierPages", u>> ELSE <<"catalogPages", sheet[u].book>>
Owners   == ({"multiplierPages"} \X Uploads) \cup ({"catalogPages"} \X Books)
Content(u) == sheet[u].content
Active(job) == job.at \notin {"none", "done", "dead"}

Spend(fault) == /\ budget[fault] > 0
                /\ Cardinality({f \in Faults : budget[f] < Budget[f]} \cup {fault}) <= MaxKinds
                /\ budget' = [budget EXCEPT ![fault] = @ - 1]

Init ==
  /\ \E kind \in [Books -> BOOLEAN] :
       book = [b \in Books |-> [there |-> TRUE, file |-> NoSheet, id |-> NoSheet,
                               parse |-> "none", multiplier |-> kind[b]]]
  /\ sheet = <<>>
  /\ index = [u \in Uploads |-> 0]
  /\ pages = [o \in Owners |-> [p \in 1 .. LastPage |-> "none"]]
  /\ ijob = [u \in Uploads |-> [at |-> "none", built |-> 0]]
  /\ pjob = [u \in Uploads |-> [at |-> "none", next |-> 1, left |-> {}, alone |-> TRUE]]
  /\ djob = [b \in Books |-> [at |-> "none", id |-> NoSheet, file |-> NoSheet]]
  /\ clock = 0
  /\ search = [at |-> "idle", mark |-> 0, ids |-> {}]
  /\ cache = [mark \in 0 .. MaxClock |-> <<>>]
  /\ shaken = FALSE
  /\ budget = Budget

-----------------------------------------------------------------------------
(* The API.                                                                *)

\* enqueue of a job without a bid: one queued or running for the same bytes
\* is handed back instead, whichever file and book it is for.
Coalesced(jobs, c, kind) ==
  \E v \in Sheets : Active(jobs[v]) /\ Content(v) = c /\ kind[v]

\* upload_price_book_file
UploadPriceBookFile(b, c) ==
  LET u == Len(sheet) + 1
      same == [v \in Sheets |-> book[sheet[v].book].multiplier = book[b].multiplier]
  IN /\ book[b].there
     /\ u \in Uploads
     /\ sheet' = Append(sheet, [book |-> b, content |-> c])
     /\ book' = [book EXCEPT ![b].file = u, ![b].parse = IF Parser THEN "queued" ELSE @]
     /\ ijob' = IF Coalesced(ijob, c, [v \in Sheets |-> TRUE]) THEN ijob
                ELSE [ijob EXCEPT ![u].at = "queued"]
     /\ pjob' = IF ~Parser \/ Coalesced(pjob, c, same) THEN pjob
                ELSE [pjob EXCEPT ![u].at = "queued"]
     /\ UNCHANGED <<index, pages, djob, clock, search, cache, shaken, budget>>

\* delete_price_book: the removal is queued with what the book says now.
DeletePriceBook(b) ==
  /\ book[b].there
  /\ djob' = IF book[b].id # NoSheet \/ book[b].file # NoSheet
             THEN [djob EXCEPT ![b] = [at |-> "queued", id |-> book[b].id, file |-> book[b].file]]
             ELSE djob
  /\ book' = [book EXCEPT ![b].there = FALSE]
  /\ UNCHANGED <<sheet, index, pages, ijob, pjob, clock, search, cache, shaken, budget>>

-----------------------------------------------------------------------------
(* index_catalog.                                                          *)

Note(b, fields) == IF book[b].there THEN book' = [book EXCEPT ![b] = fields] ELSE UNCHANGED book

\* stored_hash of the file's catalog is the file's.
Indexed(u) == index[u] # 0

\* build_one up to the description: an unchanged file is not read again.
Describe(u) ==
  /\ ijob[u].at = "queued"
  /\ IF Indexed(u)
       THEN ijob' = [ijob EXCEPT ![u].at = "done"] /\ UNCHANGED clock
       ELSE /\ clock < MaxClock
            /\ clock' = clock + 1
            /\ ijob' = [ijob EXCEPT ![u] = [at |-> "save", built |-> clock + 1]]
  /\ UNCHANGED <<book, sheet, index, pages, pjob, djob, search, cache, shaken, budget>>

\* store.save: an upsert, whether or not the book is still there.
Save(u) ==
  /\ ijob[u].at = "save"
  /\ index' = [index EXCEPT ![u] = ijob[u].built]
  /\ shaken' = (shaken \/ \E v \in Sheets : index[v] > ijob[u].built)
  /\ ijob' = [ijob EXCEPT ![u].at = "note"]
  /\ UNCHANGED <<book, sheet, pages, pjob, djob, clock, search, cache, budget>>

\* The book is told its catalog, and the job is finished.
NoteCatalog(u) ==
  /\ ijob[u].at = "note"
  /\ Note(sheet[u].book, [book[sheet[u].book] EXCEPT !.id = u])
  /\ ijob' = [ijob EXCEPT ![u] = [at |-> "done", built |-> 0]]
  /\ UNCHANGED <<sheet, index, pages, pjob, djob, clock, search, cache, shaken, budget>>

-----------------------------------------------------------------------------
(* parse_catalog and parse_multiplier.                                     *)

Window(u) == pjob[u].next .. Min({pjob[u].next + WindowPages - 1, PageCount[Content(u)]})

\* Mutant: every stored row of the window counts, of any sheet.
AnyRows(u) == {p \in Window(u) : pages[Owner(u)][p] # "none"}

\* The rows of this window that are stored already, for these bytes.
Existing(u) == {p \in Window(u) : pages[Owner(u)][p] = Content(u)}

\* A parse of a book that is gone is not tried again.
ParseStarts(u) ==
  LET b == sheet[u].book
  IN /\ pjob[u].at = "queued"
     /\ pjob' = [pjob EXCEPT ![u] = [at |-> IF book[b].there THEN "window" ELSE "dead",
                                     next |-> 1, left |-> {}, alone |-> TRUE]]
     /\ Note(b, [book[b] EXCEPT !.parse = "running"])
     /\ UNCHANGED <<sheet, index, pages, ijob, djob, clock, search, cache, shaken, budget>>

\* One window: skipped when all its rows are there, else MinerU is asked.
\* It answers with a row for every page, or with fewer.
ParseWindow(u) ==
  /\ pjob[u].at = "window"
  /\ pjob[u].next <= PageCount[Content(u)]
  /\ IF Cardinality(Existing(u)) >= Cardinality(Window(u))
       THEN pjob' = [pjob EXCEPT ![u].next = @ + WindowPages] /\ UNCHANGED budget
       ELSE \E got \in {Window(u), {}} :
              /\ IF got = Window(u) THEN UNCHANGED budget ELSE Spend("short")
              /\ pjob' = [pjob EXCEPT ![u].at = "rows", ![u].left = got]
  /\ UNCHANGED <<book, sheet, index, pages, ijob, djob, clock, search, cache, shaken>>

\* What others did to the rows of this job's owner since it started.
Disturbs(jobs, owner, who) ==
  [v \in Uploads |-> IF v \in Sheets \ who /\ Owner(v) = owner
                     THEN [jobs[v] EXCEPT !.alone = FALSE] ELSE jobs[v]]

\* Rows are upserted one by one, and then the progress is noted.
UpsertRow(u) ==
  /\ pjob[u].at = "rows"
  /\ IF pjob[u].left = {}
       THEN /\ pjob' = [pjob EXCEPT ![u].at = "window", ![u].next = @ + WindowPages]
            /\ UNCHANGED pages
       ELSE LET p == Min(pjob[u].left)
            IN /\ pages' = [pages EXCEPT ![Owner(u)][p] = Content(u)]
               /\ pjob' = [Disturbs(pjob, Owner(u), {u}) EXCEPT ![u].left = @ \ {p}]
  /\ UNCHANGED <<book, sheet, index, ijob, djob, clock, search, cache, shaken, budget>>

ParseEnds(u) ==
  /\ pjob[u].at = "window"
  /\ pjob[u].next > PageCount[Content(u)]
  /\ pjob' = [pjob EXCEPT ![u].at = "parsed"]
  /\ UNCHANGED <<book, sheet, index, pages, ijob, djob, clock, search, cache, shaken, budget>>

\* MinerU is down or times out: tried again later, or given up.
ParseFails(u) ==
  /\ pjob[u].at = "window"
  /\ Spend("mineru")
  /\ \E at \in {"queued", "failed"} : pjob' = [pjob EXCEPT ![u].at = at]
  /\ UNCHANGED <<book, sheet, index, pages, ijob, djob, clock, search, cache, shaken>>

\* after_finish, the job's end being stored already.
after_finish(u) ==
  LET b == sheet[u].book
  IN /\ pjob[u].at \in {"parsed", "failed"}
     /\ Note(b, [book[b] EXCEPT !.parse = pjob[u].at])
     /\ pjob' = [pjob EXCEPT ![u].at = IF @ = "parsed" THEN "done" ELSE "dead"]
     /\ UNCHANGED <<sheet, index, pages, ijob, djob, clock, search, cache, shaken, budget>>

-----------------------------------------------------------------------------
(* delete_catalog.                                                         *)

\* The catalog the book named is removed, or else the one of its file.
RemoveIndex(b) ==
  LET d == djob[b]
      gone == IF d.id # NoSheet /\ index[d.id] # 0 THEN d.id ELSE d.file
  IN /\ d.at = "queued"
     /\ index' = [u \in Uploads |-> IF u = gone THEN 0 ELSE index[u]]
     /\ shaken' = (shaken \/ index' # index)
     /\ djob' = [djob EXCEPT ![b].at = "purge"]
     /\ UNCHANGED <<book, sheet, pages, ijob, pjob, clock, search, cache, budget>>

\* purge_pages: the rows of the book, and of the one sheet as a multiplier's.
\* A catalog that is back in the index fails the job, which is tried again.
PurgePages(b) ==
  LET d == djob[b]
      of == {<<"catalogPages", b>>,
             <<"multiplierPages", IF d.id # NoSheet THEN d.id ELSE d.file>>}
  IN /\ d.at = "purge"
     /\ pages' = [o \in Owners |-> IF o \in of THEN [p \in 1 .. LastPage |-> "none"]
                                   ELSE pages[o]]
     /\ pjob' = [v \in Uploads |-> IF v \in Sheets /\ Owner(v) \in of
                                   THEN [pjob[v] EXCEPT !.alone = FALSE] ELSE pjob[v]]
     /\ djob' = [djob EXCEPT ![b].at = IF d.id # NoSheet /\ index[d.id] # 0
                                       THEN "queued" ELSE "done"]
     /\ UNCHANGED <<book, sheet, index, ijob, clock, search, cache, shaken, budget>>

-----------------------------------------------------------------------------
(* find_pages.                                                             *)

Catalogs == {u \in Uploads : index[u] # 0}

\* Mutant: the watermark of the first header.
FirstBuilt(ids) == IF ids = {} THEN 0 ELSE index[Min(ids)]

\* headers_watermark: the latest builtAt.
headers_watermark(ids) == IF ids = {} THEN 0 ELSE Max({index[u] : u \in ids})

\* find_pages_cache_key, of one question.
find_pages_cache_key(mark) == mark

\* An answer is the set of catalogs it was looked for in.  A cached one is
\* given out and changes nothing.
Cached(mark) == cache[find_pages_cache_key(mark)]

\* The headers are read, and no answer is cached under their watermark.
ReadHeaders ==
  /\ Searched
  /\ search.at = "idle"
  /\ Cached(headers_watermark(Catalogs)) = <<>>
  /\ search' = [at |-> "rank", mark |-> headers_watermark(Catalogs), ids |-> Catalogs]
  /\ UNCHANGED <<book, sheet, index, pages, ijob, pjob, djob, clock, cache, shaken, budget>>

\* get_many of the headers' catalogs, and _cache_put.
Rank ==
  /\ search.at = "rank"
  /\ cache' = [cache EXCEPT ![find_pages_cache_key(search.mark)] = <<search.ids \cap Catalogs>>]
  /\ search' = [at |-> "idle", mark |-> 0, ids |-> {}]
  /\ UNCHANGED <<book, sheet, index, pages, ijob, pjob, djob, clock, shaken, budget>>

-----------------------------------------------------------------------------

\* A worker dies in the middle of a job, and the reaper queues it again; one
\* whose end is stored stays ended, its hook unrun.
Crash ==
  /\ Spend("crash")
  /\ \/ \E u \in Sheets :
          \/ /\ ijob[u].at \in {"save", "note"}
             /\ ijob' = [ijob EXCEPT ![u] = [at |-> "queued", built |-> 0]]
             /\ UNCHANGED <<pjob, djob>>
          \/ /\ pjob[u].at \in {"window", "rows"}
             /\ pjob' = [pjob EXCEPT ![u].at = "queued", ![u].left = {}]
             /\ UNCHANGED <<ijob, djob>>
          \/ /\ pjob[u].at \in {"parsed", "failed"}
             /\ pjob' = [pjob EXCEPT ![u].at = IF @ = "parsed" THEN "done" ELSE "dead"]
             /\ UNCHANGED <<ijob, djob>>
     \/ \E b \in Books :
          /\ djob[b].at = "purge"
          /\ djob' = [djob EXCEPT ![b].at = "queued"]
          /\ UNCHANGED <<ijob, pjob>>
  /\ UNCHANGED <<book, sheet, index, pages, clock, search, cache, shaken>>

Indexing(u) == Describe(u) \/ Save(u) \/ NoteCatalog(u)
Parsing(u)  == \/ ParseStarts(u) \/ ParseWindow(u) \/ UpsertRow(u) \/ ParseEnds(u)
               \/ after_finish(u)
Deleting(b) == RemoveIndex(b) \/ PurgePages(b)

Next ==
  \/ \E b \in Books : \/ \E c \in Contents : UploadPriceBookFile(b, c)
                      \/ DeletePriceBook(b) \/ Deleting(b)
  \/ \E u \in Sheets : Indexing(u) \/ Parsing(u) \/ ParseFails(u)
  \/ ReadHeaders \/ Rank \/ Crash

Spec == Init /\ [][Next]_vars

-----------------------------------------------------------------------------
(* Properties.                                                             *)

BooksTypeOK ==
  /\ book \in [Books -> [there : BOOLEAN, file : {NoSheet} \cup Uploads, id : {NoSheet} \cup Uploads,
                         parse : {"none", "queued", "running", "parsed", "failed"},
                         multiplier : BOOLEAN]]
  /\ sheet \in Seq([book : Books, content : Contents]) /\ Len(sheet) <= MaxUploads
  /\ index \in [Uploads -> 0 .. MaxClock]
  /\ pages \in [Owners -> [1 .. LastPage -> Contents \cup {"none"}]]
  /\ ijob \in [Uploads -> [at : {"none", "queued", "save", "note", "done"}, built : 0 .. MaxClock]]
  /\ pjob \in [Uploads -> [at : {"none", "queued", "window", "rows", "parsed", "failed", "done", "dead"},
                           next : 1 .. LastPage + WindowPages, left : SUBSET (1 .. LastPage),
                           alone : BOOLEAN]]
  /\ \A b \in Books : djob[b].at \in {"none", "queued", "purge", "done"}
  /\ search.at \in {"idle", "rank"}

\* A parse that ends has stored every page of its sheet, wherever a worker
\* crashed in a window before and whatever older sheet's rows lay under the
\* same page numbers, unless another sheet of the book or a delete was at the
\* same rows meanwhile, or MinerU answered short (ParseCatalog.py:172-239).
ParsedIsWhole ==
  [][\A u \in Sheets :
       pjob[u].at = "window" /\ pjob'[u].at = "parsed" /\ pjob[u].alone
         /\ budget["short"] = Budget["short"]
       => \A p \in 1 .. PageCount[Content(u)] : pages[Owner(u)][p] = Content(u)]_vars

\* A search answered from the cache is answered as a fresh one would be: the
\* watermark moves with every catalog that is described, however the search
\* and the indexing interleave, while none is removed and none is saved after
\* a newer one (query.py:39-43, :253-280).
ServedIsCurrent ==
  ~shaken => Cached(headers_watermark(Catalogs)) \in {<<>>, <<Catalogs>>}
=============================================================================
