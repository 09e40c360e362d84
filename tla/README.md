# CBC estimating copilot: formal models

The system reads a contractor's bid set (PDFs), has Claude extract, match and
price it, and drafts a proposal for an estimator. Its core is a job queue in
MongoDB: routes insert jobs, worker processes claim them, a Claude pass or a
local routine does the work, and what a job's end triggers moves the bid on.
Around the queue lie the things its lease does not tie together: files that
several claims share, rows that a pass and the estimator both write, caches that
outlive what they were computed from. These modules model both, check them on
small instances, and prove every safety property that the passing runs check, and the
action properties with them, for every instance. Paths below are
relative to `src/apps/backend/src/cbc/` unless they start with `src/`.

## Files

| module | what it models |
|---|---|
| `JobQueue` | the jobs collection, the worker loop, `finish()`, the reaper, the estimator |
| `ClaimLease` | the abstract promise of the queue: leases with a generation that only grows |
| `ParseGate` | the gate that holds an extract until its documents are parsed; EXTENDS `JobQueue` |
| `BidChain` | the saga of one bid: chainState, autopilot, after-hooks, late PDFs |
| `Workspace` | the scratch directory of a pass: prepare, write, promote, sync, clean up |
| `Versions` | `snapshot()`, the chain of a bid's versions, reconciling |
| `Intake` | uploads: reserve, receive, deduplicate, persist, the quiet window; EXTENDS `Versions` |
| `Openings` | `import_extraction` and the estimator's edits of openings |
| `Takeoff` | `door_schedule.json` through a run: seed, clone, edit, promote, measure, gate, import |
| `Quote` | quote lines, repricing, the import and export of priced lines |
| `PriceBooks` | upload, index, parse, delete and search of price books |
| `Terminal` | the recording of a run and the browser that follows it |
| `References` | a family of reference data: edit, archive, replace, seed, what was in force when |
| `Learning` | corrected lines, and the drains that fold them into the matcher's rows |
| `MatchCache` | the matches of a bid that a later pass need not decide again |
| `Provider` | which Claude a run talks to: environment, `.env`, settings document, screen |
| `Proposal` | the proposal's document and its hand-off |
| `CostCaps` | the spend caps: claiming under them, and the metrics they are summed from |
| `Desk` | `Workspace`, `Openings`, `Takeoff`, `PriceBooks` and `Terminal` side by side: their constants, what is asked of these, and their properties |
| `Office` | the same of `References`, `Learning`, `Provider`, `Proposal` and `MatchCache`; EXTENDS `Quote` |
| `JobQueueProofs` | theorems about the queue: types, attempts, exclusion, fencing; late writers and `ClaimLease`; one session on a bid, what is announced as done |
| `ParseGateProofs` | the gate refines the queue and starts nothing too early |
| `BidChainProofs` | the saga: covered documents, merged and reviewed before pricing |
| `VersionsProofs` | the chain of versions |
| `IntakeProofs` | uploads leave the chain to `snapshot()`: `Intake` implements `Versions` |
| `QuoteProofs` | hand work, settled prices and totals under overlapping requests and imports |
| `DeskProofs` | the scratch, the openings, the take-off, the price books and the terminal |
| `OfficeProofs` | the reference data, the lessons, the settings, the sign-off and the reused matches; EXTENDS `QuoteProofs` |
| `MC*` | instances for TLC; `MCDesk` and `MCOffice` hold several, one *part* each |
| `*.cfg` | the runs |
| `PROJECT.json` | components, runs, mutants, the map to the source, findings, hazards, theorems |

A run is checked with `tlc -config <run>.cfg <module>` (for example
`tlc -config queue_fencing.cfg MCJobQueue`), a proof with
`tlapm JobQueueProofs.tla`.

## The system

| component | where | state | operations | what must hold |
|---|---|---|---|---|
| job queue | `modules/ops/api/jobs.py`, `api/worker.py` | `jobs`: status, workerId, claimGeneration, attempts, heartbeatAt, nextAttemptAt | enqueue, extend, retry, reserve, cancel, finish, requeue, defer | one active pipeline job per bid; attempts bounded; late writers change nothing; every job ends and its end is told |
| worker loop | `modules/ops/features/WorkerLoop.py` | what each process holds in memory, `_stop` | claim, reap, run_claimed | abandoned jobs come back; one session per bid |
| Claude pass | `modules/ops/api/claude_pass.py` | scratch directory, recording, cancel event | run, watch_cancel, shutdown, sync | output of a lost claim is discarded |
| parse gate | `worker.py` `defer_if_parsing`, `modules/intake/features/ParseDocument.py` | `documents.parse.state` | defer, parse, after_finish | an extract waits for every parse, and not for ever |
| saga / autopilot | `modules/projects/api/` | `bidRequests.chainState`, `autopilot` | run_pass, set_state, maybe_continue_chain, dead_letter | the chain advances only on a finished step and never past a failure or an open review |
| extraction sync | `modules/extraction/features/ExtractBidSet.py`, `api/passes.py` | document states, stragglerPending | check_output, mark_received, merge pass | late PDFs are merged before pricing |
| sandbox | `worker_kit/sandbox.py` | `_scratch/<job id>` | prepare, promote, cleanup | two runs of a job never mix files |
| uploads | `modules/intake/features/UploadDocument.py` | documents, files, the waiting job | upload, coalesce, supersede | a burst of files is one run, started by the ceiling |
| versions | `modules/intake/infrastructure/snapshot.py` | the versions chain | snapshot, reconcile, diff | numbers unique, the newest is open, a sealed one stays |
| take-off | `modules/extraction/infrastructure/pretakeoff.py`, `geometry.py`, `api/validation` | `door_schedule.json` | seed, measure, gate, export | the estimator's decisions carry over; no invented evidence |
| openings | `modules/extraction/api/door_schedule.py` | openings | import, edit, confirm, add, delete | decisions survive; one opening per door |
| quoting | `modules/quoting` | quote lines, totals, `line_items.json` | persist, import, export, edits | hand work survives; a quoted price stands; totals match |
| proposal | `modules/quoting/features/MarkComplete.py`, `UpdateProposal.py` | the proposal, `handedOffTo` | settings, artifacts, sign off, hand off | no hand-off without an approval |
| reference data | `modules/pricing/api/reference_store.py` | `referenceData`, its revisions | put, delete, seed, as_of | history answers with what a bid was quoted with |
| match learning and reuse | `modules/extraction/api/feedback.py`, `modules/catalog/api/learning.py`, `matchcache.py` | `feedbackEvents`, `matchLearning`, `_matchcache.json` | record, drain, confirm, mark; ingest, reuse | no lesson is lost; the latest one stands; nothing stale is reused |
| cost caps | `modules/ops/api/cost_budget.py`, `runmetrics.py` | `runMetrics` | record, sum, skip | no claim over a cap that is spent |
| provider settings | `modules/ops/api/provider.py`, `shared/envfile.py` | the settings document, `.env`, the environment | save, test, sign in, build_env | a run gets what was tested and saved |
| catalog | `modules/catalog` | price books, page index, stored pages, search cache | upload, index, parse, purge, find | a parse stores its sheet; a search is current |
| terminal | `modules/ops/infrastructure/streaming.py`, `modules/ops/features/StreamTerminal.py`, `src/apps/web/hooks/use-job-recording.ts` | recordings, event streams | record, replay, tail, reconnect | the browser shows a session's recording, all of it; sessions do not mix |

Processes interact through MongoDB documents and the project tree alone: the API
inserts and cancels, workers claim and finish, and any worker reaps for any
other. Inside a worker `ops` calls back into the modules that own a job type: its
handler, its after-hook and `dead_letter`. Nothing but the single-document
atomicity of `update_one` and `find_one_and_update`, a few unique indexes and the
fencing token `claimGeneration` keeps processes apart. That is where the hard
behaviour is: reads and writes that are separate operations, workers that are
declared dead and wake up, crashes between an update and the hook behind it,
shutdowns that look like cancels, and imports that decide from what they read
earlier.

In every module an action is one MongoDB operation, one file written, or one
request's answer, so that whatever another process can do between two operations
of a function is an interleaving of the model. A transaction, where the code has
one, is one action.

## JobQueue

Each action is one MongoDB operation, so that everything another process can do
between two operations of a function is an interleaving of the model.

| state | in the code |
|---|---|
| `doc[j]` | a document of `jobs`; `beat` and `due` abstract heartbeatAt and nextAttemptAt |
| `pc[w]` | where a worker process stands between two operations |
| `run[w]` | the document its claim (or the reaper's find) returned |
| `call[w]` | the arguments of the `finish()` under way; `rescue` marks the one `run_claimed` makes after an exception |
| `todo[w]` | what `reap_abandoned` has read and not yet updated |
| `stopping[w]` | `_stop` |
| `cancelling` | cancel requests past their status check |
| `told` | history: endings given to an after-hook or to `dead_letter` |
| `budget` | how many disturbances are left |

| actions | in the code |
|---|---|
| `Enqueue`, `Extend`, `Retry`, `Supersede`, `CancelActive` | `jobs.enqueue`, `extend_queued_coalesce`, `retry`, `reserve`, `cancel_active_for_project` |
| `CancelRead`, `CancelWrite` | the check and the update of `CancelJob.cancel_job` |
| `Claim`, `NothingDue`, `Exits` | `WorkerLoop.claim` and `loop` |
| `Sweep`, `Reap`, `Bury` | the find, each update and the `dead_letter` of `reap_abandoned` |
| `GateRead`, `GateDefer` | the find and the update of `defer_if_bid_busy` |
| `WaitRead` | the finds of `defer_if_parsing` and `defer_if_catalog_parsing`, for the jobs in `Waits`; either outcome, because what they read is not the queue's (`ParseGate` says which) |
| `Beat` | `heartbeat_once` |
| `Succeeds`, `Fails`, `Raises`, `SeesCancel`, `Interrupted` | the ways a pass ends (`claude_pass.run`, `run_claimed`) |
| `ShutRead`, `ShutWrite` | `requeue_for_shutdown` |
| `FinRead`, `FinCancel`, `FinWrite`, `After` | `finish`: the find, the cancel update, the guarded update, the hook |
| `MongoFails` | an exception inside `finish()` and the rescue in `run_claimed` |
| `Crash`, `Restart`, `Stop` | the process dies, is restarted (`restart: unless-stopped`), gets SIGTERM |
| `ComesDue`, `GoesStale` | the clock |

Abstractions, and why they are sound for the properties:

- **Time.** A backoff, a deferral and a coalesce window are all "not due yet";
  `ComesDue` ends any of them at any moment, so every order that some choice of
  delays allows is explored. A heartbeat goes stale at any moment when nobody
  stands behind the claim; with a live worker behind it that takes a *stall* out
  of the budget.
- **Application-level checks.** `enqueue`, `retry` and `enqueue_exclusive` look
  for an active job before they write. Between the look and the write anything
  may happen, so only the index decides; the look is left out because it permits
  nothing the index forbids. With `UniqueIndex = FALSE` (the index is dropped and
  rebuilt by `replace_index` at start-up) even the index is gone.
- **One claim per process.** `WORKER_CONCURRENCY` defaults to 1. More slots are
  more workers that share a fate, except that they also share a worker id.
- **Left out of the job document:** notes, logs, errors, recordings, audit
  records, timestamps nothing branches on.
- **Raising writes.** A write that makes a job active while a rival is active
  raises DuplicateKeyError (`Clashes`); `run_claimed` turns the first exception
  into a `finish()` of its own and swallows the second (`Escapes`).


### Properties

- `AttemptsBounded`: refunds (deferral, shutdown) and charges (claim) balance
  whatever is reaped or finished in between.
- `ClaimsFenced`: two workers that believe they run one job hold different
  generations, and the one that passes `owns_job` has the newest.
- `OneActivePerBid`: what the partial index buys, through every write that makes
  a job active again.
- `OneSessionPerBid`: the run-time gate alone, without the index. The gate is a
  find and the claim precedes it, so of two workers the second always sees the
  first's "running". It holds without stalls and cancels, which defeat it by design: a
  reaped worker and a cancelled pass go on for a while.
- `AnnouncedIsDone`, `ReplacementUndisturbed`: the documents' promises about late
  writers and hooks; see the findings.
- `ImplementsLease`: the queue refines `ClaimLease`. A session is a worker with a
  claimed job in hand. Under crashes, stalls, deferrals and retries a job changes
  status only by a grant, by the newest claim's own settlement, by a revocation
  that fences the claim first, or by a retry.
- `EveryJobEnds`, `EndingsTold`: liveness. `EndingsTold` has the exception
  `~Unharmed` since the code has it: a job is written "done" before its hook runs,
  and no later sweep looks for hooks that a crash or a failed write swallowed.

Bounds. `MaxAttempts = 2` has both a retry and an exhausted job. Two jobs of one
bid are what every exclusion is about, and a fault of each kind is what every race
in the list of hazards takes; two workers are the lost one and its replacement,
and the reaper is one of them. `MaxGen` stops a job from coming due again: at 9,
in `queue_recovery`, no job ever reaches it (its attempts and the budget are spent
before); at 4 in `queue_fencing` and 2 in `gates` each job is claimed often enough
for a deferral, a disturbance and a last run, while jobs that keep being deferred
would otherwise be claimed for ever. Where the workers are interchangeable and only
safety is checked (`queue_fencing`), the run uses their symmetry.

Fairness (`FairSpec`). A worker keeps taking steps and comes back after a crash:
every pass has a timeout, MongoDB operations return or raise, containers restart
unless stopped. Time passes, so a queued job comes due and an unattended heartbeat
goes stale. A cancel request that has begun completes. Nothing forces an
estimator, an operator or a fault, and `SeesCancel`, `Fails` and `Succeeds` are
not fair one by one: the loop is fair as a whole, so a pass may end in any way.
Fault counts are finite, because a worker that crashes for ever lets no job end.

## ParseGate

`defer_if_parsing` keeps a Claude pass from reading PDFs that MinerU has not
parsed. It looks in two places: the `parse_document` jobs, which the queue's code
brings to an end, and `parse.state` of the documents, which the upload, the parse
and its after-hook write with plain updates that ask for no lease. `ParseGate`
EXTENDS `JobQueue`, adds the documents and refines `WaitRead` into the two finds;
every other action is the queue's with what it does to a document conjoined.

| state | in the code |
|---|---|
| `parse[j]` | `parse.state` of the document that parse job `j` is for; "none" before the upload, "deleted" after a delete |
| `ready[w]` | at the gate: the find in `jobs` came back empty and the find in `documents` is next; in a parse: `parse_document` has marked its document running |

| actions | in the code |
|---|---|
| `JobsFind`, `DocsFind` | the two finds of `defer_if_parsing`; its deferring update is `GateDefer` |
| `BeginParse` | `parse_document` finds its document and marks it |
| `EndParse`, `HookFails` | `finish()` calls `ParseDocument.after_finish`; the hook raises before or after it has marked the document |
| `Upload`, `DeleteDocument` | `UploadDocument`'s transaction, `delete_document` |
| `Plain`, `Around`, `Asks` | the steps of worker, faults and estimator that touch no document |

The instances have `PARSER_URL` set (without it the gate is a no-op). In `gate_settles`
a process for parses stands beside one for passes, as `CLAIMABLE_TYPES` divides them; in
`gates` one process runs passes only and the other whatever is due, so that a parse may
be finished under a pass that is being let through, and two processes compete for a bid.

- `StartsSettled`: although the two collections are read one after the other, no
  pass gets through while a document of its bid that is left has a parse queued or
  running. What makes it hold is the order: jobs first, documents second, and an
  upload that writes both at once. An operator's retry of a dead parse between the
  two finds would slip through (its document is "failed", which does not block), so
  the run has none and the theorem excludes it.
- `DoneIsParsed`: `parse.state` agrees with the job's announced end. It is out of reach
  of a test because both are written after the job itself, by a hook that does not look
  at the lease.
- `ParsesSettle` (liveness): every document leaves queued and running.

Bounds. `gates` has one document, the pass that waits for it and a pass of the same bid
that does not, two attempts each and one crash: the waiting pass is let through by
either order of the parse's end and the two finds, deferred by either gate, reaped and
run again by the other process (4.1 million states; with a SIGTERM as well it has 23.1
million and was checked once with the same result). Uploads, deletions and hooks fall
anywhere in it without a budget. Several documents, cancels and any other number of
workers are the theorems' part, see below. `MaxGen = 2` lets the waiting pass be
deferred once and come back; in `gate_settles`, 4 is a parse claimed twice, retried and
claimed twice more. Fairness is the queue's. As in
`EndingsTold`, a crash or failed write between a job's end and its hook is
excepted: the document then stays queued or running, and nothing repairs it.

## BidChain

The saga of one bid: uploads that start an extract, the chain autopilot builds from
it (extract, price, propose), PDFs that land while a pass runs, and chainState.
`finish()` is one step here and the unique index is taken for granted; what is kept
apart is every write of a handler and of an after-hook, since chainState is written
by all of them without the lease.

| state | in the code |
|---|---|
| `jobs[j]` | type, status, owner, generation, `orchestrate`, `stragglerPending`, and the documents uploaded before `startedAt` |
| `docs[d]` | the upload's stages, then the document's state; `auto` is the autopilot switch the upload read |
| `bid` | `chainState` and `autopilot` |
| `disk` | the PDFs the live take-off covers, and the verdict `extraction_review_verdict()` reads from it |
| `pc`, `hold`, `seen` | a worker's place, its claim, and the PDFs in its clone |
| `posts` | chainState writes announced by an event and not yet made (requeue, `dead_letter`) |

| actions | in the code |
|---|---|
| `Reserves`, `Lands`, `Inserts`, `Refused` | `upload_document`, `_persist` |
| `Manual`, `StartAutopilot`, `SwitchAutopilot`, `Cancels`, `Retries`, `Posts` | the routes, and `on_job_requeued` |
| `Claims`, `Starts`, `PutsBack`, `Declines`, `Clones` | claim, `run_pass`, the gates, `prepare()` |
| `Fails`, `Promotes`, `Checks`, `Marks`, `Verdict`, `Finishes` | the pass, `check_output`, `mark_received`, `sync_results`, `finish()` |
| `QueuesMerge`, `Advances`, `Offers`, `QueuesNext`, `Announces`, `Blocks` | `_queue_straggler_reextract`, `maybe_continue_chain` |
| `MarksFailed`, `Regroups`, `Buries` | the after-hook of a dead extract, `dead_letter` |
| `Crashes`, `Reaps` | a worker dies; the reaper |

- `ReadIsCovered` (with the types): a document shown as read is covered by the take-off on disk,
  although `mark_received` goes by `startedAt` and the take-off by a later clone.
- `MergedBeforePricing`: autopilot never inserts the pricing job while a document
  is missing from the take-off.
- `ReviewedBeforePricing`: nor while the take-off needs review, in whatever order
  passes, merges, retries and crashes wrote chainState.
- `ChainRests`, `DocumentsSettle` (liveness): an orchestrated chain ends in a draft
  or in a state that asks for the estimator; an uploaded document is read or failed.

Bounds. Two PDFs are one that starts a pass and one that comes late; two workers
are the two containers of `src/docker-compose.yml` with their split of the job
types; six jobs are an extract, two merges, pricing, proposal and one of the
estimator's. `Budget` allows one disturbance of each kind and `MaxKinds = 1` one
kind per behaviour. `Prompt = TRUE` says that the two or three writes of an
after-hook are over before the next pass promotes its output (a pass takes minutes);
without it a hook delayed by a whole pass rewinds chainState, which the code allows.
Fairness: the worker polls and its coroutine runs on, a crashed worker's job is
reaped, a request under way is answered, an event handler runs. Nothing makes the
estimator act or retry.

## Workspace

Claims of one job share `_scratch/<job id>`: the scratch is named by the job, the
lease by the claim, and between the clone and the sync nobody asks for the lease.
`live` and `scratch` hold, for each artifact, who wrote it; `base` and `wrote` say
what each claim cloned and wrote. `prepare`, `PrepareFails` (the fallback to the live
tree), `Writes`, `promote` (the guard on the priced lines) with `Copies` (one file at
a time), `cleanup`, `Syncs`, `Discards` are `worker_kit/sandbox.py` and its callers in
`claude_pass.py`; `Crash`, `Reap` and `Export` come from outside.

- `IsolatedFromTheDead`: what a claim promotes it wrote itself or cloned.
- `SyncedIsOwn`: the database is given what the job's last claim wrote, all of it,
  wherever earlier claims crashed, half-way through a promotion included.

Three claims allow two crashes and the run that must survive them. The properties are
stated without stalls: a stalled worker that is alive shares the directory with its
replacement (`sandbox.py:76-81`).

## Versions and Intake

`Versions` is `snapshot()` one operation at a time, with concurrent requests, requests
that die half way, the retries on a taken number, `mark_reconciled` (a guard and a
guarded write) and `record_addendum_diff`. `Intake` EXTENDS it with uploads and the
bid's one pipeline job: `Reserves` and `Supersedes` are `reserve_pipeline_slot` and
`supersede_queued`; `Receives`, `Duplicate`, `Extends`, `Fresh` the file, its hash and
the quiet window; `Persists` and `Refused` the transaction of `_persist`; `AsksFreeze`,
`AsksPass`, `QueuesPass` `create_version`; `Deletes`, `Reruns`, `Tick`, `Claims`,
`Ends` what happens around them.

- `SealedBySuccessor` (it implies `NewestIsOpen`), `ReconcileRespectsSeal`: the chain of versions
  can be walked both ways from every sealed link, the newest version is the head of
  the next addendum, and no version becomes reconciled once sealed, though two
  requests may follow one head and either may die between its insert and its seal.
- `IntakeTypeOK` includes that two uploads of the same bytes never both become
  documents.
- `QuietWindowEnds` (liveness): a queued extract starts, however many files arrive.

Bounds. Two requests cover every pair of upload, addendum, version with a document
and version without (`EveryPair`); two files and one content are a duplicate; three
versions are a fork of the head and one version more; a window of one tick under a
ceiling of two lets an upload push the start and then fail to. Fairness: time passes
and workers poll; nothing is asked of the uploads.

## Openings

An extraction's sync reads the openings (`Reads`), asks for the lease (`HoldsLease`), and
sends one unordered bulk write; the estimator renames, corrects, confirms, deletes and
adds meanwhile. `distinct_keys` is the identity of repeated marks by their order, `Taken`
the unique index, `Kept` the test for what is the estimator's. `Operations` are the doors
the bulk write changes more than the evidence of. MongoDB performs them one by one
(`Insert`, `Update`): the driver sends the inserts before the updates, and the order
between marks is left open. An operation that is refused leaves the others written
and fails the call at its end (`apply_bulk`).

- `KeepsDecisions`: what was confirmed or added by hand when the import read it is
  left alone, also where a verdict put it back to needs_look.
- `OneOpeningPerDoor`: an import nothing shakes gives each scheduled door one opening,
  none a second one, and is never refused.

A schedule that lists one door twice or another in its place, two imports that may
overlap, two kinds of estimator's actions in a behaviour.

## Takeoff

`door_schedule.json` through a run. A row says whose it is, whether its box was
measured or made up, and what its page is; the document has the four shapes the
readers tell apart (`openings`, a bare array, `lines`, both). `seed_door_schedule`
with `_merge`, `Clones`, `Pass`, `Promotes`, `measure_bboxes`, `Gate`,
`import_extraction` are the run; `Adds`, `Confirms`, `RerunExtraction` the estimator,
whose export writes over the document before the 409 is decided. The pass may say of a row
of its own that it was added by hand: `_merge` then keeps it, the gate asks it for no box
but refuses an invented one. Openings of one page number are measured together, on the
file the first of them to name one names, so each row is measured on its own page or all
of them on the page one of them cites (`Cited`).

- `SeedKeepsNumbered`: a reseed carries (`Carries`: number, settler, id, by hand) every
  opening a person settled that has a number of its own.
- `ImportedIsLocated`: no opening on an integer page of an upload is imported with a
  box that is not real.

Two runs and two of the estimator's acts: an act must precede a seed to be carried,
and one may fall inside the run.

## Quote

`persist()` is four steps (`ReadsQuote`, `lines_for`, `WritesLines`, `WritesTotals`);
a pass's sync is `Prices`, `Imports` (the lease, the file; a file without lines goes
straight to the persist), `ReadsRows`, `Checks`, `Bulk` and then a persist; requests
add, override, recost and delete lines, set freight and jurisdiction, continue to the
proposal, and change the margin framework or the bid's state elsewhere. A price is
the pair of cost and margin it follows from.

- `HandWorkSurvives`: an import removes no hand line and writes over no override.
- `QuotedPriceStands`: a settled price moves only with its own cost or margin.
- `TotalsMatch`: totals are those of the lines after a repricing that nothing
  overlapped.

Two requests and two passes, any two of the four under way at once, one line key that a
pass exports without a margin, and two rows: the race of two writers and the state they
leave to a third. A row that has held a line never holds another (`key` is None only in
an untouched row), as no `_id` is used twice. `QuoteProofs` has the invariants for every number of each.

## PriceBooks

Uploading a book's sheet queues an index job and a parse job; nothing keeps the jobs
of two sheets apart. `Describe`, `Save`, `NoteCatalog` are the index job;
`ParseStarts`, `ParseWindow`, `UpsertRow`, `ParseEnds`, `ParseFails`, `after_finish`
the parse; `RemoveIndex`, `PurgePages` the delete; `ReadHeaders`, `Rank` a search and
its cache.

- `ParsedIsWhole`: a parse that ends has stored every page of its sheet, resuming over
  whatever rows lay there.
- `ServedIsCurrent`: a cached answer is what a fresh search would give.

Once with three sheets indexed under a search, once with two sheets, of one page and
of three, parsed in windows of two pages; one crash, parser failure or short answer.

## Terminal

The worker's side (`Claim`, `WriteBanner`, `PointJob`, `OpenRecorder`, `Record`,
`Finish`, `Crash`, `Cancel`) records a session in a file named after its attempt. Every
claim has a new `generation`, but an attempt's number comes again: `Requeue` (a shutdown,
a deferral) gives it back, and `Retry` (an operator) counts from one. The next recorder
then opens the same file from its start, under whoever reads it. A line therefore names
the session that wrote it. The server's side (`GetJob`, `Replay`, `OpenStream`,
`PollJob`, `TailFile`, `IdleOut`) looks at the job now and then and at the file more
often, and reads a file that has become shorter than its position from the start; the
browser (`Receive`, `Drop`) resumes from its offset and appends what it is sent.

- `ShowsRecording`: what the browser shows of one claim's session (`Follows`: copied once
  the session's recorder had opened the file, the job not claimed again since) is its
  recording from the start without a gap or a repeat, and all of it once the browser is
  told the run is done.
- What a later claim under the same number does to an open page is left out of it: the
  page appends the new session, see "seen while modelling" under Findings.

Two claims of two lines, two lost connections: a connection lost with output in flight,
one lost after the job has ended, and a claim that reuses the first one's number. The
limit on attempts is left to `JobQueue`; a dead job's crash stands for its reaping, so a
stalled worker that records on beside its replacement is not modelled.

## References

`put_family_sync` stamps the new document, looks for the old one, archives it under
its two stamps and replaces it; `Loads` is the read that an edit starts from (the seed
stands in for a document that is missing, or for a database that is down), `Crash` and
`Outage` fall between any two. `as_of` looks for the oldest revision that spans the
moment.

- `HistoryAnswers`: what a bid was quoted with while nobody was editing can be asked for
  ever after, whatever edits follow, overlap or die.

A seed of two entries; an edit, one under it and a third; two quotes; one crash, one
outage.

## Learning

`record`, `unapplied`, `confirm`, `mark_applied`: the drain reads a batch of events,
folds each into the row of its specification and marks what it read.

- `LessonsKept`: what is marked has been taught; once all is marked, a specification
  means what its latest correction says, if no two drains overlapped.

A batch is a set of events, gone through by their age (`Oldest`, `todo`); a row keeps the
events that taught it as a set (`sources`), beside how often it was confirmed.

Three corrections of one line and three drains of two events at most: a drain that does
not finish the queue, one that finds it grown, one that repeats the work of one that
died.

## MatchCache

`ingest` follows each pass (`Ends`), `reusable` precedes each pricing (`Prices`);
`Matches` copies what the prompt lists and decides the rest; `Extracts` takes a new
schedule off the sheets and may write the legend over the matches. Catalogs are indexed
(`Reindexes`), the schedule is edited (`Exports`), the index goes away and comes back
(`Outage`), a pass dies with its matches written (`Fails`).

- `ReusedStands`: what a prompt lists for copying was decided, with confidence, on the
  catalog and the schedule of that moment. `shaken` excepts what is listed under "seen
  while modelling": something moved under the pass that decided, or a pass ended over the
  matches of an earlier one.

Two items, two states of the catalogs, three of the schedule, three passes: a match, a
copy of it, and a copy that no longer stands.

## Provider

Every credential and endpoint has three homes, `environ`, `envfile` and `row`, in the
order in which `build_env` asks them; the Test button asks the last two the other way
round. A save reads the document (`Reads`), writes it (`WritesRow`) and then the file
(`WritesFile`); `oauth_code`, `EditsFile`, `LosesKey`, `FileFails`, `load_config` happen
around it. Masks say nothing: `body` holds the fields that were typed.

- `TestedIsServed`: after a save that nothing interfered with, a run is given what the
  Test button would have tried.
- `MaskLeavesAlone`: see the findings.

Three providers of which two share a field; two saves, so that one is followed by
another of another provider; one of each thing that happens around them.

## Proposal

`mark_complete` checks the sheets, reads the totals, finds the proposal, approves it,
completes it and routes the bid, one operation after the other, none of them
conditional; `update_proposal` and `import_proposal_artifacts` upsert beside it, a line is
edited, a day goes by (`Changes`).

- `RoutedIsApproved`: a bid in a salesperson's queue has a proposal somebody approved.

Two sign-offs by two estimators, three acts, one death: enough for two documents of one
bid, an act between any two operations, and a second sign-off after a dead first.

## CostCaps

`claim()` with a cap set is `Looks`, `Weighs`, `Takes`: the oldest job not passed over, the
sums of `over_budget`, and the claim, each after an await of its own. `Finishes` and
`Records` are a pass's end and its metrics, with the types they are stored under. `bills`
is what was ever recorded.

- `SkipsAtCap`: see the findings.

## Runs

| run | instance | disturbances | shows |
|---|---|---|---|
| `queue_fencing` | 2 workers, 2 jobs of one bid ; job 1 waits for something else | upload, stall, retry (one each) | `ReplacementUndisturbed`, `OneActivePerBid`, `ImplementsLease` |
| `gates` | 2 workers, 1 document, 2 passes of its bid, no unique index | crash | `OneSessionPerBid`, `AnnouncedIsDone`, `StartsSettled`, `DoneIsParsed` |
| `queue_recovery` | 2 workers, 1 job | crash, MongoDB failure, stop, stall, cancel | `AttemptsBounded`, `ClaimsFenced`, `EveryJobEnds`, `EndingsTold` |
| `gate_settles` | 1 document, 1 extract, two attempts | retry, MongoDB failure | `ParsesSettle` |
| `chain_advances` | 1 bid, 2 PDFs, 2 containers | one of seven kinds | the five of `BidChain` |
| `intake` | 2 requests, 2 files, 3 versions | crash, refused transaction | the three of `Intake` and `Versions`, and their types |
| `desk` | five components, `PriceBooks` in two instances, see each module | see each module | the nine of `Workspace`, `Openings`, `Takeoff`, `PriceBooks`, `Terminal`, and their types |
| `office` | six parts, see each module | see each module | the eight of `Quote`, `References`, `Learning`, `MatchCache`, `Provider`, `Proposal`, and their types |
| `queue_shutdown` | 2 workers, 1 job | stall, stop | violation of `ReplacementUndisturbed` |
| `quote_tax` | 2 requests | | violation of `ShipToDecides` |
| `settings_mask` | 2 saves | one edit by hand | violation of `MaskLeavesAlone` |
| `cost_caps` | 1 worker, 3 jobs of 2 bids | | violation of `SkipsAtCap` |

`Desk` and `Office` put several components side by side, with constants of their own, so
that two runs check them and two modules prove about them. In `desk` and `office` the
initial state picks the part that moves, and the others stay where they began: the parts
share no variable, so nothing would be learnt from interleaving them. The theorems are
about each part's own specification, and about all of them at once for the types. Runs
check for deadlock except `chain_advances`, `desk`, `office` and the last three, where a
bid, a price book, a quote or a queue really comes to rest.

## Findings

1. `queue_shutdown`. A stalled worker is reaped and its job re-claimed; then it
   receives SIGTERM. The stop reaches the pass through the cancel event, the pass
   reports "cancelled by estimator", `requeue_for_shutdown` declines (not the
   owner) and `finish()` takes the one branch whose update is filtered on `_id`
   only (`worker.py:243-255`): the replacement's running job becomes "cancelled".
   `src/docs/backend/worker.md:68-71` promises the opposite.
2. `quote_tax`. `persist()` stores the jurisdiction it computed; once the bid's state
   changes, that stored value differs from it and is taken for the estimator's ruling
   (`modules/quoting/api/quote.py:79-80`). The docstring, `quote.py:69-71`, says the
   ship-to state is authoritative on every reprice.
3. `settings_mask`. The screen shows the mask of a credential wherever it comes from. A
   form that comes back with the mask keeps what the document holds, which is nothing for
   a credential that an operator wrote into `.env`, or that was sealed under an older key;
   the mirror then removes it from `.env` (`ClaudeSettings.py:73-91`). The comment there
   says a mask "means leave this alone".
4. `cost_caps`. `document_for` stores `startedAt` as text and `projectId` as text
   (`modules/ops/api/runmetrics.py:371-389`); `spend_usd` looks for a date and an ObjectId
   (`modules/ops/api/cost_budget.py:20-26`). MongoDB compares within a type, so every sum
   is 0 and no cap holds anything back, while `claim()` says it skips any job "whose
   project/day spend is already at cap" (`WorkerLoop.py:125-127`). The spend page asks the
   same way. With both fields stored in their own types the property holds of the model.

Seen while modelling, and not contradicted by any document but, in part, a docstring
about recordings; the properties are stated so that they leave these out, as their
comments say:

- `finish()` never reads the result of its guarded update, so a hook may announce an
  ending that was not written (a job reaped in between); a cancel between its find and
  its update is lost, and `cancel_job` can overwrite a job that has just finished. A
  hook that raises makes `run_claimed` finish a done job a second time, as a failure.
- A parse job that is cancelled, or declared dead by the reaper, never runs the hook
  that ends `parse.state`: the bid's extract is deferred every 15 seconds for ever. An
  operator's retry of a dead parse between the gate's two finds lets an extract start.
- After a cancel chainState keeps saying extracting, and a new job may start a session
  beside the cancelled one.
- Metrics are keyed by job and attempt, and a retry counts attempts from one again: what
  the first attempts cost is written over. The cap is read before the claim, by several
  workers, and the metrics are written after the job is finished.
- A stalled worker that is alive shares the scratch with its replacement and promotes
  its outputs without asking for the lease.
- A version frozen by an addendum whose upload then fails stays unread. Two uploads of
  one name in one second share a stamped name.
- `_merge` looks rows up by mark, so a row without one, and all but one of several decided
  rows of one mark, are dropped from the document the next run starts from
  (`pretakeoff.py:102-121`), though its docstring carries decisions across untouched.
- A bulk write of openings that meets a renamed opening is refused at every retry.
- A made-up box escapes the measuring when its page is no integer or its file no
  upload; a document of the shape with both lists passes the gate and imports nothing.
  Rerun and continue-to-proposal write their documents before the 409 is decided.
- An overlapped `persist()` writes an old margin, freight or jurisdiction back; an
  import writes over cost-only edits and applied vendor prices, and brings back a line
  deleted while it ran.
- Two books with the same PDF: the second is handed the first one's parse job and waits
  for ever. Re-uploading a book leaves the index of its old file. The search cache's
  watermark does not move when a catalog is removed or an older-stamped one is saved
  later. Two sheets' parses, or a parse and a purge, mix their rows.
- Settings: a browser sign-in stores its token in the document only, while an older token
  in `.env` keeps winning. Between the document and the file a run mixes the two. A save
  whose file cannot be written leaves the old values in force. Fields shared by two
  providers are kept on switching, and a field cannot be cleared from the form.
- References: overlapping edits lose one of the two; an edit during an outage puts the
  seed back with the edit; `as_of` of a moment before the first document answers with
  today's.
- The match cache stamps matches with the catalog and schedule of the moment a pass ends:
  after an index that ran under the pass, or a pass that left `hardware_sets.json` alone,
  old matches pass for new ones. It finds matches under "groups" and "items" only; the
  contract and the normaliser also know "sets" and "hardware_sets", which leave it empty.
- Learning: overlapping drains count a lesson twice, and the older correction may have the
  last word.
- Proposals: the index on the bid is not unique, so two first writes make two documents
  and a hand-off may be of the one nobody approved. A second sign-off beside the first
  replaces its totals; a later one keeps them. An acknowledgement of lapsed sheets is for
  ever. What is rendered shows the totals of the moment.
- A recording is named after the job's attempt (`streaming.py:352-356`), a requeue takes
  one off (`worker.py:368`) and an operator's retry sets it to 0 (`jobs.py:421`), so the
  next recorder may open a file that a page still shows, with `"wb"`
  (`streaming.py:157`). The page goes on from its offset in the new session, or from its
  start if the file is shorter (`StreamTerminal.py:68-79`), and appends. That retries
  "get their own file so a second Claude pass does not look like an unexplained second
  session appended to the first attempt's log" (`streaming.py:344-345`) is true of the
  worker's own retries only. TLC finds such a page at once when `ShowsRecording` is asked
  without `Follows`: claim, one line, requeue, claim, a page opened meanwhile.
- The retry banner is overwritten by the recorder that opens the same file
  (`streaming.py:360-365`); after a retry that has a file of its own an open stream keeps
  its offset in the new file; a dead job ends the stream only by its idle timeout.
- The import orders openings by mark and `createdAt` (`door_schedule.py:164`), so two
  openings of one mark created in one instant could change places between imports; the
  model gives every opening a time of its own.
- `prepare` removes a scratch with errors ignored and clones over what is left
  (`sandbox.py:118-119`). The model's removal succeeds; the mutant `Overlay` shows that
  `IsolatedFromTheDead` rests on that.
- `_archive` returns without a word when the process has no collection to write to
  (`reference_store.py:248-250`), and the replacement goes on. Edits have asked for the
  same client a moment before, so only the seed of a process that has just started could
  meet it; the model ends such an edit.

## Proofs

### The queue under every fault

`JobQueueProofs` proves, from `QueueAssumption` alone (any number of jobs, workers
and bids, any sets of exclusive and claimable jobs, any `MaxAttempts > 0`, any
budget), `TypeCorrect`, `AttemptsAreBounded`, `OneActiveJobPerBid` and
`ClaimsAreFenced`: `Spec => []P` for `TypeOK`, `AttemptsBounded`, `OneActivePerBid`
and `ClaimsFenced`. The last three follow from the inductive invariant `IInv`.
`AttemptsBounded` is not inductive: that a refund does not go below zero needs
`OwnersCount` (while a claim is the newest, the job's attempts are those the claim
read) and `ClaimsBehind` (the claim itself was an attempt between 1 and
`MaxAttempts`). The reaper decides on the attempts that its find returned, so
`SweepsBehind` says the same of what it has read. `ClaimsDistinct` keeps a second
holder of a job from having the newest generation too, which is what lets an update
through `Owns` be attributed to one worker; `AbsentBlank` covers a job's first
insertion. `OneActivePerBid` stands in the invariant by itself: every write that
activates a job is guarded by the index or leaves an active job active. The step
lemmas are organised by what a step does to a job: whether the new document is lawful
(attempts, history, exclusion), whether the claims in hand stay behind and distinct,
whether what the reapers read stays behind.

### What the queue promises while certain faults stay away

Four properties are false under every fault, by the code's own design (a SIGTERM or a
cancel writes without the lease, a stalled worker works on). The budget says which
disturbances have happened so far: `Unspent(f)` is that none of kind `f` has, and each
theorem has the hypotheses its property needs, which states of every instance satisfy
and which a run without those disturbances satisfies throughout. Everything else stays
allowed.

| theorem | property | has not happened | may happen |
|---|---|---|---|
| `ReplacementsUndisturbed` | `ReplacementUndisturbed` | SIGTERM, cancel (`Calm`) | crash, stall, MongoDB failure, retry, upload |
| `QueueImplementsLease` | `ImplementsLease` | SIGTERM, cancel, MongoDB failure (`Tame`) | crash, stall, retry, upload |
| `OneSessionOnABid` | `OneSessionPerBid` | stall, cancel | crash, SIGTERM, MongoDB failure, retry, upload |
| `DoneAsAnnounced` | `AnnouncedIsDone` | stall, cancel, MongoDB failure | crash, SIGTERM, retry, upload |
| `GateStartsSettled` | `StartsSettled` | stall, MongoDB failure, retry (`Gentle`) | crash, SIGTERM, cancel, upload |
| `DoneLeavesParsed` | `DoneIsParsed` | the same | the same |

That a late writer leaves its replacement's job alone rests on
`KeepsLease`: at the points before its end, whoever passes `owns_job` has a running job.
It survives since every write that ends a job or takes it away either is its owner's, who
then stands at "after" or nowhere, or removes the owner from the document. With failing
writes it does not reach into `finish()` (a hook that raises runs `finish()` again for a
job that is done), hence the two invariants and the two hypotheses. For the refinement
each step is summarised first (`Becomes`, `AllStill`, `Alters`: which job gets which
status, worker and generation, and whose session changes), and the summary is then read
as a step of `ClaimLease`.

Without stalls `Attends` is invariant: a worker at work has the newest
claim and a fresh heartbeat, so no sweep puts its job on a list (`Unswept`), and what was
put there before carries an older generation. From this follows `Heeded`: `finish()` hears
of "cancelled" only of a job that is cancelled, and the update that is filtered on `_id`
alone is never reached. `Apart` is the gate's mutual exclusion: a pass that gets through
found no rival running, and those that are through are running. `Routes` says where a step
may take a worker and `StepChanges` what it may do to which job; the invariants follow from
these two.

`ParseGateProofs` proves `GateRefinesQueue`, `GateSpec => Spec`: each action of the
gate maps to one of the queue or to a stutter, with `GateAssumption` (parse jobs are
not exclusive) as the only addition. What is proved of the queue therefore holds with
the gate around it; `GateClaimsFenced` states the consequence for the fencing of
parses and the passes that wait for them. `GateTypeCorrect` is the gate's own type
invariant. `GateStartsSettled` and `DoneLeavesParsed` rest on `GInv`: a document and its
job come together (`Together`); once a document is parsed or failed nobody who owns its job
holds it and the job is not active (`Over`); a hook that is due runs for a job that has
ended and is still its worker's (`EndInHand`). The second find alone then decides: a
document that is not incomplete is deleted, not uploaded, or `Over`.

### The saga

`BidChainProofs` proves, from `BidChain`'s assumptions, `BidChainTypeCorrect`,
`ReadStaysCovered`, `PricingIsMerged` and `PricingIsReviewed`. The last two assume
`OneExtractor`: the worker processes that claim extracts are one, as in
`src/infra/docker-compose.yml` (one worker container, `WORKER_CONCURRENCY` 1). With two,
a cancelled extract that has not noticed may promote beside its successor and both
properties fail; `ReadStaysCovered` then holds while nothing is cancelled or stalled. None
of the three is inductive. Coverage needs what the clone holds from the claim on (`Cloned`,
`Keeps`) and that nobody else promotes until the mark (`Promoted`). That pricing waits for
late PDFs needs `Gathered`: a PDF that lands after the hook has looked for stragglers has
queued an extract that nobody else can claim before the hook is over. That it waits for the
review needs who may write "extraction_done" (`PlainPosts`, `NoVerdictYet`) and that the
take-off stays what it was (`StillCloned`, `AdvancedReviewed`).

### Versions

`VersionsProofs` proves, for any requests, number of retries and bound on the
versions, `VersionsTypeCorrect`, `NewestStaysOpen`, `SealsNameSuccessors` and
`SealStopsReconciling`. `SealedBySuccessor` is not inductive: that a seal names a
version which names the sealed one back needs what a request has in hand between its
steps. `Hand` says that the head a request read comes before the number it means to
take, and that after its insert the version of that number follows that head.
`NewestIsOpen` is what makes a head read at any moment the newest version
(`HeadIsNewest`), so that a seal never falls on the version it was read for.

### Uploads around the versions

`IntakeProofs` proves `IntakeImplementsVersions`: `Intake`'s `Spec` implements
`VersionsSpec` with a request standing nowhere in `snapshot()` while it is at its upload
(`standing`). To be refused, to crash or to be answered inside `snapshot()` is `Breaks`;
anywhere else it is a stutter, because a request outside has nothing of `snapshot()` in
hand (`HandsEmpty`). The theorems and the step lemma of `VersionsProofs` are used through
its instance: `UploadsKeepTheChain` and `UploadsKeepTheSeal` follow, and
`IntakeTypeCorrect`, which includes that no two document rows have one content, from
`Carries` (from its hash to its row an upload has a file and a content). The assumptions
are those of the two modules.

### The quote

`QuoteProofs` proves, from `QuoteAssumption` (any numbers of requests, passes, keys and
rows, any files a pass may leave), `QuoteTypeCorrect`, `HandWorkIsSafe`,
`SettledPricesStand` and `TotalsAreOfTheLines`. What an import does to a line is decided
on what it read, so the invariant `QuoteInv` is about identity: the row a line was read
from is still that line's (`Same`, `Keyed`), deleted or not, and whether it was added by
hand does not change. `Rolled` carries a repricing from its write of the lines to its
write of the totals: what it left, if it wrote over what it had read, is at the price of
its cost and margin and is what the totals will be computed from. `Banded` is that nobody
reprices without a margin. The choices the model makes (the next key of a file, the next
row, the newest line of a key) exist because the sets are finite (`Extremes`, `Listed`).

### The desk

`DeskProofs` proves the nine properties of the `desk` run, each from its component's own
specification and its assumption in `Desk`, and `DeskTyped`, the types of all five at once.

| theorem | property | the inductive invariant says besides |
|---|---|---|
| `SyncIsOwn`, `Isolated` | `SyncedIsOwn`, `IsolatedFromTheDead` | `SingleHolder`: without a stall only the lease's holder is at work, so the shared scratch holds what it wrote or cloned. `LiveIsOwn`: what it has put in the live tree stands until it is synced |
| `CacheIsCurrent` | `ServedIsCurrent` | `CacheInv`: every cached answer, and the one on its way, is of what is described up to its watermark; a description to be saved has a time of its own |
| `ParseIsWhole` | `ParsedIsWhole` | `RowsInv`: a parse nobody disturbed has the rows of the windows behind it and those of its window it has done |
| `DecisionsKept` | `KeepsDecisions` | `ImportSound`: the operations to come are of openings that nobody had settled when they were read |
| `DoorsMeet` | `OneOpeningPerDoor` | `Progress`: what an undisturbed import has still to insert are the doors beyond a mark's openings. `Numbered`: until it is shaken, an imported opening's door is its number among its mark's, so no index refuses it |
| `OnlyLocatedImported` | `ImportedIsLocated` | `Honest`: every opening of the database, and of a document on its way from the gate to the import, whichever page it was measured on (`MeasuredRow`) and whoever says it was added by hand; what a person settled in the document is in the database (`DocumentSound`) |
| `NumberedSeeded` | `SeedKeepsNumbered` | nothing: `_merge` is shown to list every decided row once, in front or behind, for documents of any length |
| `RecordingShown` | `ShowsRecording` | `Undistorted`: while the browser follows one session (`Follows`), what it has is the recording up to its offset, and the events on their way are the next pieces of it (`Cut`). `ViewersBehind`: a recording copied fresh is not opened again under the claim it was copied in (`Safe`), whatever requeues and retries come. `EndsLast`: the end of a stream is its last event, sent when all was |

The count of a mark's openings and an opening's number among them are cardinalities, so
the proof of `DoorsMeet` rests on lemmas about ranks in finite sets (`Ranks`, `Extremes`).

### The office

`OfficeProofs` proves the five properties of the `office` run that are not the quote's, in
the same way, and `OfficeTyped`, the types of all six parts together.

| theorem | property | the inductive invariant says besides |
|---|---|---|
| `NoneRoutedUnapproved` | `RoutedIsApproved` | `Signed`: who is past the approval, or has found one, leaves an approved proposal behind, and no document is ever removed |
| `ReuseIsCurrent` | `ReusedStands` | until it is shaken: an entry of the cache names what its match was decided on, a pass copies only what stands today, and has decided on what is there today |
| `QuotesCanBeAsked` | `HistoryAnswers` | `Answers`: every revision that spans a quote's moment agrees with the quote, and the stored document agrees or is younger and a revision spans the moment. `Respects`: so it is with what each edit under way is about to archive and to write over. It needs neither bound nor a single editor, but that stamps are taken from a clock that does not go back |
| `LessonsAreKept` | `LessonsKept` | `Sourced`: what a drain is through with, or marked, is a source of its row. `OneByOne`, until two drains overlap: events are marked from the oldest on, what a dead drain had taught is what the next one reads again, and the row follows the drain |
| `TestedIsWhatRuns` | `TestedIsServed` | `Undisturbed`: a save that is alone would still be tried as it was, and has its fields in the document once it has written them. `WrittenIsTried`: with the file written from a document, it no longer matters which of the two goes first, since a field and its variable determine each other (`OneFeeds`) |

The exceptions in the properties (`shaken`, `crossed`, `alone`, `whole`) are those listed
under "seen while modelling"; the theorems add no hypothesis to them.

### Assumptions

Beside the hypotheses named above for the queue and for the saga, every theorem rests on
the named assumptions of its module alone: that bounds are natural
numbers (and positive where a window, a limit or a number of attempts of zero would mean
that nothing is ever done), that a value set does not contain the mark for "none", that
budgets are functions of the kinds of disturbance. TLC evaluates them on every run. No
theorem fixes a bound, so each holds however many workers, jobs, requests or rows there
are.

### Only model-checked

Liveness (`EveryJobEnds`, `EndingsTold`, `ParsesSettle`, `ChainRests`, `DocumentsSettle`,
`QuietWindowEnds`), which is beyond the prover, as is the ENABLED that fairness stands on.
Every other property of a passing run is stated by a theorem. Each inductive invariant was
checked with TLC as an invariant: those of `DeskProofs` and `OfficeProofs` on the instances
of the runs, the others on instances with more faults than the runs have (up to 22 million
states). The types of `JobQueue` are the other
way round: `TypeCorrect` proves them, and no run checks them again. The properties of the
four runs that end in a violation are false, so there is nothing to prove of them.

## Not modelled, and the plan

Next, in this order:

1. The phases a pipeline may skip (`_persist_phase_state`, `_inherit_phase_state`,
   `reusable_phases`). A record holds while the files it lists are unchanged, and nothing
   ties pricing to the extraction it was made from; a retried pipeline puts its own record
   over that of a later extraction, and an extraction that failed its checks leaves none.
   Whether stale prices can be skipped over is the question to put to a model.
2. The pricing rules (grids, adders, net items), other families of reference data, and
   what the search of the catalog ranks.

Left out for good: the CLI wrapper (subprocesses; the queue sees only how a pass ends),
the text of descriptions and prompts, ranking, the reading of PDFs, accounts and audit
(request-scoped, append-only), storage and MongoDB themselves (taken as atomic
single-document operations), the MCP tools and the rest of the web front end (no shared
state the backend relies on), deployment (its restart policy is a fairness assumption).
