------------------------------ MODULE ParseGate ------------------------------
(***************************************************************************)
(* The parse gate: a Claude pass that reads a bid's PDFs waits until MinerU *)
(* has parsed, or given up on, every document of the bid.                  *)
(*                                                                         *)
(* The gate looks in two places that different code brings up to date: the *)
(* parse_document jobs of the queue, and parse.state of the documents,     *)
(* which the upload, the parse itself and its after-hook write without     *)
(* asking who holds the job.  This module puts the documents beside the    *)
(* queue: each step is a step of JobQueue, or a stutter of it.             *)
(***************************************************************************)
EXTENDS JobQueue

CONSTANT Parses  \* the parse_document jobs, one for each document uploaded

ASSUME GateAssumption == Parses \subseteq Jobs \ Exclusive

VARIABLES
  parse,  \* parse.state of each document, named by its parse job
  ready   \* of each worker: its gate found no parse job, or its parse has begun

gateVars == <<vars, parse, ready>>

ParseStates == {"none", "queued", "running", "parsed", "failed", "deleted"}

\* _PARSE_INCOMPLETE
Incomplete == {"queued", "running"}

\* The documents of one bid, by their parse jobs.
OnBid(b) == {j \in Parses : BidOf[j] = b}

BidOfRun(w) == BidOf[run[w].job]

\* A point of the loop is reached: what was found at the one before is void.
Arrives == ready' = [w \in Workers |-> ready[w] /\ pc'[w] = pc[w]]

\* Mutant: the update is filtered on the state it expects to replace.
MarkQueued(j, state) ==
  parse' = IF parse[j] # "queued" THEN parse ELSE [parse EXCEPT ![j] = state]

\* _set_parse, which finds nothing to update once the document is deleted.
Mark(j, state) ==
  parse' = IF parse[j] = "deleted" THEN parse ELSE [parse EXCEPT ![j] = state]

-----------------------------------------------------------------------------
(* The gate.                                                               *)

ParsingJobs(b) == {j \in OnBid(b) : Active(j)}

\* Mutant: the documents are not looked at.
NoDocs(b) == {}

IncompleteDocs(b) == {j \in OnBid(b) : parse[j] \in Incomplete}

\* defer_if_parsing, the find in jobs.
JobsFind(w) ==
  /\ pc[w] = "waitRead" /\ ~ready[w]
  /\ IF ParsingJobs(BidOfRun(w)) = {}
       THEN /\ ready' = [ready EXCEPT ![w] = TRUE]
            /\ UNCHANGED vars
       ELSE WaitRead(w) /\ pc'[w] = "gateDefer" /\ Arrives
  /\ UNCHANGED parse

\* incomplete_parses, the find in documents.
DocsFind(w) ==
  /\ pc[w] = "waitRead" /\ ready[w]
  /\ WaitRead(w)
  /\ pc'[w] = IF IncompleteDocs(BidOfRun(w)) = {} THEN "work" ELSE "gateDefer"
  /\ Arrives
  /\ UNCHANGED parse

-----------------------------------------------------------------------------
(* The parse.                                                              *)

Parsing(w) == pc[w] = "work" /\ run[w].job \in Parses

\* parse_document finds its document and marks it, in one step since marking
\* a deleted document does nothing; its lease is not asked.
BeginParse(w) ==
  /\ Parsing(w) /\ ~ready[w]
  /\ parse[run[w].job] # "deleted"
  /\ Mark(run[w].job, "running")
  /\ ready' = [ready EXCEPT ![w] = TRUE]
  /\ UNCHANGED vars

\* ParseDocument.after_finish, for an ending that finish() calls it for.
Settled(w) == Mark(run[w].job, IF EndStatus(w) = "done" THEN "parsed" ELSE "failed")

EndParse(w) ==
  /\ After(w)
  /\ IF run[w].job \in Parses /\ ~Retryable(w) THEN Settled(w) ELSE UNCHANGED parse
  /\ Arrives

\* The hook fails before or after it has marked the document.
HookFails(w) ==
  /\ pc[w] = "after" /\ run[w].job \in Parses
  /\ MongoFails(w)
  /\ Settled(w) \/ UNCHANGED parse
  /\ Arrives

\* Every other step of a worker; a parse succeeds only once it has begun.
Plain(w) ==
  /\ Loop(w)
  /\ pc[w] \notin {"waitRead", "after"}
  /\ (Parsing(w) /\ ~ready[w]) => call'[w].kind # "ok"
  /\ Arrives
  /\ UNCHANGED parse

GateLoop(w) ==
  Plain(w) \/ JobsFind(w) \/ DocsFind(w) \/ BeginParse(w) \/ EndParse(w)

Around(w) ==
  /\ \/ Beat(w) \/ Restart(w) \/ Crash(w) \/ Stop(w)
     \/ MongoFails(w) /\ ~(pc[w] = "after" /\ run[w].job \in Parses)
  /\ Arrives
  /\ UNCHANGED parse

-----------------------------------------------------------------------------
(* The estimator.                                                          *)

\* An upload inserts the document and its parse job in one transaction.
Upload(j) ==
  /\ j \in Parses
  /\ Enqueue(j)
  /\ parse' = [parse EXCEPT ![j] = "queued"]
  /\ UNCHANGED ready

\* delete_document leaves the parse job alone.
DeleteDocument(j) ==
  /\ parse[j] \notin {"none", "deleted"}
  /\ parse' = [parse EXCEPT ![j] = "deleted"]
  /\ UNCHANGED <<vars, ready>>

Asks(j) ==
  /\ \/ j \notin Parses /\ Enqueue(j)
     \/ Extend(j) \/ Retry(j) \/ Supersede(j) \/ CancelActive(j)
     \/ CancelRead(j) \/ CancelWrite(j) \/ Clock(j)
  /\ UNCHANGED <<parse, ready>>

-----------------------------------------------------------------------------

GateInit ==
  /\ Init
  /\ parse = [j \in Parses |-> "none"]
  /\ ready = [w \in Workers |-> FALSE]

GateNext ==
  \/ \E w \in Workers : GateLoop(w) \/ HookFails(w) \/ Around(w)
  \/ \E j \in Parses : Upload(j) \/ DeleteDocument(j)
  \/ \E j \in Jobs : Asks(j)

GateSpec == GateInit /\ [][GateNext]_gateVars

\* As in JobQueue: workers keep moving, time passes, a request completes.
GateFairness ==
  /\ \A w \in Workers : WF_gateVars(GateLoop(w))
                        /\ WF_gateVars(Restart(w) /\ Arrives /\ UNCHANGED parse)
  /\ \A j \in Jobs :
       /\ WF_gateVars(ComesDue(j) /\ UNCHANGED <<parse, ready>>)
       /\ WF_gateVars(CancelWrite(j) /\ UNCHANGED <<parse, ready>>)
       /\ WF_gateVars(~Attended(j) /\ GoesStale(j) /\ UNCHANGED <<parse, ready>>)

FairGateSpec == GateSpec /\ GateFairness

-----------------------------------------------------------------------------

\* The documents and the workers have their types.
GateTypeOK ==
  /\ parse \in [Parses -> ParseStates]
  /\ ready \in [Workers -> BOOLEAN]

\* defer_if_parsing: whenever a pass gets through the gate, every document of
\* its bid is parsed, given up or deleted, and no parse of one that is left is
\* queued or under way - although jobs and documents are read one after the
\* other while uploads, parses, cancels, crashes and hooks go on.
PassesSettled ==
  \A w \in Workers :
    (pc[w] = "waitRead" /\ pc'[w] = "work")
      => \A j \in OnBid(BidOfRun(w)) :
           parse[j] = "deleted" \/ (~Active(j) /\ parse[j] \notin Incomplete)

\* No pass gets through the gate while a document of its bid waits for its
\* parse, whatever moves between the gate's two finds (worker.py:440-497).
StartsSettled == [][PassesSettled]_gateVars

\* after_finish: "Mark the document parse state when the job ends for good."
\* Every document that waits for its parse is parsed, given up or deleted in
\* the end, so that the gate does not stay shut - unless a crash or a MongoDB
\* failure falls between the job's last write and its hook.
ParsesSettle ==
  \A j \in Parses :
    (parse[j] \in Incomplete /\ Unharmed)
      ~> (parse[j] \notin Incomplete \/ ~Unharmed)

\* parse.state says what the job came to: once a parse has been announced as
\* done and nobody works on it any more, the document is parsed or deleted.
\* (After a lost heartbeat or a retry, the hooks of two claims may run out of
\* order and the document say what the older claim came to.)
DoneIsParsed ==
  \A j \in Parses :
    (/\ [job |-> j, status |-> "done"] \in told
     /\ doc[j].status = "done"
     /\ \A w \in Workers : pc[w] \in Holding => run[w].job # j)
      => parse[j] \in {"parsed", "deleted"}

=============================================================================
