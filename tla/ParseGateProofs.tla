--------------------------- MODULE ParseGateProofs ---------------------------
(***************************************************************************)
(* The parse gate adds documents to the queue and takes nothing from it:   *)
(* every step of ParseGate is a step of JobQueue or leaves the queue alone, *)
(* so that what is proved of the queue holds with the gate around it.      *)
(***************************************************************************)
EXTENDS ParseGate, JobQueueProofs

\* The worker's steps, whether or not the gate looks into them.
LEMMA LoopRefines ==
  ASSUME NEW w \in Workers, GateLoop(w)
  PROVE  [Next]_vars
<1>1. CASE Plain(w)
  BY <1>1 DEF Plain, Next
<1>2. CASE JobsFind(w)
  BY <1>2 DEF JobsFind, Next, Loop
<1>3. CASE DocsFind(w)
  BY <1>3 DEF DocsFind, Next, Loop
<1>4. CASE BeginParse(w)
  BY <1>4 DEF BeginParse
<1>5. CASE EndParse(w)
  BY <1>5 DEF EndParse, Next, Loop
<1> QED
  BY <1>1, <1>2, <1>3, <1>4, <1>5 DEF GateLoop

\* Every step of the gate and its documents is one the queue may take.
LEMMA StepRefines ==
  ASSUME [GateNext]_gateVars
  PROVE  [Next]_vars
<1>1. CASE UNCHANGED gateVars
  BY <1>1 DEF gateVars
<1>2. CASE \E w \in Workers : GateLoop(w)
  BY <1>2, LoopRefines
<1>3. CASE \E w \in Workers : HookFails(w)
  BY <1>3 DEF HookFails, Next, Disturb
<1>4. CASE \E w \in Workers : Around(w)
  BY <1>4 DEF Around, Next, Disturb
<1>5. CASE \E j \in Parses : Upload(j)
  BY <1>5, GateAssumption DEF Upload, Next, Estimator
<1>6. CASE \E j \in Parses : DeleteDocument(j)
  BY <1>6 DEF DeleteDocument
<1>7. CASE \E j \in Jobs : Asks(j)
  BY <1>7 DEF Asks, Next, Estimator
<1> QED
  BY <1>1, <1>2, <1>3, <1>4, <1>5, <1>6, <1>7 DEF GateNext

\* The gate, the documents and the hooks that mark them are an extension of
\* the queue: hidden, they leave a behaviour of JobQueue.
THEOREM GateRefinesQueue == GateSpec => Spec
<1>1. GateInit => Init
  BY DEF GateInit
<1> QED
  BY <1>1, StepRefines, PTL DEF GateSpec, Spec

\* _set_parse writes one of the states a document may have.
LEMMA MarkTyped ==
  ASSUME GateTypeOK, NEW j \in Parses, NEW state \in ParseStates, Mark(j, state)
  PROVE  parse' \in [Parses -> ParseStates]
  BY DEF GateTypeOK, Mark

LEMMA ArrivesTyped == Arrives => ready' \in [Workers -> BOOLEAN]
<1> SUFFICES ASSUME Arrives PROVE ready' \in [Workers -> BOOLEAN]
  OBVIOUS
<1>1. \A w \in Workers : (ready[w] /\ pc'[w] = pc[w]) \in BOOLEAN
  OBVIOUS
<1> QED
  BY <1>1 DEF Arrives

\* The steps of a worker keep the types of the documents and the gate's finds.
LEMMA LoopTyped ==
  ASSUME GateTypeOK, NEW w \in Workers, GateLoop(w)
  PROVE  GateTypeOK'
<1>1. CASE Plain(w)
  BY <1>1, ArrivesTyped DEF Plain, GateTypeOK
<1>2. CASE JobsFind(w)
  BY <1>2, ArrivesTyped DEF JobsFind, GateTypeOK
<1>3. CASE DocsFind(w)
  BY <1>3, ArrivesTyped DEF DocsFind, GateTypeOK
<1>4. CASE BeginParse(w)
  BY <1>4, MarkTyped DEF BeginParse, Parsing, GateTypeOK, ParseStates
<1>5. CASE EndParse(w)
  BY <1>5, ArrivesTyped, MarkTyped DEF EndParse, Settled, GateTypeOK, ParseStates
<1> QED
  BY <1>1, <1>2, <1>3, <1>4, <1>5 DEF GateLoop

\* So do the hooks that fail and what the estimator asks for.
LEMMA StepTyped ==
  ASSUME GateTypeOK, [GateNext]_gateVars
  PROVE  GateTypeOK'
<1>1. CASE UNCHANGED gateVars
  BY <1>1 DEF gateVars, GateTypeOK
<1>2. CASE \E w \in Workers : GateLoop(w)
  BY <1>2, LoopTyped
<1>3. CASE \E w \in Workers : HookFails(w)
  BY <1>3, ArrivesTyped, MarkTyped DEF HookFails, Settled, GateTypeOK, ParseStates
<1>4. CASE \E w \in Workers : Around(w)
  BY <1>4, ArrivesTyped DEF Around, GateTypeOK
<1>5. CASE \E j \in Parses : Upload(j)
  BY <1>5 DEF Upload, GateTypeOK, ParseStates
<1>6. CASE \E j \in Parses : DeleteDocument(j)
  BY <1>6 DEF DeleteDocument, GateTypeOK, ParseStates
<1>7. CASE \E j \in Jobs : Asks(j)
  BY <1>7 DEF Asks, GateTypeOK
<1> QED
  BY <1>1, <1>2, <1>3, <1>4, <1>5, <1>6, <1>7 DEF GateNext

\* Every document is in a state parse.state may have, whatever hook, retry or
\* deletion wrote it last: _set_parse is never handed a job's status.
THEOREM GateTypeCorrect == GateSpec => []GateTypeOK
<1>1. GateInit => GateTypeOK
  BY DEF GateInit, GateTypeOK, ParseStates
<1> QED
  BY <1>1, StepTyped, PTL DEF GateSpec

\* finish() and the fencing token under the parse gate: a parse and the pass
\* that waits for it are fenced like every other job.
THEOREM GateClaimsFenced == GateSpec => []ClaimsFenced
  BY GateRefinesQueue, ClaimsAreFenced, PTL

-----------------------------------------------------------------------------
(* The documents follow their parse jobs, as long as no heartbeat is lost,   *)
(* finish() reaches MongoDB and no operator retries a dead parse.            *)

Gentle == Whole /\ Unspent("retry")

\* A document and its parse job are inserted together.
Together ==
  \A j \in Parses :
    /\ doc[j].status = "absent" => parse[j] = "none"
    /\ parse[j] = "none" => /\ doc[j].status \in {"absent", "cancelled"}
                            /\ doc[j].worker = NoWorker

\* The job of a document that is parsed or given up has ended, and nobody who
\* could touch it again holds it.
Over ==
  \A j \in Parses : parse[j] \in {"parsed", "failed"} =>
    /\ ~Active(j)
    /\ \A w \in Workers : (pc[w] \in Holding /\ run[w].job = j) => ~Owns(w)

\* A parse whose hook is due has ended, and is still its worker's own.
EndInHand ==
  \A w \in Workers :
    (pc[w] = "after" /\ run[w].job \in Parses /\ ~Retryable(w))
      => Owns(w) /\ ~Active(run[w].job)

\* What was announced as done is parsed, unless it has been deleted.
ToldIsParsed ==
  \A j \in Parses :
    [job |-> j, status |-> "done"] \in told => parse[j] \in {"parsed", "deleted"}

GInv ==
  /\ SInv /\ GateTypeOK
  /\ Gentle => Together /\ Over /\ EndInHand /\ ToldIsParsed

-----------------------------------------------------------------------------
(* Who writes what.                                                          *)

\* A document changes: it is uploaded, its parse begins, its hook runs, or it is
\* deleted.
DocChanges ==
  \/ UNCHANGED parse
  \/ \E j \in Parses : Upload(j) \/ DeleteDocument(j)
  \/ \E w \in Workers : BeginParse(w) \/ EndParse(w)

LEMMA StepDocs ==
  ASSUME ~Spend("mongo"), [GateNext]_gateVars
  PROVE  DocChanges
<1>1. \A w \in Workers : ~HookFails(w)
  BY DEF HookFails, MongoFails
<1> QED
  BY <1>1 DEF DocChanges, GateNext, gateVars, GateLoop, Plain, JobsFind, DocsFind, Around, Asks

\* What each of them leaves alone.
LEMMA MarkOne ==
  ASSUME GateTypeOK, NEW j \in Parses, NEW state, Mark(j, state)
  PROVE  /\ \A k \in Parses \ {j} : parse'[k] = parse[k]
         /\ parse'[j] = IF parse[j] = "deleted" THEN "deleted" ELSE state
  BY DEF GateTypeOK, Mark

LEMMA PutOne ==
  ASSUME GateTypeOK, TypeOK, NEW j \in Parses, Upload(j) \/ DeleteDocument(j)
  PROVE  /\ \A k \in Parses \ {j} : parse'[k] = parse[k]
         /\ Upload(j) => parse'[j] = "queued" /\ doc[j].status = "absent"
                         /\ doc'[j].status = "queued"
         /\ DeleteDocument(j) => parse'[j] = "deleted" /\ UNCHANGED doc
<1>1. ASSUME Upload(j) PROVE doc[j].status = "absent"
  BY <1>1 DEF Upload, Enqueue
<1>2. ASSUME Upload(j) PROVE doc'[j].status = "queued"
  BY <1>2, GateAssumption DEF Upload, Enqueue, Put, TypeOK, NoDoc
<1> QED
  BY <1>1, <1>2 DEF GateTypeOK, Upload, DeleteDocument, vars

LEMMA GateWorks ==
  ASSUME NEW w \in Workers, GateLoop(w) \/ HookFails(w) \/ Around(w)
  PROVE  UNCHANGED vars \/ Loop(w) \/ Beat(w) \/ Restart(w) \/ Disturb(w)
  BY DEF GateLoop, Plain, JobsFind, DocsFind, BeginParse, EndParse, Loop, HookFails, Around, Disturb

\* With one claim on each job, a job has one owner.
LEMMA OneOwner ==
  ASSUME NEW v \in Workers, NEW w \in Workers, Owns(v), Owns(w), run[v].job = run[w].job
  PROVE  v = w
  BY DEF Owns

\* Nothing happens to a parse job that has ended, or has not begun, and whose
\* owner does not write it: but for an upload.
LEMMA EndedKeeps ==
  ASSUME IInv, Heeded, [GateNext]_gateVars, ~Spend("retry"),
         NEW j \in Parses, ~Active(j),
         \A w \in Workers :
           (pc[w] \in {"gateDefer", "shutWrite", "finWrite"} /\ run[w].job = j) => ~Owns(w)
  PROVE  Upload(j) \/ Keeps(j)
<1>1. TypeOK /\ j \in Jobs
  BY GateAssumption DEF IInv
<1>2. ASSUME UNCHANGED doc PROVE Keeps(j)
  BY <1>2 DEF Keeps
<1>3. ASSUME NEW w \in Workers, GateLoop(w) \/ HookFails(w) \/ Around(w)
      PROVE  Keeps(j)
  <2>1. UNCHANGED doc \/ Works
    BY <1>3, GateWorks, LoopChanges, DisturbChanges DEF Heeded, Works, vars
  <2>2. CASE Quiet \/ ChangesQueued \/ ChangesSwept
    BY <1>1, <2>2 DEF Quiet, ChangesQueued, ChangesSwept, Only, Active
  <2>3. CASE ChangesOwn
    BY <1>1, <2>3 DEF ChangesOwn, Only
  <2> QED
    BY <1>2, <2>1, <2>2, <2>3 DEF Works
<1>4. ASSUME NEW k \in Jobs, k # j, NEW d, Put(k, d) PROVE Keeps(j)
  BY <1>1, <1>4, PutOnly DEF Only
<1>5. ASSUME NEW k \in Parses, Upload(k) PROVE Upload(j) \/ Keeps(j)
  BY <1>4, <1>5, GateAssumption DEF Upload, Enqueue
<1>6. ASSUME NEW k \in Jobs, Asks(k) PROVE Keeps(j)
  <2>1. CASE Enqueue(k) /\ k \notin Parses
    BY <1>4, <2>1 DEF Enqueue
  <2>2. CASE Extend(k)
    BY <1>4, <2>2 DEF Extend, Active
  <2>3. CASE CancelRead(k)
    BY <1>2, <2>3 DEF CancelRead
  <2>4. CASE CancelWrite(k) \/ Supersede(k) \/ CancelActive(k)
    BY <1>1, <2>4, CancelQuiet DEF CancelWrite, Supersede, CancelActive, Quiet
  <2>5. CASE Clock(k)
    BY <1>4, <2>5 DEF Clock, ComesDue, GoesStale, Active
  <2> QED
    BY <1>6, <2>1, <2>2, <2>3, <2>4, <2>5 DEF Asks, Retry
<1> QED
  BY <1>2, <1>3, <1>5, <1>6 DEF GateNext, DeleteDocument, gateVars, vars

\* A job that is there is never away again.
LEMMA StaysPresent ==
  ASSUME IInv, Heeded, [Next]_vars, NEW j \in Jobs, doc'[j].status = "absent"
  PROVE  doc[j].status = "absent"
<1>1. TypeOK
  BY DEF IInv
<1>2. ASSUME NEW w \in Workers, Loop(w) \/ Beat(w) \/ Restart(w) \/ Disturb(w)
      PROVE  doc[j].status = "absent"
  BY <1>2, WorkerWrites DEF Heeded, Written
<1>3. ASSUME NEW k \in Jobs, Put(k, [doc[k] EXCEPT !.status = "cancelled"])
      PROVE  doc[j].status = "absent"
  BY <1>1, <1>3 DEF Put, TypeOK, JobDoc
<1>4. ASSUME NEW k \in Jobs, Estimator(k) \/ Clock(k) PROVE doc[j].status = "absent"
  <2>1. CASE Enqueue(k) \/ Extend(k) \/ Retry(k) \/ Clock(k) \/ CancelRead(k)
    BY <2>1, JobWrites DEF Written
  <2> QED
    BY <1>3, <1>4, <2>1 DEF Estimator, CancelWrite, Supersede, CancelActive
<1> QED
  BY <1>2, <1>4 DEF Next, vars

-----------------------------------------------------------------------------
(* The documents keep in step.                                               *)

\* What the steps below start from.
Kept ==
  /\ IInv /\ GateTypeOK /\ Heeded /\ Attentive(Acting)
  /\ Together /\ Over /\ EndInHand /\ ToldIsParsed

\* Whoever works on a parse, or is about to run its hook, owns it.
LEMMA Hands ==
  ASSUME Kept, NEW w \in Workers, run[w].job \in Parses
  PROVE  /\ BeginParse(w) => Owns(w) /\ pc[w] \in Holding
         /\ EndParse(w) => \/ UNCHANGED parse
                           \/ Owns(w) /\ ~Active(run[w].job) /\ pc[w] = "after" /\ Settled(w)
<1>1. ASSUME BeginParse(w) PROVE Owns(w) /\ pc[w] \in Holding
  BY <1>1 DEF BeginParse, Parsing, Kept, Attentive, Attends, Acting, Ahead, Holding
<1>2. ASSUME EndParse(w), ~UNCHANGED parse
      PROVE  Owns(w) /\ ~Active(run[w].job) /\ pc[w] = "after" /\ Settled(w)
  BY <1>2 DEF EndParse, After, Kept, EndInHand
<1> QED
  BY <1>1, <1>2

\* A change of one document, seen from it.
LEMMA DocMoves ==
  ASSUME Kept, DocChanges, NEW j \in Parses
  PROVE  \/ parse'[j] = parse[j]
         \/ Upload(j) /\ parse'[j] = "queued"
         \/ DeleteDocument(j) /\ parse'[j] = "deleted"
         \/ \E w \in Workers :
              /\ run[w].job = j /\ Owns(w) /\ pc[w] \in Holding
              /\ parse[j] # "deleted"
              /\ \/ BeginParse(w) /\ parse'[j] = "running"
                 \/ /\ EndParse(w) /\ pc[w] = "after" /\ ~Active(j)
                    /\ parse'[j] = IF EndStatus(w) = "done" THEN "parsed" ELSE "failed"
<1>1. TypeOK /\ GateTypeOK
  BY DEF Kept, IInv
<1>2. CASE UNCHANGED parse
  BY <1>2
<1>3. ASSUME NEW k \in Parses, Upload(k) \/ DeleteDocument(k)
      PROVE  \/ parse'[j] = parse[j]
             \/ Upload(j) /\ parse'[j] = "queued"
             \/ DeleteDocument(j) /\ parse'[j] = "deleted"
  BY <1>1, <1>3, PutOne
<1>4. ASSUME NEW w \in Workers, BeginParse(w), parse'[j] # parse[j]
      PROVE  /\ run[w].job = j /\ Owns(w) /\ pc[w] \in Holding
             /\ parse[j] # "deleted" /\ parse'[j] = "running"
  <2>1. run[w].job \in Parses /\ Mark(run[w].job, "running")
    BY <1>4 DEF BeginParse, Parsing
  <2> QED
    BY <1>1, <1>4, <2>1, Hands, MarkOne
<1>5. ASSUME NEW w \in Workers, EndParse(w), parse'[j] # parse[j]
      PROVE  /\ run[w].job = j /\ Owns(w) /\ pc[w] = "after" /\ ~Active(j)
             /\ parse[j] # "deleted"
             /\ parse'[j] = IF EndStatus(w) = "done" THEN "parsed" ELSE "failed"
  <2>1. run[w].job \in Parses
    BY <1>5 DEF EndParse
  <2>2. /\ Owns(w) /\ ~Active(run[w].job) /\ pc[w] = "after"
        /\ Mark(run[w].job, IF EndStatus(w) = "done" THEN "parsed" ELSE "failed")
    BY <1>5, <2>1, Hands DEF Settled
  <2> QED
    BY <1>1, <1>5, <2>1, <2>2, MarkOne
<1>6. "after" \in Holding
  BY DEF Holding
<1> QED
  BY <1>2, <1>3, <1>4, <1>5, <1>6 DEF DocChanges

\* A claim in hand was in hand before, or has just been made.
LEMMA HeldBefore ==
  ASSUME IInv, [Next]_vars, NEW w \in Workers, pc'[w] \in Holding
  PROVE  Claim(w) \/ (pc[w] \in Holding /\ run'[w] = run[w])
<1>1. CASE UNCHANGED vars
  BY <1>1 DEF vars
<1>2. CASE Next
  <2>1. Route(w)
    BY <1>2, Routes
  <2>2. CASE GateRoute(w)
    BY <2>2 DEF GateRoute, Hop, Holding
  <2>3. CASE EndRoute(w)
    BY <2>3 DEF EndRoute, Hop, Holding
  <2> QED
    BY <2>1, <2>2, <2>3 DEF Route, Stays, HasNone
<1> QED
  BY <1>1, <1>2

LEMMA TogetherStep ==
  ASSUME Kept, DocChanges, [GateNext]_gateVars, ~Spend("retry")
  PROVE  Together'
<1> SUFFICES ASSUME NEW j \in Parses
             PROVE  /\ doc'[j].status = "absent" => parse'[j] = "none"
                    /\ parse'[j] = "none" => /\ doc'[j].status \in {"absent", "cancelled"}
                                             /\ doc'[j].worker = NoWorker
  BY DEF Together
<1>1. IInv /\ TypeOK /\ Heeded /\ j \in Jobs /\ [Next]_vars
  BY StepRefines, GateAssumption DEF Kept, IInv
<1>2. /\ doc[j].status = "absent" => parse[j] = "none"
      /\ parse[j] = "none" => /\ doc[j].status \in {"absent", "cancelled"}
                              /\ doc[j].worker = NoWorker
  BY DEF Kept, Together
\* Nobody owns a job that is not there.
<1>3. ASSUME doc[j].status = "absent", NEW w \in Workers, run[w].job = j PROVE ~Owns(w)
  BY <1>1, <1>3, QueueAssumption DEF IInv, AbsentBlank, NoDoc, Owns
<1>4. ASSUME doc'[j].status = "absent" PROVE parse'[j] = "none"
  <2>1. doc[j].status = "absent" /\ parse[j] = "none"
    BY <1>1, <1>2, <1>4, StaysPresent
  <2>2. ~Upload(j) /\ ~DeleteDocument(j)
    BY <1>1, <1>4, <2>1, PutOne DEF DeleteDocument, Kept
  <2> QED
    BY <1>3, <2>1, <2>2, DocMoves
<1>5. ASSUME parse'[j] = "none"
      PROVE  doc'[j].status \in {"absent", "cancelled"} /\ doc'[j].worker = NoWorker
  <2>1. parse[j] = "none"
    BY <1>5, DocMoves
  <2>2. doc[j].status \in {"absent", "cancelled"} /\ doc[j].worker = NoWorker
    BY <1>2, <2>1
  <2>3. ~Active(j) /\ \A w \in Workers : run[w].job = j => ~Owns(w)
    BY <2>2, QueueAssumption DEF Active, Owns
  <2>4. Upload(j) \/ Keeps(j)
    BY <1>1, <2>3, EndedKeeps
  <2>5. ~Upload(j)
    BY <1>1, <1>5, PutOne DEF Kept
  <2> QED
    BY <2>2, <2>4, <2>5 DEF Keeps
<1> QED
  BY <1>4, <1>5

LEMMA OverStep ==
  ASSUME Kept, DocChanges, [GateNext]_gateVars, ~Spend("retry")
  PROVE  Over'
<1> SUFFICES ASSUME NEW j \in Parses, parse'[j] \in {"parsed", "failed"}
             PROVE  /\ ~Active(j)'
                    /\ \A w \in Workers : (pc'[w] \in Holding /\ run'[w].job = j) => ~Owns(w)'
  BY DEF Over
<1>1. IInv /\ TypeOK /\ Heeded /\ j \in Jobs /\ [Next]_vars
  BY StepRefines, GateAssumption DEF Kept, IInv
<1>2. CASE parse[j] \in {"parsed", "failed"}
  <2>1. /\ ~Active(j)
        /\ \A w \in Workers : (pc[w] \in Holding /\ run[w].job = j) => ~Owns(w)
    BY <1>2 DEF Kept, Over
  <2>2. ~Upload(j)
    BY <1>1, <1>2, PutOne DEF Kept, Together
  <2>3. Keeps(j)
    BY <1>1, <2>1, <2>2, EndedKeeps DEF Holding
  <2>4. ASSUME NEW w \in Workers, pc'[w] \in Holding, run'[w].job = j, Owns(w)'
        PROVE  FALSE
    <3>1. CASE Claim(w)
      BY <1>1, <2>1, <2>4, <3>1, ClaimEffect DEF Active
    <3>2. CASE pc[w] \in Holding /\ run'[w] = run[w]
      BY <2>1, <2>3, <2>4, <3>2 DEF Owns, Keeps
    <3> QED
      BY <1>1, <2>4, <3>1, <3>2, HeldBefore
  <2> QED
    BY <2>1, <2>3, <2>4 DEF Active, Keeps
<1>3. CASE parse[j] \notin {"parsed", "failed"}
  <2>1. PICK w \in Workers : /\ run[w].job = j /\ Owns(w) /\ pc[w] \in Holding
                             /\ EndParse(w) /\ ~Active(j)
    BY <1>3, DocMoves
  <2>2. UNCHANGED doc /\ Leaves(w)
    BY <2>1 DEF EndParse, After
  <2>3. ASSUME NEW v \in Workers, pc'[v] \in Holding, run'[v].job = j, Owns(v)'
        PROVE  FALSE
    <3>1. v # w /\ run'[v] = run[v]
      BY <1>1, <2>2, <2>3, LeavesAlters DEF HasNone, Alters
    <3>2. Owns(v)
      BY <2>2, <2>3, <3>1 DEF Owns
    <3> QED
      BY <2>1, <2>3, <3>1, <3>2, OneOwner
  <2> QED
    BY <2>1, <2>2, <2>3 DEF Active
<1> QED
  BY <1>2, <1>3

LEMMA EndInHandStep ==
  ASSUME Kept, [GateNext]_gateVars, ~Spend("retry"), ~Spend("mongo")
  PROVE  EndInHand'
<1> SUFFICES ASSUME NEW w \in Workers, pc'[w] = "after", run'[w].job \in Parses,
                    ~(call'[w].kind = "fail" /\ run'[w].attempts < MaxAttempts)
             PROVE  /\ doc'[run'[w].job].worker = w /\ doc'[run'[w].job].gen = run'[w].gen
                    /\ doc'[run'[w].job].status \notin {"queued", "running"}
  BY DEF EndInHand, Owns, Active, Retryable
<1>1. IInv /\ TypeOK /\ Heeded /\ [Next]_vars
  BY StepRefines DEF Kept, IInv
<1>2. CASE Stays(w)
  <2> DEFINE j == run[w].job
  <2>1. j \in Parses /\ pc[w] = "after" /\ Owns(w) /\ ~Active(j)
    BY <1>2 DEF Stays, Retryable, Kept, EndInHand
  <2>2. \A v \in Workers :
          (pc[v] \in {"gateDefer", "shutWrite", "finWrite"} /\ run[v].job = j) => ~Owns(v)
    BY <2>1, OneOwner
  <2>3. ~Upload(j)
    <3>1. doc[j].status # "absent"
      BY <1>1, <2>1, QueueAssumption, GateAssumption DEF IInv, AbsentBlank, NoDoc, Owns
    <3> QED
      BY <3>1 DEF Upload, Enqueue
  <2>4. Keeps(j)
    BY <1>1, <2>1, <2>2, <2>3, EndedKeeps
  <2> QED
    BY <1>2, <2>1, <2>4 DEF Stays, Owns, Active, Keeps
<1>3. CASE Hop(w, "finWrite", "after") /\ CallStays(w) /\ FinUpdate(w)
  <2> DEFINE j == run[w].job
             d == [doc[j] EXCEPT !.status = EndStatus(w), !.beat = "none",
                                 !.due = ~Retryable(w)]
  <2>1. j \in Jobs /\ doc[j] \in JobDoc /\ Owns(w)
    BY <1>1, <1>3, GateAssumption DEF Hop, TypeOK, Kept, Attentive, Acting, Attends
  <2>2. ~Retryable(w)
    BY <1>3 DEF Hop, CallStays, Retryable
  <2>3. EndStatus(w) \in {"done", "dead"}
    BY <2>2 DEF EndStatus
  <2>4. /\ d.status \in {"done", "dead"} /\ d.worker = doc[j].worker /\ d.gen = doc[j].gen
        /\ Put(j, d)
    BY <1>3, <2>1, <2>3 DEF FinUpdate, JobDoc
  <2> HIDE DEF d
  <2>5. doc'[j] = d
    BY <1>1, <2>1, <2>4, PutOnly
  <2> QED
    BY <1>3, <2>1, <2>4, <2>5 DEF Hop, Owns, Active
<1>4. ASSUME Next PROVE Stays(w) \/ (Hop(w, "finWrite", "after") /\ CallStays(w) /\ FinUpdate(w))
  <2>1. Route(w)
    BY <1>1, <1>4, Routes
  <2>2. CASE GateRoute(w)
    BY <2>2 DEF GateRoute, Hop
  <2>3. CASE EndRoute(w)
    BY <2>3 DEF EndRoute, Hop
  <2>4. CASE Claim(w)
    BY <1>1, <2>4, ClaimEffect DEF Running
  <2> QED
    BY <2>1, <2>2, <2>3, <2>4 DEF Route, HasNone, Holding
<1>5. CASE UNCHANGED vars
  BY <1>2, <1>5 DEF vars, Stays
<1> QED
  BY <1>1, <1>2, <1>3, <1>4, <1>5

\* Endings are announced by the hooks and the reapers.
LEMMA GateTells ==
  ASSUME ~Spend("mongo"), [GateNext]_gateVars
  PROVE  UNCHANGED told \/ \E w \in Workers : EndParse(w) \/ Bury(w)
<1>1. ASSUME NEW w \in Workers, Plain(w), ~Bury(w) PROVE UNCHANGED told
  BY <1>1 DEF Plain, Loop, Claim, NothingDue, Exits, Sweep, Reap, GateRead, WaitRead, GateDefer,
     Succeeds, Fails, Raises, SeesCancel, Interrupted, Ends, ShutRead, ShutWrite, FinRead,
     FinCancel, FinWrite, After, Bid
<1>2. ASSUME NEW w \in Workers, JobsFind(w) \/ DocsFind(w) \/ BeginParse(w) PROVE UNCHANGED told
  BY <1>2 DEF JobsFind, DocsFind, BeginParse, WaitRead, vars, Bid
<1>3. ASSUME NEW w \in Workers, HookFails(w) \/ Around(w) PROVE UNCHANGED told
  BY <1>3 DEF HookFails, Around, MongoFails, Beat, Restart, Crash, Stop, Bid
<1>4. ASSUME NEW j \in Jobs, Asks(j) PROVE UNCHANGED told
  BY <1>4 DEF Asks, Enqueue, Extend, Retry, CancelRead, CancelWrite, Supersede, CancelActive,
     Clock, ComesDue, GoesStale, Bid
<1>5. ASSUME NEW j \in Parses, Upload(j) \/ DeleteDocument(j) PROVE UNCHANGED told
  BY <1>5 DEF Upload, DeleteDocument, Enqueue, vars, Bid
<1> QED
  BY <1>1, <1>2, <1>3, <1>4, <1>5 DEF GateNext, GateLoop, gateVars, vars

LEMMA ToldIsParsedStep ==
  ASSUME Kept, DocChanges, [GateNext]_gateVars, ~Spend("mongo")
  PROVE  ToldIsParsed'
<1> SUFFICES ASSUME NEW j \in Parses, [job |-> j, status |-> "done"] \in told'
             PROVE  parse'[j] \in {"parsed", "deleted"}
  BY DEF ToldIsParsed
<1>1. IInv /\ TypeOK /\ GateTypeOK
  BY DEF Kept, IInv
<1>2. CASE [job |-> j, status |-> "done"] \in told
  <2>1. parse[j] \in {"parsed", "deleted"}
    BY <1>2 DEF Kept, ToldIsParsed
  <2>2. ~Upload(j)
    BY <1>1, <2>1, PutOne DEF Kept, Together
  \* Nobody who could write it holds a parse that is over.
  <2>3. ASSUME NEW w \in Workers, run[w].job = j, Owns(w), pc[w] \in Holding
        PROVE  parse[j] # "parsed"
    BY <2>3 DEF Kept, Over
  <2> QED
    BY <2>1, <2>2, <2>3, DocMoves
<1>3. CASE [job |-> j, status |-> "done"] \notin told
  <2>1. PICK w \in Workers : EndParse(w) \/ Bury(w)
    BY <1>3, GateTells
  <2>2. EndParse(w) /\ run[w].job = j /\ EndStatus(w) = "done"
    BY <1>3, <2>1 DEF EndParse, After, Bury, Announce
  <2>3. ~Retryable(w)
    BY <2>2 DEF EndStatus, Retryable
  <2>4. Mark(j, "parsed")
    BY <2>2, <2>3 DEF EndParse, Settled
  <2> QED
    BY <1>1, <2>4, MarkOne
<1> QED
  BY <1>2, <1>3

LEMMA GInvInit == GateInit => GInv
<1> SUFFICES ASSUME GateInit PROVE GInv
  OBVIOUS
<1>1. SInv /\ GateTypeOK
  BY SInvInit DEF GateInit, GateTypeOK, ParseStates
<1>2. Together /\ Over /\ EndInHand /\ ToldIsParsed
  BY GateAssumption DEF GateInit, Init, NoDoc, Together, Over, EndInHand, ToldIsParsed
<1> QED
  BY <1>1, <1>2 DEF GInv

LEMMA GInvStep == GInv /\ [GateNext]_gateVars => GInv'
<1> SUFFICES ASSUME GInv, [GateNext]_gateVars PROVE GInv'
  OBVIOUS
<1>1. SInv /\ GateTypeOK /\ [Next]_vars /\ TypeOK /\ Within
  BY StepRefines DEF GInv, SInv, IInv
<1>2. SInv' /\ GateTypeOK'
  BY <1>1, SInvStep, StepTyped
<1>3. ASSUME Gentle' PROVE Together' /\ Over' /\ EndInHand' /\ ToldIsParsed'
  <2>1. {"stall", "mongo", "retry"} \subseteq Faults
    BY DEF Faults
  <2>2. Gentle /\ ~Spend("mongo") /\ ~Spend("retry")
    BY <1>1, <1>3, <2>1, WithinStep, NotSpent DEF Gentle, Whole, Firm
  <2>3. Kept
    BY <1>1, <2>2 DEF Kept, GInv, SInv, Gentle, Whole
  <2>4. DocChanges
    BY <2>2, StepDocs
  <2> QED
    BY <2>2, <2>3, <2>4, TogetherStep, OverStep, EndInHandStep, ToldIsParsedStep
<1> QED
  BY <1>2, <1>3 DEF GInv

\* after_finish: a parse announced as done leaves its document parsed, unless it
\* is deleted - as long as no heartbeat is lost, no hook fails and nothing is
\* retried, whatever crashes, shutdowns, reaps and cancels there are, and
\* whichever worker runs the parse.
THEOREM DoneLeavesParsed == GateSpec => [](Gentle => DoneIsParsed)
<1>1. GInv => (Gentle => DoneIsParsed)
  BY DEF GInv, ToldIsParsed, DoneIsParsed
<1> QED
  BY <1>1, GInvInit, GInvStep, PTL DEF GateSpec

-----------------------------------------------------------------------------
(* The gate.                                                                 *)

\* A pass gets through the gate by its second find only.
LEMMA OnlyDocsFind ==
  ASSUME IInv, [GateNext]_gateVars, NEW w \in Workers, pc[w] = "waitRead", pc'[w] = "work"
  PROVE  DocsFind(w)
<1>1. TypeOK /\ ~UNCHANGED pc
  BY DEF IInv
<1>2. ASSUME NEW v \in Workers, v # w, GateLoop(v) \/ HookFails(v) \/ Around(v) PROVE FALSE
  <2>1. UNCHANGED pc \/ OthersStay(v)
    BY <1>2, GateWorks, LoopRoute, DisturbRoute DEF vars
  <2> QED
    BY <1>1, <1>2, <2>1 DEF OthersStay, Stays
<1>3. ~JobsFind(w) /\ ~BeginParse(w) /\ ~EndParse(w) /\ ~Plain(w)
  BY <1>1 DEF JobsFind, BeginParse, EndParse, After, Plain, vars
<1>4. ~HookFails(w) /\ ~Around(w)
  BY <1>1 DEF HookFails, Around, MongoFails, Beat, Restart, Crash, Stop, Goto, TypeOK
<1>5. ASSUME NEW j \in Jobs, Asks(j) PROVE FALSE
  BY <1>1, <1>5 DEF Asks, Enqueue, Extend, Retry, CancelRead, CancelWrite, Supersede,
     CancelActive, Clock, ComesDue, GoesStale
<1>6. ASSUME NEW j \in Parses, Upload(j) \/ DeleteDocument(j) PROVE FALSE
  BY <1>1, <1>6 DEF Upload, Enqueue, DeleteDocument, vars
<1> QED
  BY <1>1, <1>2, <1>3, <1>4, <1>5, <1>6 DEF GateNext, GateLoop, gateVars, vars

\* defer_if_parsing: no pass gets through while a document of its bid waits for
\* its parse or is parsed, as long as no heartbeat is lost, no hook fails and
\* nothing is retried - although the jobs are read before the documents, and
\* uploads, claims, crashes, shutdowns, reaps and cancels fall in between.
THEOREM GateStartsSettled == GateSpec /\ []Gentle => StartsSettled
<1>1. GInv /\ Gentle /\ [GateNext]_gateVars => [PassesSettled]_gateVars
  <2> SUFFICES ASSUME GInv, Gentle, [GateNext]_gateVars,
                      NEW w \in Workers, pc[w] = "waitRead", pc'[w] = "work",
                      NEW j \in OnBid(BidOfRun(w))
               PROVE  parse[j] = "deleted" \/ (~Active(j) /\ parse[j] \notin Incomplete)
    BY DEF PassesSettled
  <2>1. IncompleteDocs(BidOfRun(w)) = {}
    <3>1. DocsFind(w)
      BY OnlyDocsFind DEF GInv, SInv
    <3> QED
      BY <3>1 DEF DocsFind
  <2>2. j \in Parses /\ parse[j] \notin Incomplete
    BY <2>1 DEF IncompleteDocs, OnBid
  <2>3. parse[j] \in {"none", "parsed", "failed", "deleted"}
    BY <2>2 DEF GInv, GateTypeOK, ParseStates, Incomplete
  <2>4. parse[j] \in {"none", "parsed", "failed"} => ~Active(j)
    BY <2>2 DEF GInv, Together, Over, Active
  <2> QED
    BY <2>2, <2>3, <2>4
<1> QED
  BY <1>1, GInvInit, GInvStep, PTL DEF GateSpec, StartsSettled

=============================================================================
