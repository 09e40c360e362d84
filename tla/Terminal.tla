------------------------------- MODULE Terminal -------------------------------
(***************************************************************************)
(* Watching a run.  The worker records the Claude session it runs for a    *)
(* job in a file named after the attempt and points the job at it.  An      *)
(* attempt that is given back, by a worker that shuts down or an operator   *)
(* who retries a dead job, is recorded over when its number comes again.    *)
(* The browser fetches the recording so far, then follows it as a stream of *)
(* events, and when the connection drops asks again from the offset it has  *)
(* reached.                                                                *)
(*                                                                         *)
(* The stream looks at the job now and then and at the file more often: it *)
(* ends when the job it last saw has finished.                             *)
(***************************************************************************)
EXTENDS Naturals, Sequences, SequencesExt

CONSTANTS
  MaxSessions, \* bound: claims of the job
  MaxLines,    \* bound: lines a session records
  MaxDrops     \* bound: connections lost

VARIABLES
  job,     \* status, attempts, claimGeneration, and the attempt whose
           \* recording it names
  worker,  \* where the attempt's worker stands
  file,    \* the recordings there are, by attempt
  stream,  \* the server's side of the event stream
  browser, \* useJobRecording
  drops

vars == <<job, worker, file, stream, browser, drops>>

Attempts == 1 .. MaxSessions
NoFile   == 0
Banner(g) == <<g, 0>>      \* of the session of claim g, as its lines are
Line(g, n) == <<g, n>>
Seen     == [status |-> job.status, recording |-> job.recording]
Closed   == [open |-> FALSE, due |-> TRUE, job |-> [status |-> "queued", recording |-> NoFile],
             position |-> 0, flight |-> <<>>]

Init ==
  /\ job = [status |-> "queued", attempt |-> 0, generation |-> 0, recording |-> NoFile]
  /\ worker = "idle"
  /\ file = <<>>
  /\ stream = Closed
  /\ browser = [at |-> "mounting", offset |-> 0, have |-> <<>>, told |-> "nothing",
                of |-> NoFile, under |-> 0, fresh |-> FALSE]
  /\ drops = 0

-----------------------------------------------------------------------------
(* The worker.                                                             *)

\* The recordings, with that of an attempt replaced.
Opened(a, text) == [b \in DOMAIN file \cup {a} |-> IF b = a THEN text ELSE file[b]]

Claim ==
  /\ job.status = "queued"
  /\ job.generation < MaxSessions
  /\ job' = [job EXCEPT !.status = "running", !.attempt = @ + 1, !.generation = @ + 1]
  /\ worker' = "banner"
  /\ UNCHANGED <<file, stream, browser, drops>>

\* write_retry_banner
WriteBanner ==
  /\ worker = "banner"
  /\ file' = IF job.attempt > 1 THEN Opened(job.attempt, <<Banner(job.generation)>>) ELSE file
  /\ worker' = "point"
  /\ UNCHANGED <<job, stream, browser, drops>>

PointJob ==
  /\ worker = "point"
  /\ job' = [job EXCEPT !.recording = job.attempt]
  /\ worker' = "launch"
  /\ UNCHANGED <<file, stream, browser, drops>>

\* The Recorder opens the file for writing from its start.
OpenRecorder ==
  /\ worker = "launch"
  /\ file' = Opened(job.attempt, <<>>)
  /\ worker' = "record"
  /\ UNCHANGED <<job, stream, browser, drops>>

Record ==
  /\ worker = "record"
  /\ Len(file[job.attempt]) < MaxLines
  /\ file' = [file EXCEPT ![job.attempt] = Append(@, Line(job.generation, Len(@) + 1))]
  /\ UNCHANGED <<job, worker, stream, browser, drops>>

\* The recorder is closed and then the job finished: done, tried again, or
\* given up.  A cancelled one stays cancelled.
Finish ==
  /\ worker = "record"
  /\ worker' = "idle"
  /\ IF job.status = "running"
       THEN \E s \in {"done", "queued", "dead"} : job' = [job EXCEPT !.status = s]
       ELSE UNCHANGED job
  /\ UNCHANGED <<file, stream, browser, drops>>

\* defer_if_bid_busy before a session starts, requeue_for_shutdown after one
\* was stopped: the attempt is given back.
Requeue ==
  /\ worker \in {"banner", "record"}
  /\ job.status = "running"
  /\ job' = [job EXCEPT !.status = "queued", !.attempt = @ - 1]
  /\ worker' = "idle"
  /\ UNCHANGED <<file, stream, browser, drops>>

\* An operator takes a dead job out of the dead letters.
Retry ==
  /\ job.status = "dead"
  /\ job' = [job EXCEPT !.status = "queued", !.attempt = 0]
  /\ UNCHANGED <<worker, file, stream, browser, drops>>

\* The worker dies and the reaper takes the job.
Crash ==
  /\ worker # "idle"
  /\ worker' = "idle"
  /\ IF job.status = "running"
       THEN \E s \in {"queued", "dead"} : job' = [job EXCEPT !.status = s]
       ELSE UNCHANGED job
  /\ UNCHANGED <<file, stream, browser, drops>>

\* The estimator cancels; a worker notices within a second.
Cancel ==
  /\ job.status \in {"queued", "running"}
  /\ job' = [job EXCEPT !.status = "cancelled"]
  /\ UNCHANGED <<worker, file, stream, browser, drops>>

-----------------------------------------------------------------------------
(* The browser.                                                            *)

\* get_terminal: the job is read, then its recording.
GetJob ==
  /\ browser.at = "mounting"
  /\ browser' = [browser EXCEPT !.at = "replay", !.told = job.status, !.of = job.recording]
  /\ UNCHANGED <<job, worker, file, stream, drops>>

\* A run with nothing recorded yet is "unavailable" and is not asked again.
\* One that has ended needs no stream.  fresh: no opening of this file, which
\* would empty it, is still to come under the claim of this moment.
Replay ==
  /\ browser.at = "replay"
  /\ browser' =
       IF browser.of \notin DOMAIN file
       THEN [browser EXCEPT !.at = "unavailable"]
       ELSE [browser EXCEPT
              !.at     = IF browser.told \in {"done", "cancelled", "dead"}
                         THEN "ended" ELSE "connect",
              !.have   = file[browser.of],
              !.offset = Len(file[browser.of]),
              !.under  = job.generation,
              !.fresh  = \/ job.attempt # browser.of
                         \/ worker \notin {"banner", "point", "launch"}]
  /\ UNCHANGED <<job, worker, file, stream, drops>>

\* openStream, from the offset reached.
OpenStream ==
  /\ browser.at = "connect"
  /\ browser' = [browser EXCEPT !.at = "live"]
  /\ stream' = [Closed EXCEPT !.open = TRUE, !.position = browser.offset]
  /\ UNCHANGED <<job, worker, file, drops>>

\* The output event and the end event.
Receive ==
  /\ browser.at = "live"
  /\ stream.flight # <<>>
  /\ LET event == Head(stream.flight)
     IN browser' = IF event.end # "no"
                   THEN [browser EXCEPT !.at = "ended", !.told = event.end]
                   ELSE [browser EXCEPT !.have = @ \o event.chunk,
                                        !.offset = @ + Len(event.chunk)]
  /\ stream' = [stream EXCEPT !.flight = Tail(@)]
  /\ UNCHANGED <<job, worker, file, drops>>

\* Mutant: the stream is opened again from the start of the recording.
ForgetsOffset ==
  /\ browser.at = "live"
  /\ drops < MaxDrops
  /\ drops' = drops + 1
  /\ browser' = [browser EXCEPT !.at = "connect", !.offset = 0]
  /\ stream' = Closed
  /\ UNCHANGED <<job, worker, file>>

\* onerror: what was on its way is lost, and the stream is opened again.
Drop ==
  /\ browser.at = "live"
  /\ drops < MaxDrops
  /\ drops' = drops + 1
  /\ browser' = [browser EXCEPT !.at = "connect"]
  /\ stream' = Closed
  /\ UNCHANGED <<job, worker, file>>

-----------------------------------------------------------------------------
(* stream_terminal.                                                        *)

Finished(status) == status \in {"done", "cancelled"}

\* The job is read every two seconds, and first of all.
PollJob ==
  /\ stream.open
  /\ stream' = [stream EXCEPT !.due = FALSE, !.job = Seen]
  /\ UNCHANGED <<job, worker, file, browser, drops>>

Output(chunk) == IF chunk = <<>> THEN <<>> ELSE <<[end |-> "no", chunk |-> chunk]>>
End(status)   == <<[end |-> status, chunk |-> <<>>]>>

\* _read_from: a file shorter than the position is read from its start.
ReadFrom(recording, position) ==
  LET size == Len(file[recording])
      from == IF size < position THEN 0 ELSE position
  IN SubSeq(file[recording], from + 1, size)

\* One turn of the loop: what is new in the recording, and the end when the
\* job, as last read, had finished.
TailFile ==
  /\ stream.open /\ ~stream.due
  /\ LET target == stream.job.recording
         chunk  == IF target \in DOMAIN file THEN ReadFrom(target, stream.position) ELSE <<>>
         over   == Finished(stream.job.status)
     IN stream' = [stream EXCEPT
          !.position = IF target \in DOMAIN file THEN Len(file[target]) ELSE @,
          !.flight   = @ \o Output(chunk) \o (IF over THEN End(stream.job.status) ELSE <<>>),
          !.open     = ~over]
  /\ UNCHANGED <<job, worker, file, browser, drops>>

\* Fifteen minutes without a line.
IdleOut ==
  /\ stream.open /\ ~stream.due
  /\ stream.flight = <<>>
  /\ stream' = [stream EXCEPT !.flight = End("idle"), !.open = FALSE]
  /\ UNCHANGED <<job, worker, file, browser, drops>>

Recording == \/ Claim \/ WriteBanner \/ PointJob \/ OpenRecorder \/ Record \/ Finish
             \/ Requeue \/ Retry \/ Crash \/ Cancel
Watching  == \/ GetJob \/ Replay \/ OpenStream \/ Receive \/ Drop
             \/ PollJob \/ TailFile \/ IdleOut

Next == Recording \/ Watching

Spec == Init /\ [][Next]_vars

-----------------------------------------------------------------------------
(* Properties.                                                             *)

Statuses == {"queued", "running", "done", "dead", "cancelled"}
Text     == Seq(Attempts \X (0 .. MaxLines))
Event    == [end : {"no", "idle", "done", "cancelled"}, chunk : Text]

TerminalTypeOK ==
  /\ job \in [status : Statuses, attempt : 0 .. MaxSessions, generation : 0 .. MaxSessions,
              recording : 0 .. MaxSessions]
  /\ worker \in {"idle", "banner", "point", "launch", "record"}
  /\ DOMAIN file \subseteq Attempts
  /\ \A a \in DOMAIN file : file[a] \in Text
  /\ stream \in [open : BOOLEAN, due : BOOLEAN, position : Nat, flight : Seq(Event),
                 job : [status : Statuses, recording : 0 .. MaxSessions]]
  /\ browser \in [at : {"mounting", "replay", "connect", "live", "ended", "unavailable"},
                  offset : Nat, have : Text, of : 0 .. MaxSessions, under : 0 .. MaxSessions,
                  fresh : BOOLEAN, told : Statuses \cup {"nothing", "idle"}]
  /\ browser.offset = Len(browser.have)
  /\ stream.open => browser.at = "live"

\* The browser looks at the recording its job still names, took its first copy
\* once that had been opened, and the job was not claimed again since.  The
\* session of a later claim that has this attempt's number again (Requeue, Retry)
\* is appended to the page (README).
Follows == browser.at \in {"connect", "live", "ended"} /\ browser.fresh
           /\ browser.of = job.recording /\ browser.under = job.generation

\* What the browser shows of a session is its recording from the start, without
\* a gap or a repeated line, however often the connection dropped with events
\* on their way; and once it is told that the run is done, it is the whole
\* recording: the last lines are not cut off by the job finishing between two
\* looks (use-job-recording.ts:90-130, StreamTerminal.py:68-104).
ShowsRecording ==
  Follows =>
    /\ IsPrefix(browser.have, file[browser.of])
    /\ browser.at = "ended" /\ browser.told = "done" => browser.have = file[browser.of]
=============================================================================
