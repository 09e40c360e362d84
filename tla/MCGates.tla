------------------------------ MODULE MCGates -------------------------------
(* The two gates a claimed pass goes through before it starts: the gate that *)
(* keeps a second session off a bid (JobQueue), without the unique index,    *)
(* and the gate that waits for the parses (ParseGate).  One process runs the *)
(* passes, the other may run a parse too.                                    *)
EXTENDS ParseGate

CONSTANTS extractor, server, bid

OneBid   == [j \in Jobs |-> bid]
ByDomain == [w \in Workers |-> IF w = extractor THEN Jobs \ Parses ELSE Jobs]

\* One process crashes once.
OneCrash == [f \in Faults |-> IF f = "crash" THEN 1 ELSE 0]
=============================================================================
