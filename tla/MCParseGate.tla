----------------------------- MODULE MCParseGate -----------------------------
(* Small instances of ParseGate: the documents of one bid, an extract that  *)
(* waits for them, a worker for the passes and one for the parses.          *)
EXTENDS ParseGate

CONSTANTS extractor, parser, bid

OneBid     == [j \in Jobs |-> bid]
Extract    == {JobCount}
ParsesOnly == Jobs \ Extract
ByDomain   == [w \in Workers |-> IF w = parser THEN ParsesOnly ELSE Extract]

NoFaults  == [f \in Faults |-> 0]
Settling  == [NoFaults EXCEPT !["mongo"] = 1, !["retry"] = 1]
=============================================================================
