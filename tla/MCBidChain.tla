----------------------------- MODULE MCBidChain -----------------------------
(* Small instances of BidChain: one bid, two PDFs, and the two containers    *)
(* of the compose file, one that extracts and one that prices and proposes.  *)
EXTENDS BidChain

CONSTANTS w1, w2

SplitTypes == [w \in Workers |-> IF w = w1 THEN Extracts ELSE Types \ Extracts]
OneOfEach  == [f \in Faults |-> 1]
=============================================================================
