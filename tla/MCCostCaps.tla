----------------------------- MODULE MCCostCaps -----------------------------
(* Three jobs of two bids, of the types one worker claims; a bid may cost as *)
(* much as one pass does.                                                    *)
EXTENDS CostCaps

TwoBids == [j \in Jobs |-> IF j < 3 THEN 1 ELSE 2]
OneType == [j \in Jobs |-> "match_and_price"]
Domain  == {"match_and_price"}
=============================================================================
