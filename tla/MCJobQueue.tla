----------------------------- MODULE MCJobQueue -----------------------------
(* Small instances of JobQueue: pipeline jobs of one bid and workers that    *)
(* claim all of them, with one budget of disturbances for each question.     *)
EXTENDS JobQueue, TLC

CONSTANTS w1, w2, bid

OneBid       == [j \in Jobs |-> bid]
EveryJob     == Jobs
ClaimAll     == [w \in Workers |-> Jobs]

Symmetry == Permutations(Workers)

NoFaults == [f \in Faults |-> 0]
Fencing  == [NoFaults EXCEPT !["upload"] = 1, !["stall"] = 1, !["retry"] = 1]
Recovery == [NoFaults EXCEPT !["crash"] = 1, !["mongo"] = 1, !["stop"] = 1,
                             !["stall"] = 1, !["cancel"] = 1]
Shutdown == [NoFaults EXCEPT !["stall"] = 1, !["stop"] = 1]
=============================================================================
