------------------------------ MODULE MCQuote -------------------------------
(* Small instances of Quote: one key, that a pass prices without a margin.   *)
EXTENDS Quote, TLC

CONSTANTS k, r1, r2, oh, ny

Line1(cost, margin) == k :> [cost |-> cost, margin |-> margin]
\* One request works on the lines, the other on what is around them.
Divided == (r1 :> {"add", "margin", "cost", "delete"})
        @@ (r2 :> {"freight", "tax", "continue", "margins", "project"})

Alike == Permutations(States)

Outcomes == {<<>>, Unreadable, Line1(1, None)}
=============================================================================
