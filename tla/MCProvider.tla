------------------------------ MODULE MCProvider ------------------------------
(* A small instance of Provider for what the code says of masks.             *)
EXTENDS Provider

NoEnviron  == {[v \in Variables |-> None]}
OneOfEach  == [kind \in {"failure", "sign-in", "by hand", "key"} |->
                 IF kind = "by hand" THEN 1 ELSE 0]
=============================================================================
