------------------------------ MODULE MCIntake ------------------------------
(* Small instances of Intake: two requests side by side, each of the kinds     *)
(* it may be.  Between them every pair of kinds meets, in one order.          *)
EXTENDS Intake, TLC

CONSTANTS r1, r2

EveryPair == (r1 :> {"plan", "addendum"}) @@ (r2 :> {"plan", "version", "freeze"})
=============================================================================
