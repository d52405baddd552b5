---------------------------- MODULE MCThreadPool ----------------------------
(***************************************************************************)
(* Small instances of ThreadPool.                                          *)
(***************************************************************************)
EXTENDS ThreadPool

\* Totals that tps does not divide, above it and below it: the shapes of the
\* 10, 50 of manager.C:180 and of its other branch at their smallest.
UnevenPlans == {[tps |-> 2, total |-> 3, duration |-> 0],
                [tps |-> 3, total |-> 2, duration |-> 0]}
OnePlan == {[tps |-> 2, total |-> 3, duration |-> 0]}
=============================================================================
