--------------------------- MODULE MCWorkerFleet ----------------------------
(* Instances of WorkerFleet for TLC.  Tasks are interchangeable; workers   *)
(* are not when one of them runs with --once.                              *)
EXTENDS WorkerFleet, TLC

Symmetry == Permutations(Tasks)
=============================================================================
