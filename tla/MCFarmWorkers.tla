---------------------------- MODULE MCFarmWorkers ----------------------------
(* Small instances of FarmWorkers.  Workers and tasks are interchangeable;   *)
(* tokens are numbers, so that the least fresh one is claimed.               *)
EXTENDS FarmWorkers, TLC

Symmetry == Permutations(Worker) \cup Permutations(Task)
==============================================================================
