---------------------------- MODULE MCRunLifecycle ----------------------------
(* Small instances of RunLifecycle; tasks and readers are interchangeable.   *)
EXTENDS RunLifecycle, TLC

Symmetry == Permutations(Task) \cup Permutations(Reader)
==============================================================================
