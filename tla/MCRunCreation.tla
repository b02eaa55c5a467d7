---------------------------- MODULE MCRunCreation ----------------------------
(* Small instances of RunCreation.                                          *)
EXTENDS RunCreation, TLC

CONSTANT Twins   \* inputs that differ in their suffix only

OutputNames == [i \in Input |-> IF i \in Twins THEN Twins ELSE {i}]

Symmetry == Permutations(Creator) \cup Permutations(Dir) \cup Permutations(Twins)
==============================================================================
