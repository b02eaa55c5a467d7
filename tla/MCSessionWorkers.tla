--------------------------- MODULE MCSessionWorkers ---------------------------
(* Small instances of SessionWorkers.  Workers are interchangeable.          *)
EXTENDS SessionWorkers, TLC

CONSTANTS t1, t2

Config(reset, budget, other) == [reset |-> reset, budget |-> budget, other |-> other]

(* Both tasks fit into one session, or the second does not: for the budget   *)
(* or for its directory.                                                     *)
SmallConfigs == {Config(TRUE, 2, {}), Config(FALSE, 1, {t2})}

OneConfig == {Config(TRUE, 2, {})}

Symmetry == Permutations(Worker)
==============================================================================
