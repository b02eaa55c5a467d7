----------------------------- MODULE MCCodexExec -----------------------------
(* A small instance of CodexExec: a worker and the command "one".           *)
EXTENDS CodexExec

CONSTANTS worker, one

Callers == {worker, one}
OneCallers == {one}

(* To keep the instance small an earlier output lies at the path of "one",  *)
(* and the log is an old one; an empty and a current one come of it.        *)
MCInit ==
  /\ Init
  /\ file[0].quality = "good"
  /\ log.header = "legacy" /\ log.rows[1].shape = "legacy"

MCSpec == MCInit /\ [][Next]_vars
==============================================================================
