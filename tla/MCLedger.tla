------------------------------ MODULE MCLedger ------------------------------
(* Model-checking instance of Ledger: keyed and unkeyed steps, the same key  *)
(* with two descriptions, and both ways of becoming terminal.                *)
EXTENDS Ledger

CONSTANTS w1, w2, k, none, d1

MCWriters == {w1, w2}
MCKeys == {k}
MCSummaries == {"a", "b"}
MCDecisions == {d1}

MCBodies ==
  {[type |-> "STEP", summary |-> "a", key |-> none],
   [type |-> "STEP", summary |-> "a", key |-> k],
   [type |-> "STEP", summary |-> "b", key |-> k],
   [type |-> "RUN_COMPLETED", summary |-> "b", key |-> none],
   [type |-> "RUN_FAILED", summary |-> "a", key |-> k]}
=============================================================================
