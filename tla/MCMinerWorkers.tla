--------------------------- MODULE MCMinerWorkers ---------------------------
(* Small instances of MinerWorkers for TLC.                                *)
EXTENDS MinerWorkers

CONSTANTS w1, w2, r1, r2

Unlimited == [r \in Requests |-> -1]
OneShort == [r \in Requests |-> IF r = r1 THEN 1 ELSE -1]
=============================================================================
