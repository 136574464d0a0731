--------------------------- MODULE MCMinerPayment ---------------------------
(* Small instances of MinerPayment for TLC.                                  *)
EXTENDS MinerPayment, TLC
CONSTANTS r1, r2

(* The gateway and the proxy have an event loop each.                        *)
OwnThread == [r \in Requests |-> r]
=============================================================================
