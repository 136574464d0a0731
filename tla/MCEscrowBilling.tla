-------------------------- MODULE MCEscrowBilling --------------------------
(* Small instances of EscrowBilling for TLC.                                 *)
EXTENDS EscrowBilling, TLC
CONSTANTS r1, r2

(* Each request on a thread of its own: r1 on the gateway's event loop, r2   *)
(* on the proxy's, or on an RPC thread.                                      *)
OwnThread == [r \in Requests |-> r]
=============================================================================
