------------------------ MODULE MCEscrowReconfigure ------------------------
(* Small instances of EscrowReconfigure for TLC.                             *)
EXTENDS EscrowReconfigure, TLC
CONSTANTS r1, r2

OwnThread == [r \in Requests |-> r]
=============================================================================
