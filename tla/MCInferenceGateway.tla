------------------------ MODULE MCInferenceGateway ------------------------
(* Small instances of InferenceGateway for TLC.                              *)
EXTENDS InferenceGateway
CONSTANTS g1, g2, p1, p2
=============================================================================
