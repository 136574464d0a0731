-------------------------- MODULE MCApiForwarding --------------------------
(* Instances of ApiForwarding for TLC.                                      *)
EXTENDS ApiForwarding

CONSTANTS a, b, m, c1, c2

Both(x, y) == {<<x, y>>, <<y, x>>}

\* A client a, a node b that forwards what its own miner does not answer, and
\* a miner node m that b knows of.
Chain == Both(a, b) \cup Both(b, m)
ChainAds == [n \in Nodes |-> IF n = b THEN {m} ELSE {}]
\* One call is made on the client, one on the forwarding node.
ClientAndRelay == [c \in Calls |-> IF c = c1 THEN a ELSE b]
============================================================================
