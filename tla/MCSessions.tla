---------------------------- MODULE MCSessions ----------------------------
(* Sessions with two slots for requests: one serves the hijacked connections, *)
(* the other one the requests net/http keeps; both change hosts and stacks.   *)
EXTENDS Sessions

CONSTANTS socket, plain

TwoReqs == {socket, plain}
Split == [r \in TwoReqs |-> IF r = socket THEN {"exec", "logs"} ELSE Kinds \ {"exec", "logs"}]
=============================================================================
