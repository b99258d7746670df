----------------------------- MODULE MCPreflight -----------------------------
(* Two lanes: one of two targets that must answer and be supported, and one *)
(* of a target of the first and one more, with two nodes on it.             *)
EXTENDS Preflight

MCLanes == <<[targets |-> <<"a", "b">>, contexts |-> 1, live |-> TRUE, block |-> TRUE],
             [targets |-> <<"b", "c">>, contexts |-> 2, live |-> FALSE, block |-> FALSE]>>

(* A failure of a retires a, one of b or c retires it alone, or its adapter, *)
(* which is that of both; each may report an identity that nobody declared.  *)
MCReach == [a |-> {{"a"}, {}}, b |-> {{"b"}, {"b", "c"}, {}}, c |-> {{"c"}, {"b", "c"}, {}}]
===============================================================================
