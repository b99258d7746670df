-------------------------- MODULE MCGraphExecutor --------------------------
(* Instances of GraphExecutor for TLC: its graph operations are those of a *)
(* dag without retries.  Node 1 is a required engine node that must not    *)
(* run twice unasked, any other node a data node that may.                 *)
EXTENDS GraphExecutor, DagGraph, TLC

CONSTANT MCGraph

Unrelated(kinds) ==
  [kind |-> kinds, edges |-> {}, key |-> [n \in DOMAIN kinds |-> NoKey],
   keyed |-> <<>>, global |-> 2, stopOnError |-> FALSE, retryCap |-> 0]

(* A single node, and two that are at work at the same time.               *)
OneNode  == Unrelated(<<"required">>)
TwoNodes == Unrelated(<<"required", "optional">>)

MCPositions         == NodesOf(MCGraph) \X {1}
MCEnginePositions   == {<<1, 1>>}
MCRetrySafe         == MCPositions \ {<<1, 1>>}
MCInitial           == DagInitialState(MCGraph)
MCReduce(s, ev)     == DagReduce(MCGraph, s, ev)
MCReduceAll(s, P)   == DagReduceBatch(MCGraph, s, P)
MCDecide(s)         == DagDecide(MCGraph, s)

(* Executors are told apart by nothing but their name.                     *)
Interchangeable == Permutations(Executors)
=============================================================================
