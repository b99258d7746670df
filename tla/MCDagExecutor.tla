--------------------------- MODULE MCDagExecutor ---------------------------
(* An instance of DagExecutor for TLC: two nodes at work at the same time.  *)
(* Node 1 is an engine node that must not run twice unasked, node 2 a data  *)
(* node that may.                                                           *)
EXTENDS DagExecutor

TwoAtOnce ==
  [kind |-> <<"required", "optional">>, edges |-> {}, key |-> <<NoKey, NoKey>>,
   keyed |-> <<>>, global |-> 2, stopOnError |-> FALSE, retryCap |-> 0]

EngineWork == {p \in DagPositions : p[1] = 1}
SafeWork   == {p \in DagPositions : p[1] = 2}
=============================================================================
