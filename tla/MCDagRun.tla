------------------------------ MODULE MCDagRun ------------------------------
(* Instances of DagRun for TLC: not one hand-picked graph but every valid  *)
(* definition of three nodes over a few edges and limits, one of them with *)
(* a dependency on a node declared later.                                  *)
EXTENDS DagRun

CONSTANTS MaxGlobal, MaxRetry

MCGraphs ==
  {g \in [kind : [NodeIds -> Kinds],
          edges : SUBSET {<<1, 2>>, <<2, 3>>, <<1, 3>>, <<3, 1>>},
          key : {[n \in NodeIds |-> IF n \in K THEN "k" ELSE NoKey] : K \in {{}, {1, 3}}},
          keyed : {[k \in {"k"} |-> 1]},
          global : 1..MaxGlobal, stopOnError : BOOLEAN, retryCap : 0..MaxRetry] :
     ValidDag(g)}
=============================================================================
