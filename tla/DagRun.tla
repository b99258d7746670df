------------------------------- MODULE DagRun -------------------------------
(***************************************************************************)
(* A run of the `dag` graph type under a sequential durable runner: what    *)
(* the events a run records do to the graph state, and what the graph asks  *)
(* for in return.  This is the abstract specification that the executor     *)
(* implements (module DagExecutor): it has no processes, no crashes and no  *)
(* storage, and each of its steps is one recorded decision or outcome.      *)
(***************************************************************************)
EXTENDS DagGraph, Functions

CONSTANTS
  NodeIds,    \* every node id that occurs in Graphs
  Graphs,     \* the compiled definitions a run may be started with
  Results     \* "passed", "skipped": how the reducer sees a completed result

ASSUME NodesAreNumbers == NodeIds \in SUBSET Nat /\ IsFiniteSet(NodeIds)
ASSUME KeysAreKeys     == \A g \in Graphs : NoKey \notin DOMAIN g.keyed
ASSUME GraphsAreValid == \A g \in Graphs : ValidDag(g) /\ NodesOf(g) \subseteq NodeIds
ASSUME ResultsAreStatuses == Results \subseteq {"passed", "skipped"}

VARIABLES
  graph,      \* the definition of this run; it never changes
  nodes       \* the state the events recorded so far fold to

vars == <<graph, nodes>>

Decision == DagDecide(graph, nodes)

Event(type, position, result) ==
  [type |-> type, position |-> position, result |-> result]

Init ==
  /\ graph \in Graphs
  /\ nodes = DagInitialState(graph)

(* The whole decision is recorded in one batch before any of it starts.    *)
RecordDispatch ==
  /\ Decision.kind = "dispatch"
  /\ Decision.positions # {}
  /\ nodes' = DagReduceBatch(graph, nodes, Decision.positions)
  /\ UNCHANGED graph

Record(ev) ==
  /\ nodes' = DagReduce(graph, nodes, ev)
  /\ UNCHANGED graph

Current(n) == <<n, nodes[n].attempts>>

Complete(n) == /\ nodes[n].status = "in-flight"
               /\ \E r \in Results : Record(Event("node-completed", Current(n), r))
Fail(n)     == /\ nodes[n].status = "in-flight"
               /\ Record(Event("node-failed", Current(n), "none"))
Pause(n)    == /\ nodes[n].status = "in-flight"
               /\ Record(Event("node-paused", Current(n), "none"))
Resume(n)   == /\ nodes[n].status = "paused"
               /\ Record(Event("node-resumed", Current(n), "none"))

Finished == Decision.kind \in {"complete", "fail"}

(* A finished run records nothing more.                                    *)
Stop == Finished /\ UNCHANGED vars

Next ==
  \/ RecordDispatch
  \/ \E n \in NodesOf(graph) : Complete(n) \/ Fail(n) \/ Pause(n) \/ Resume(n)
  \/ Stop

Settle(n) == Complete(n) \/ Fail(n)

(* The runner records a decision as long as there is one, every attempt    *)
(* that is offered again and again settles once, and a host resumes what   *)
(* is paused.                                                              *)
Fairness ==
  /\ WF_vars(RecordDispatch)
  /\ \A n \in NodeIds :
       /\ SF_vars(n \in NodesOf(graph) /\ Settle(n))
       /\ WF_vars(n \in NodesOf(graph) /\ Resume(n))

Spec     == Init /\ [][Next]_vars
FairSpec == Spec /\ Fairness
-----------------------------------------------------------------------------
(* Every node has a status the reducer knows and a number of attempts.     *)
TypeOK ==
  /\ graph \in Graphs
  /\ nodes \in [NodesOf(graph) -> [status : NodeStatus, attempts : Nat]]

InStatus(st) == {n \in NodesOf(graph) : nodes[n].status = st}
Started      == {n \in NodesOf(graph) : nodes[n].attempts > 0}
Dispatches   == SumFunction([n \in NodesOf(graph) |-> nodes[n].attempts])

(* No two of the limits the definition declares are ever exceeded by the   *)
(* attempts in flight, paused attempts that were resumed included (collect *)
(* counts free slots anew for every batch and looks at no recorded one).   *)
ConcurrencyWithinLimits ==
  LET live == InStatus("in-flight") IN
  /\ Cardinality(live) <= graph.global
  /\ \A k \in DOMAIN graph.keyed :
       Cardinality({n \in live : graph.key[n] = k}) <= graph.keyed[k]

(* A node that was ever dispatched has every dependency green, then and    *)
(* for the rest of the run: no later failure, retry or resume takes the    *)
(* ground away from work that was started on it (claimable, greenFor).     *)
StartedOnGreen ==
  \A n \in Started : \A m \in Predecessors(graph, n) : GreenFor(graph, nodes, m)

(* Finalizers run after everything else settled: once one was dispatched,  *)
(* no worker is open and none can ever be claimed again.                   *)
FinalizersLast ==
  Started \cap Finalizers(graph) # {} =>
    \A n \in Workers(graph) :
      /\ nodes[n].status \notin {"in-flight", "paused"}
      /\ ~Claimable(graph, nodes, n, TRUE)

(* Nothing is dispatched before what it has to wait for, nor is what it    *)
(* waited for ever undone.                                                 *)
OrderHolds == StartedOnGreen /\ FinalizersLast

(* The terminal commands are honest.  complete: every node was dispatched  *)
(* and settled, and nothing that counts failed.  fail: a required node or  *)
(* a finalizer failed and no retry is left to it.                          *)
TerminalIsHonest ==
  /\ Decision.kind = "complete" =>
       \A n \in NodesOf(graph) : n \in Started /\ GreenFor(graph, nodes, n)
  /\ Decision.kind = "fail" =>
       /\ \A n \in NodesOf(graph) : nodes[n].status \notin {"in-flight", "paused"}
       /\ \E n \in InStatus("failed") :
            /\ graph.kind[n] # "optional"
            /\ ~Claimable(graph, nodes, n, TRUE)

(* The bounds the plan declares: a run never dispatches more than max, a   *)
(* decision never more than maxFanOut, and a completed run at least min.   *)
BoundsHold ==
  /\ Dispatches <= MaxDispatches(graph)
  /\ Cardinality(Decision.positions) <= MaxFanOut(graph)
  /\ Decision.kind = "complete" => Dispatches >= MinDispatches(graph)

(* What a definition and its plan declare of it holds: the limits at every *)
(* moment, the bounds over the whole run.                                  *)
DeclaredLimitsHold == ConcurrencyWithinLimits /\ BoundsHold

(* With stopOnError, once a required node has failed no worker that is not *)
(* in flight already is ever dispatched again, not even as a retry.        *)
StopMeansStop ==
  [][graph.stopOnError /\ RequiredFailed(graph, nodes) # {} =>
       \A n \in Workers(graph) : nodes'[n].attempts = nodes[n].attempts]_vars

(* Every run ends: the graph never waits for work nobody has in hand, and  *)
(* the retries run out.                                                    *)
RunEnds == <>[]Finished
=============================================================================
