---------------------------- MODULE DagExecutor ----------------------------
(***************************************************************************)
(* The graph executor running a `dag` graph: GraphExecutor with the graph  *)
(* operations of DagGraph in the place of its graph parameters (RunsADag). *)
(* However many executors there are, and wherever they stop, the graph     *)
(* state that the stream folds to goes through the steps of DagRun and no  *)
(* others.                                                                 *)
(***************************************************************************)
EXTENDS GraphExecutor, DagGraph

CONSTANT Graph      \* the compiled definition of the run

ASSUME GraphIsValid ==
  /\ ValidDag(Graph) /\ NoKey \notin DOMAIN Graph.keyed
  /\ NodesOf(Graph) \in SUBSET Nat /\ IsFiniteSet(NodesOf(Graph))
  /\ Results \subseteq {"passed", "skipped"}

DagPositions == {p \in NodesOf(Graph) \X (1..(Graph.retryCap + 1)) :
                   p[2] = 1 \/ (Graph.kind[p[1]] = "required" /\ ~Graph.stopOnError)}

DagInitial          == DagInitialState(Graph)
ReduceBatch(s, P)   == DagReduceBatch(Graph, s, P)
ReduceOne(s, ev)    == DagReduce(Graph, s, ev)
DecideNow(s)        == DagDecide(Graph, s)

(* The parameters of GraphExecutor are those of the dag.                   *)
RunsADag ==
  /\ Positions = DagPositions /\ GraphInitial = DagInitial
  /\ \A s, P : ReduceAll(s, P) = ReduceBatch(s, P)
  /\ \A s, ev : Reduce(s, ev) = ReduceOne(s, ev)
  /\ \A s : Decide(s) = DecideNow(s)

Abstract == INSTANCE DagRun WITH
  NodeIds <- NodesOf(Graph), Graphs <- {Graph}, graph <- Graph, nodes <- log.gstate

(* The stream's graph state is that of the sequential durable run.         *)
ImplementsDagRun == Abstract!Spec
=============================================================================
