------------------------------ MODULE DagGraph ------------------------------
(***************************************************************************)
(* The `dag` graph type: the pure reduce and decide operations that         *)
(* packages/runtime/src/graph-types/dag.ts compiles a definition into.      *)
(*                                                                         *)
(* A compiled definition g is a record.  Its nodes are the numbers 1..N in  *)
(* declaration order, because decide walks them in that order.              *)
(*   kind        : node -> "required" | "optional" | "finalizer"            *)
(*   edges       : set of <<source, target>> pairs                          *)
(*   key         : node -> a concurrency key or NoKey                       *)
(*   global      : globalConcurrency,  keyed : key -> its limit             *)
(*   stopOnError : BOOLEAN,  retryCap : retryCapPerNode                     *)
(* A node's state is its status and the count of its recorded dispatches.   *)
(* The position of attempt k of node n is <<n, k>> (`dag/n/k`); the field   *)
(* inFlight of the code is <<n, attempts>> exactly while the status is      *)
(* "in-flight" or "paused", and null otherwise, so it is not kept twice.    *)
(***************************************************************************)
EXTENDS Naturals, FiniteSets

CONSTANT NoKey   \* the `key: null` of a node without a concurrency key

Kinds      == {"required", "optional", "finalizer"}
NodeStatus == {"pending", "in-flight", "paused", "passed", "skipped", "failed"}

NodesOf(g)      == DOMAIN g.kind
Finalizers(g)   == {n \in NodesOf(g) : g.kind[n] = "finalizer"}
Workers(g)      == NodesOf(g) \ Finalizers(g)
Predecessors(g, n) == {m \in NodesOf(g) : <<m, n>> \in g.edges}

(* A set of nodes closed under "has a successor in the set" is a cycle.    *)
Acyclic(nodes, edges) ==
  ~ \E C \in SUBSET nodes \ {{}} : \A m \in C : \E n \in C : <<m, n>> \in edges

(* What validateDag accepts, lane declarations aside.                      *)
ValidDag(g) ==
  /\ \A n \in NodesOf(g) : g.kind[n] \in Kinds
  /\ g.global \in Nat \ {0}
  /\ \A k \in DOMAIN g.keyed : g.keyed[k] \in Nat \ {0}
  /\ \A n \in NodesOf(g) : g.key[n] = NoKey \/ g.key[n] \in DOMAIN g.keyed
  /\ g.stopOnError \in BOOLEAN
  /\ g.retryCap \in Nat
  /\ \A e \in g.edges : e[1] \notin Finalizers(g) /\ e[2] \notin Finalizers(g)
  /\ Acyclic(NodesOf(g), g.edges)

-----------------------------------------------------------------------------
(* reduce                                                                  *)

DagInitialState(g) == [n \in NodesOf(g) |-> [status |-> "pending", attempts |-> 0]]

(* Broken, for mutation testing: off by one.                               *)
IsNext(s, p) == s[p[1]].status = "in-flight" /\ s[p[1]].attempts + 1 = p[2]

(* The attempt at position p is the one the node has in flight.            *)
IsCurrent(s, p) == s[p[1]].status = "in-flight" /\ s[p[1]].attempts = p[2]

WithStatus(s, n, st) == [s EXCEPT ![n].status = st]

(* An event is [type, position] with, on a completion, its result: the     *)
(* reducer tells only a result carrying skipped from any other.  An event  *)
(* for any other attempt than the current one leaves the state alone.      *)
DagReduce(g, s, ev) ==
  LET n == ev.position[1]  k == ev.position[2] IN
  CASE ev.type = "node-dispatched" ->
         IF k = s[n].attempts + 1 /\ s[n].status \in {"pending", "failed"}
           THEN [s EXCEPT ![n] = [status |-> "in-flight", attempts |-> k]]
           ELSE s
    [] ev.type = "node-completed" /\ IsCurrent(s, ev.position) -> WithStatus(s, n, ev.result)
    [] ev.type = "node-failed"    /\ IsCurrent(s, ev.position) -> WithStatus(s, n, "failed")
    [] ev.type = "node-paused"    /\ IsCurrent(s, ev.position) -> WithStatus(s, n, "paused")
    [] ev.type = "node-resumed"   /\ s[n].status = "paused" /\ s[n].attempts = k
                                       -> WithStatus(s, n, "in-flight")
    [] OTHER -> s

(* The node-dispatched events of one decision.  They are for distinct      *)
(* nodes, so the order they are folded in does not matter.                 *)
DagReduceBatch(g, s, positions) ==
  [n \in NodesOf(g) |->
     IF \E p \in positions : p[1] = n
       THEN LET p == CHOOSE q \in positions : q[1] = n
            IN DagReduce(g, s, [type |-> "node-dispatched", position |-> p,
                                result |-> "none"])[n]
       ELSE s[n]]

-----------------------------------------------------------------------------
(* decide                                                                  *)

GreenFor(g, s, n) ==
  \/ s[n].status \in {"passed", "skipped"}
  \/ s[n].status = "failed" /\ g.kind[n] = "optional"

RequiredFailed(g, s) ==
  {n \in NodesOf(g) : s[n].status = "failed" /\ g.kind[n] = "required"}

(* Broken, for mutation testing: retries whatever failed.                  *)
RetryAny(g, s, n, stopOnFailure) ==
  \/ s[n].status = "failed" /\ s[n].attempts <= g.retryCap
  \/ /\ s[n].status = "pending"
     /\ ~(stopOnFailure /\ g.stopOnError /\ RequiredFailed(g, s) # {})
     /\ \A m \in Predecessors(g, n) : GreenFor(g, s, m)

Claimable(g, s, n, stopOnFailure) ==
  \/ /\ s[n].status = "failed"
     /\ ~g.stopOnError
     /\ g.kind[n] = "required"
     /\ s[n].attempts <= g.retryCap
  \/ /\ s[n].status = "pending"
     /\ ~(stopOnFailure /\ g.stopOnError /\ RequiredFailed(g, s) # {})
     /\ \A m \in Predecessors(g, n) : GreenFor(g, s, m)

(* Broken, for mutation testing: the limits of keys are not looked at.     *)
IsKeylessBatch(g, s, candidates, stopOnFailure, C) ==
  \A n \in candidates :
    n \in C <=> /\ Claimable(g, s, n, stopOnFailure)
               /\ Cardinality({m \in C : m < n}) < g.global

(* collect: walking the candidates in declaration order, C holds exactly   *)
(* the claimable ones that still find a free global slot and a free slot   *)
(* of their key.                                                           *)
IsBatch(g, s, candidates, stopOnFailure, C) ==
  \A n \in candidates :
    n \in C <=>
      /\ Claimable(g, s, n, stopOnFailure)
      /\ Cardinality({m \in C : m < n}) < g.global
      /\ \/ g.key[n] = NoKey
         \/ Cardinality({m \in C : m < n /\ g.key[m] = g.key[n]}) < g.keyed[g.key[n]]

Collect(g, s, candidates, stopOnFailure) ==
  CHOOSE C \in SUBSET candidates : IsBatch(g, s, candidates, stopOnFailure, C)

NextPosition(s, n) == <<n, s[n].attempts + 1>>

Dispatch(s, C) == [kind |-> "dispatch", positions |-> {NextPosition(s, n) : n \in C}]
Terminal(kind) == [kind |-> kind, positions |-> {}]

(* Broken, for mutation testing: finalizers are like optional nodes.       *)
DecideInOnePhase(g, s) ==
  LET ready == Collect(g, s, NodesOf(g), TRUE)
  IN IF \E n \in NodesOf(g) : s[n].status = "in-flight" THEN Dispatch(s, {})
     ELSE IF \E n \in NodesOf(g) : s[n].status = "paused" THEN Terminal("pause")
     ELSE IF ready # {} THEN Dispatch(s, ready)
     ELSE IF RequiredFailed(g, s) # {} THEN Terminal("fail")
     ELSE Terminal("complete")

(* The outputs, reasons and messages of the commands are left out.         *)
DagDecide(g, s) ==
  LET workers    == Collect(g, s, Workers(g), TRUE)
      finalizers == Collect(g, s, Finalizers(g), FALSE)
      failed(N)  == \E n \in N : s[n].status = "failed" /\ g.kind[n] # "optional"
  IN IF \E n \in NodesOf(g) : s[n].status = "in-flight" THEN Dispatch(s, {})
     ELSE IF \E n \in NodesOf(g) : s[n].status = "paused" THEN Terminal("pause")
     ELSE IF workers # {} THEN Dispatch(s, workers)
     ELSE IF finalizers # {} THEN Dispatch(s, finalizers)
     ELSE IF failed(NodesOf(g)) THEN Terminal("fail")
     ELSE Terminal("complete")

-----------------------------------------------------------------------------
(* describe().bounds                                                       *)

MinDispatches(g) == Cardinality(NodesOf(g))
MaxDispatches(g) ==
  Cardinality(NodesOf(g))
    + Cardinality({n \in NodesOf(g) : g.kind[n] = "required"}) * g.retryCap
MaxFanOut(g) == g.global
=============================================================================
