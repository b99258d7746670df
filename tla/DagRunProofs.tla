---------------------------- MODULE DagRunProofs ----------------------------
(***************************************************************************)
(* Proofs about DagRun, for every set of valid definitions: the state has   *)
(* its type, the global and the keyed limits hold at every moment           *)
(* (ConcurrencyWithinLimits), work starts on what it waits for and nothing  *)
(* takes that away (OrderHolds), a terminal command is honest               *)
(* (TerminalIsHonest), stopOnError stops (StopMeansStop), and the limits    *)
(* the plan declares hold (DeclaredLimitsHold).                             *)
(*                                                                          *)
(* The argument: what a decision dispatches is a batch as collect describes *)
(* one, and an outcome changes the status of one node that is open          *)
(* (DispatchIs, RecordIs); from there each part of the invariant is kept by *)
(* looking at the two. That collect always has a batch to return, which it  *)
(* takes by walking the candidates in order, needs an induction over the    *)
(* candidates: it is made by contradiction on a smallest set without one    *)
(* (MinimalExists), and so is the step from "no node can be claimed" to     *)
(* "every node was dispatched", where a smallest set of waiting nodes would *)
(* be a cycle (SourceExists).                                               *)
(*                                                                          *)
(* A node is dispatched once, and a required one once more per retry        *)
(* (Capped), and none beyond the global limit at a time (DecisionFits). The *)
(* declared limits then compare sums over the nodes: what a sum is, that it *)
(* grows with its terms and that a term can be taken apart are proved from  *)
(* its definition, by the same smallest sets (NoneMinimal, SumApart,        *)
(* SumGrows, SumCounts).                                                    *)
(***************************************************************************)
EXTENDS DagRun, FiniteSetTheorems, TLAPS

(* A set of subsets of a finite set has a smallest member: the form in      *)
(* which the proofs below use induction over a finite set.                  *)
LEMMA MinimalExists ==
  ASSUME NEW S, IsFiniteSet(S), NEW T, T # {}, \A D \in T : D \subseteq S
  PROVE  \E D \in T : \A E \in T : E \subseteq D => E = D
<1>1. IsWellFoundedOn(StrictSubsetOrdering(S), SUBSET S)
  BY FS_StrictSubsetOrderingWellFounded, FS_FiniteSubsetsOfFinite
<1>2. PICK D \in T : \A E \in T : <<E, D>> \notin StrictSubsetOrdering(S)
  <2>1. T \in SUBSET SUBSET S
    OBVIOUS
  <2>2. QED
    BY <1>1, <2>1, WFMin
<1>3. \A E \in T : E \subseteq D => E = D
  BY <1>2 DEF StrictSubsetOrdering
<1>4. QED
  BY <1>3

(* A finite set of numbers has a greatest element.                          *)
LEMMA MaximumExists ==
  ASSUME NEW S \in SUBSET Nat, IsFiniteSet(S), S # {}
  PROVE  \E m \in S : \A n \in S : n <= m
<1> DEFINE Top(D) == \E m \in D : \A n \in D : n <= m
           T == {D \in SUBSET S : D # {} /\ ~Top(D)}
<1>1. ASSUME T # {} PROVE FALSE
  <2>1. PICK D \in T : \A E \in T : E \subseteq D => E = D
    <3>1. PICK U : U = T
      OBVIOUS
    <3>2. U # {} /\ \A D \in U : D \subseteq S
      BY <1>1, <3>1
    <3>3. \E D \in U : \A E \in U : E \subseteq D => E = D
      BY <3>2, MinimalExists
    <3>4. QED
      BY <3>1, <3>3
  <2>2. PICK x \in D : TRUE
    BY <2>1
  <2>3. D \ {x} \notin T
    BY <2>1, <2>2
  <2>4. CASE D \ {x} = {}
    BY <2>1, <2>2, <2>4
  <2>5. CASE D \ {x} # {}
    <3>1. Top(D \ {x})
      BY <2>1, <2>3, <2>5
    <3>2. PICK m \in D \ {x} : \A n \in D \ {x} : n <= m
      BY <3>1
    <3>3. \A n \in D : n <= IF m <= x THEN x ELSE m
      BY <2>1, <2>2, <3>2
    <3>4. Top(D)
      BY <2>2, <3>2, <3>3
    <3>5. QED
      BY <2>1, <3>4
  <2>6. QED
    BY <2>4, <2>5
<1>2. QED
  BY <1>1

(* For any candidates there is a batch that takes exactly the claimable     *)
(* ones which find a free slot: the greatest candidate is decided on after  *)
(* all others.                                                              *)
LEMMA BatchExists ==
  ASSUME NEW g, NEW s, NEW stop, NEW S \in SUBSET Nat, IsFiniteSet(S)
  PROVE  \E C \in SUBSET S : IsBatch(g, s, S, stop, C)
<1> DEFINE Has(D) == \E C \in SUBSET D : IsBatch(g, s, D, stop, C)
           T == {D \in SUBSET S : ~Has(D)}
<1>1. ASSUME T # {} PROVE FALSE
  <2>1. PICK D \in T : \A E \in T : E \subseteq D => E = D
    <3>1. PICK U : U = T
      OBVIOUS
    <3>2. U # {} /\ \A D \in U : D \subseteq S
      BY <1>1, <3>1
    <3>3. \E D \in U : \A E \in U : E \subseteq D => E = D
      BY <3>2, MinimalExists
    <3>4. QED
      BY <3>1, <3>3
  <2>2. D # {}
    <3>1. IsBatch(g, s, {}, stop, {})
      BY DEF IsBatch
    <3>2. QED
      BY <2>1, <3>1
  <2>3. PICK m \in D : \A n \in D : n <= m
    <3>1. IsFiniteSet(D)
      BY <2>1, FS_Subset
    <3>2. QED
      BY <2>1, <2>2, <3>1, MaximumExists
  <2>4. D \ {m} \notin T
    BY <2>1, <2>3
  <2>5. PICK C \in SUBSET (D \ {m}) : IsBatch(g, s, D \ {m}, stop, C)
    BY <2>1, <2>4
  <2>6. {k \in C : k < m} = C
    <3>1. ASSUME NEW k \in C PROVE k < m
      <4>1. k \in D /\ k # m /\ k \in Nat /\ m \in Nat
        BY <2>1, <2>3, <2>5
      <4>2. k <= m
        BY <2>3, <4>1
      <4>3. QED
        BY <4>1, <4>2
    <3>2. QED
      BY <3>1
  <2> DEFINE Fits == /\ Claimable(g, s, m, stop)
                     /\ Cardinality({k \in C : k < m}) < g.global
                     /\ \/ g.key[m] = NoKey
                        \/ Cardinality({k \in C : k < m /\ g.key[k] = g.key[m]}) < g.keyed[g.key[m]]
             E == IF Fits THEN C \union {m} ELSE C
  <2>7. \A n \in D : /\ {k \in E : k < n} = {k \in C : k < n}
                     /\ {k \in E : k < n /\ g.key[k] = g.key[n]} = {k \in C : k < n /\ g.key[k] = g.key[n]}
    BY <2>1, <2>3, <2>5
  <2>8. IsBatch(g, s, D, stop, E)
    <3> SUFFICES ASSUME NEW n \in D
                 PROVE  n \in E <=>
                          /\ Claimable(g, s, n, stop)
                          /\ Cardinality({k \in C : k < n}) < g.global
                          /\ \/ g.key[n] = NoKey
                             \/ Cardinality({k \in C : k < n /\ g.key[k] = g.key[n]}) < g.keyed[g.key[n]]
      BY <2>7 DEF IsBatch
    <3>1. CASE n = m
      <4>1. n \in E <=> Fits
        BY <2>5, <3>1
      <4>2. QED
        BY <3>1, <4>1
    <3>2. CASE n # m
      <4>1. n \in E <=> n \in C
        BY <3>2
      <4>2. n \in D \ {m}
        BY <3>2
      <4>3. QED
        BY <2>5, <4>1, <4>2 DEF IsBatch
    <3>3. QED
      BY <3>1, <3>2
  <2>9. E \in SUBSET D
    BY <2>3, <2>5
  <2>10. QED
    BY <2>1, <2>8, <2>9
<1>2. QED
  BY <1>1

(* What collect returns is such a batch, so the CHOOSE in it is never       *)
(* empty.                                                                   *)
LEMMA CollectIs ==
  ASSUME NEW g, NEW s, NEW stop, NEW S \in SUBSET Nat, IsFiniteSet(S)
  PROVE  /\ Collect(g, s, S, stop) \in SUBSET S
         /\ IsBatch(g, s, S, stop, Collect(g, s, S, stop))
<1>1. \E C \in SUBSET S : IsBatch(g, s, S, stop, C)
  BY BatchExists
<1> DEFINE P(C) == IsBatch(g, s, S, stop, C)
<1> HIDE DEF P
<1>2. \E C \in SUBSET S : P(C)
  BY <1>1 DEF P
<1>3. (CHOOSE C \in SUBSET S : P(C)) \in SUBSET S /\ P(CHOOSE C \in SUBSET S : P(C))
  BY <1>2, Zenon
<1>4. QED
  BY <1>3 DEF P, Collect

(* When collect returns nothing no candidate is claimable: the first of     *)
(* them would have found every slot free, for no limit is zero.             *)
LEMMA NothingFits ==
  ASSUME NEW g, NEW s, NEW stop, NEW S \in SUBSET Nat, IsFiniteSet(S), ValidDag(g),
         S \subseteq NodesOf(g), Collect(g, s, S, stop) = {}
  PROVE  \A n \in S : ~Claimable(g, s, n, stop)
<1> SUFFICES ASSUME NEW n \in S, Claimable(g, s, n, stop) PROVE FALSE
  OBVIOUS
<1>1. IsBatch(g, s, S, stop, {})
  BY CollectIs
<1>2. {m \in {} : m < n} = {} /\ {m \in {} : m < n /\ g.key[m] = g.key[n]} = {}
  OBVIOUS
<1>3. Cardinality({}) = 0
  BY FS_EmptySet
<1>4. 0 < g.global /\ (g.key[n] = NoKey \/ 0 < g.keyed[g.key[n]])
  BY DEF ValidDag
<1>5. n \in {}
  BY <1>1, <1>2, <1>3, <1>4 DEF IsBatch
<1>6. QED
  BY <1>5

(* A batch keeps the global limit and the limit of every key: the last      *)
(* member of it found a free slot.                                          *)
LEMMA BatchFits ==
  ASSUME NEW g, NEW s, NEW stop, NEW S \in SUBSET Nat, IsFiniteSet(S), ValidDag(g),
         NEW C \in SUBSET S, IsBatch(g, s, S, stop, C)
  PROVE  /\ Cardinality(C) <= g.global
         /\ \A k \in DOMAIN g.keyed : k # NoKey => Cardinality({n \in C : g.key[n] = k}) <= g.keyed[k]
<1>1. IsFiniteSet(C) /\ C \in SUBSET Nat
  BY FS_Subset
<1>2. Cardinality(C) <= g.global
  <2>1. CASE C = {}
    BY <2>1, FS_EmptySet DEF ValidDag
  <2>2. CASE C # {}
    <3>1. PICK m \in C : \A n \in C : n <= m
      BY <1>1, <2>2, MaximumExists
    <3>2. {n \in C : n < m} = C \ {m}
      <4>1. \A n \in C : n \in Nat /\ m \in Nat /\ n <= m
        BY <1>1, <3>1
      <4>2. \A n \in C : n < m <=> n # m
        BY <4>1
      <4>3. QED
        BY <4>2
    <3>3. Cardinality({n \in C : n < m}) < g.global
      BY <3>1 DEF IsBatch
    <3>4. Cardinality(C \ {m}) = Cardinality(C) - 1 /\ Cardinality(C) \in Nat
      BY <1>1, <3>1, FS_RemoveElement, FS_CardinalityType
    <3>5. QED
      BY <3>2, <3>3, <3>4 DEF ValidDag
  <2>3. QED
    BY <2>1, <2>2
<1>3. ASSUME NEW k \in DOMAIN g.keyed, k # NoKey
      PROVE  Cardinality({n \in C : g.key[n] = k}) <= g.keyed[k]
  <2> DEFINE D == {n \in C : g.key[n] = k}
  <2>1. IsFiniteSet(D) /\ D \in SUBSET Nat
    BY <1>1, FS_Subset
  <2>2. g.keyed[k] \in Nat \ {0}
    BY DEF ValidDag
  <2>3. CASE D = {}
    BY <2>2, <2>3, FS_EmptySet
  <2>4. CASE D # {}
    <3>1. PICK m \in D : \A n \in D : n <= m
      BY <2>1, <2>4, MaximumExists
    <3>2. {n \in C : n < m /\ g.key[n] = g.key[m]} = D \ {m}
      <4>1. \A n \in D : n \in Nat /\ m \in Nat /\ n <= m
        BY <2>1, <3>1
      <4>2. \A n \in D : n < m <=> n # m
        BY <4>1
      <4>3. QED
        BY <4>2, <3>1
    <3>3. Cardinality({n \in C : n < m /\ g.key[n] = g.key[m]}) < g.keyed[k]
      BY <1>3, <3>1 DEF IsBatch
    <3>4. Cardinality(D \ {m}) = Cardinality(D) - 1 /\ Cardinality(D) \in Nat
      BY <2>1, <3>1, FS_RemoveElement, FS_CardinalityType
    <3>5. Cardinality(D) <= g.keyed[k]
      BY <2>2, <3>2, <3>3, <3>4
    <3>6. QED
      BY <3>5
  <2>5. QED
    BY <2>3, <2>4
<1>4. QED
  BY <1>2, <1>3

(* The state after the nodes of C were dispatched.                          *)
Sent(s, g, C) == [n \in NodesOf(g) |-> IF n \in C THEN [status |-> "in-flight", attempts |-> s[n].attempts + 1]
                                              ELSE s[n]]

(* Folding the events of one decision leaves each dispatched node in flight *)
(* with one attempt more and every other node as it was.                    *)
LEMMA BatchIs ==
  ASSUME NEW g, NEW s \in [NodesOf(g) -> [status : NodeStatus, attempts : Nat]],
         NEW C \in SUBSET NodesOf(g), \A n \in C : s[n].status \in {"pending", "failed"}
  PROVE  DagReduceBatch(g, s, {NextPosition(s, n) : n \in C}) = Sent(s, g, C)
<1> DEFINE ps == {NextPosition(s, n) : n \in C}
<1>1. ASSUME NEW n \in NodesOf(g) PROVE DagReduceBatch(g, s, ps)[n] = Sent(s, g, C)[n]
  <2>1. CASE n \in C
    <3> DEFINE p == CHOOSE q \in ps : q[1] = n
    <3>1. <<n, s[n].attempts + 1>> \in ps
      BY <2>1 DEF NextPosition
    <3>2. \A q \in ps : q[1] = n => q = <<n, s[n].attempts + 1>>
      BY DEF NextPosition
    <3>3. \E q \in ps : q[1] = n
      BY <3>1
    <3>4. p = <<n, s[n].attempts + 1>>
      BY <3>2, <3>3
    <3> HIDE DEF p, ps
    <3>5. DagReduce(g, s, [type |-> "node-dispatched", position |-> p, result |-> "none"])[n]
            = [status |-> "in-flight", attempts |-> s[n].attempts + 1]
      BY <2>1, <3>4 DEF DagReduce
    <3>6. QED
      BY <2>1, <3>3, <3>5 DEF DagReduceBatch, Sent, p
  <2>2. CASE n \notin C
    <3>1. ~ \E q \in ps : q[1] = n
      BY <2>2 DEF NextPosition
    <3> HIDE DEF ps
    <3>2. QED
      BY <2>2, <3>1 DEF DagReduceBatch, Sent
  <2>3. QED
    BY <2>1, <2>2
<1> HIDE DEF ps
<1>2. DagReduceBatch(g, s, ps) = [n \in NodesOf(g) |-> DagReduceBatch(g, s, ps)[n]]
  BY DEF DagReduceBatch
<1>3. Sent(s, g, C) = [n \in NodesOf(g) |-> Sent(s, g, C)[n]]
  BY DEF Sent
<1>4. QED
  BY <1>1, <1>2, <1>3 DEF ps

(* The nodes of a run's definition, and the workers and finalizers among    *)
(* them, are finitely many numbers, and the definition is valid.            *)
LEMMA Candidates ==
  ASSUME graph \in Graphs
  PROVE  /\ ValidDag(graph)
         /\ NodesOf(graph) \in SUBSET Nat /\ IsFiniteSet(NodesOf(graph))
         /\ Workers(graph) \in SUBSET Nat /\ IsFiniteSet(Workers(graph))
         /\ Finalizers(graph) \in SUBSET Nat /\ IsFiniteSet(Finalizers(graph))
         /\ Workers(graph) \subseteq NodesOf(graph) /\ Finalizers(graph) \subseteq NodesOf(graph)
<1>1. NodesOf(graph) \subseteq NodeIds /\ ValidDag(graph)
  BY GraphsAreValid
<1>2. Workers(graph) \subseteq NodesOf(graph) /\ Finalizers(graph) \subseteq NodesOf(graph)
  BY DEF Workers, Finalizers
<1>3. QED
  BY <1>1, <1>2, NodesAreNumbers, FS_Subset

(* No attempt is open.                                                      *)
Quiet == \A n \in NodesOf(graph) : nodes[n].status \notin {"in-flight", "paused"}

(* C is a batch of the candidates S.                                        *)
Chosen(C, S, stop) ==
  /\ C \subseteq S
  /\ IsBatch(graph, nodes, S, stop, C)

(* A decision is recorded only while nothing is open, and it dispatches a   *)
(* batch of workers or, when no worker can be claimed, of finalizers.       *)
LEMMA DispatchIs ==
  ASSUME TypeOK, RecordDispatch
  PROVE  \E C : /\ nodes' = Sent(nodes, graph, C)
                /\ graph' = graph /\ Quiet
                /\ \/ Chosen(C, Workers(graph), TRUE)
                   \/ /\ Chosen(C, Finalizers(graph), FALSE)
                      /\ \A n \in Workers(graph) : ~Claimable(graph, nodes, n, TRUE)
<1>1. PICK W : W = Collect(graph, nodes, Workers(graph), TRUE)
  OBVIOUS
<1>2. PICK F : F = Collect(graph, nodes, Finalizers(graph), FALSE)
  OBVIOUS
<1>3. Chosen(W, Workers(graph), TRUE) /\ Chosen(F, Finalizers(graph), FALSE)
  BY <1>1, <1>2, Candidates, CollectIs DEF Chosen, TypeOK
<1>4. W = {} => \A n \in Workers(graph) : ~Claimable(graph, nodes, n, TRUE)
  BY <1>1, Candidates, NothingFits DEF TypeOK
<1>5. PICK d : d = Decision
  OBVIOUS
<1>6. d.kind = "dispatch" /\ d.positions # {} /\ graph' = graph
      /\ nodes' = DagReduceBatch(graph, nodes, d.positions)
  BY <1>5 DEF RecordDispatch
<1>7. Dispatch(nodes, {}).positions = {}
  BY DEF Dispatch
<1>8. Quiet /\ \/ d = Dispatch(nodes, W) /\ W # {}
               \/ d = Dispatch(nodes, F) /\ W = {}
  BY <1>1, <1>2, <1>5, <1>6, <1>7 DEF Decision, DagDecide, Quiet, Terminal
<1>9. ASSUME NEW C, NEW S, NEW stop, Chosen(C, S, stop), S \subseteq NodesOf(graph), d = Dispatch(nodes, C)
      PROVE  nodes' = Sent(nodes, graph, C)
  <2>1. \A n \in C : nodes[n].status \in {"pending", "failed"}
    BY <1>9 DEF Chosen, IsBatch, Claimable
  <2>2. d.positions = {NextPosition(nodes, n) : n \in C}
    BY <1>9 DEF Dispatch
  <2>3. C \subseteq NodesOf(graph)
    BY <1>9 DEF Chosen
  <2>4. QED
    BY <1>6, <2>1, <2>2, <2>3, BatchIs DEF TypeOK
<1>10. Workers(graph) \subseteq NodesOf(graph) /\ Finalizers(graph) \subseteq NodesOf(graph)
  BY Candidates DEF TypeOK
<1>11. CASE d = Dispatch(nodes, W) /\ W # {}
  BY <1>3, <1>6, <1>8, <1>9, <1>10, <1>11
<1>12. CASE d = Dispatch(nodes, F) /\ W = {}
  BY <1>3, <1>4, <1>6, <1>8, <1>9, <1>10, <1>12
<1>13. QED
  BY <1>8, <1>11, <1>12

(* An outcome, a pause or a resume changes the status of one open node and  *)
(* nothing else, and never back to pending.                                 *)
LEMMA RecordIs ==
  ASSUME TypeOK, NEW n \in NodesOf(graph), Complete(n) \/ Fail(n) \/ Pause(n) \/ Resume(n)
  PROVE  \E st \in NodeStatus \ {"pending"} :
           /\ nodes' = [nodes EXCEPT ![n].status = st]
           /\ nodes[n].status \in {"in-flight", "paused"}
           /\ graph' = graph
<1> USE DEF Record, DagReduce, Event, Current, IsCurrent, WithStatus, NodeStatus
<1>1. CASE Complete(n)
  <2>1. PICK r \in Results : Record(Event("node-completed", Current(n), r))
    BY <1>1 DEF Complete
  <2>2. r \in {"passed", "skipped"}
    BY ResultsAreStatuses
  <2>3. nodes' = [nodes EXCEPT ![n].status = r] /\ graph' = graph
    BY <1>1, <2>1 DEF Complete
  <2>4. QED
    BY <1>1, <2>2, <2>3 DEF Complete
<1>2. CASE Fail(n)
  <2>1. nodes' = [nodes EXCEPT ![n].status = "failed"] /\ graph' = graph
    BY <1>2 DEF Fail
  <2>2. QED
    BY <1>2, <2>1 DEF Fail
<1>3. CASE Pause(n)
  <2>1. nodes' = [nodes EXCEPT ![n].status = "paused"] /\ graph' = graph
    BY <1>3 DEF Pause
  <2>2. QED
    BY <1>3, <2>1 DEF Pause
<1>4. CASE Resume(n)
  <2>1. nodes' = [nodes EXCEPT ![n].status = "in-flight"] /\ graph' = graph
    BY <1>4 DEF Resume
  <2>2. QED
    BY <1>4, <2>1 DEF Resume
<1>5. QED
  BY <1>1, <1>2, <1>3, <1>4

(* A node is pending exactly until its first dispatch.                      *)
Counted == \A n \in NodesOf(graph) : nodes[n].status = "pending" <=> nodes[n].attempts = 0

(* The nodes with an attempt that is at work or paused.                     *)
OpenNodes == {n \in NodesOf(graph) : nodes[n].status \in {"in-flight", "paused"}}

(* The limits hold of paused attempts too, which may come back at any time. *)
OpenFit ==
  /\ Cardinality(OpenNodes) <= graph.global
  /\ \A k \in DOMAIN graph.keyed :
       k # NoKey => Cardinality({n \in OpenNodes : graph.key[n] = k}) <= graph.keyed[k]

(* The inductive invariant.                                                 *)
IInv == TypeOK /\ Counted /\ OrderHolds /\ OpenFit

(* The invariant holds when a run starts.                                   *)
LEMMA Starts ==
  ASSUME Init
  PROVE  IInv
<1>1. graph \in Graphs /\ nodes = [n \in NodesOf(graph) |-> [status |-> "pending", attempts |-> 0]]
  BY DEF Init, DagInitialState
<1>2. TypeOK /\ Counted
  BY <1>1 DEF TypeOK, Counted, NodeStatus
<1>3. Started = {} /\ OpenNodes = {}
  BY <1>1 DEF Started, OpenNodes
<1>4. OrderHolds
  BY <1>3 DEF OrderHolds, StartedOnGreen, FinalizersLast
<1>5. OpenFit
  <2>1. \A k : {n \in OpenNodes : graph.key[n] = k} = {}
    BY <1>3
  <2>2. Cardinality({}) = 0
    BY FS_EmptySet
  <2>3. ValidDag(graph)
    BY <1>1, GraphsAreValid
  <2>4. Cardinality(OpenNodes) <= graph.global
    BY <1>3, <2>2, <2>3 DEF ValidDag
  <2>5. \A k \in DOMAIN graph.keyed : 0 <= graph.keyed[k]
    BY <2>3 DEF ValidDag
  <2>6. QED
    BY <2>1, <2>2, <2>4, <2>5 DEF OpenFit
<1>6. QED
  BY <1>2, <1>4, <1>5 DEF IInv

(* Recording a decision keeps the invariant: what is claimable is not       *)
(* green, so nothing green is lost, and what is dispatched has only green   *)
(* dependencies.                                                            *)
LEMMA DispatchKeeps ==
  ASSUME IInv, RecordDispatch
  PROVE  IInv'
<1>1. TypeOK /\ Counted /\ StartedOnGreen /\ FinalizersLast
  BY DEF IInv, OrderHolds
<1>2. PICK C : /\ nodes' = Sent(nodes, graph, C)
               /\ graph' = graph /\ Quiet
               /\ \/ Chosen(C, Workers(graph), TRUE)
                  \/ /\ Chosen(C, Finalizers(graph), FALSE)
                     /\ \A n \in Workers(graph) : ~Claimable(graph, nodes, n, TRUE)
  BY <1>1, DispatchIs
<1>3. /\ ValidDag(graph)
      /\ Workers(graph) \subseteq NodesOf(graph) /\ Finalizers(graph) \subseteq NodesOf(graph)
  BY <1>1, Candidates DEF TypeOK
<1>4. C \subseteq NodesOf(graph)
  BY <1>2, <1>3 DEF Chosen
<1>5. /\ \A n \in C : nodes'[n].status = "in-flight" /\ nodes'[n].attempts = nodes[n].attempts + 1
      /\ \A n \in NodesOf(graph) \ C : nodes'[n] = nodes[n]
  BY <1>2, <1>4 DEF Sent
<1>6. TypeOK'
  BY <1>1, <1>2 DEF TypeOK, Sent, NodeStatus
<1>7. Counted'
  <2>1. \A n \in NodesOf(graph) : nodes[n].attempts \in Nat
    BY <1>1 DEF TypeOK
  <2>2. ASSUME NEW n \in NodesOf(graph) PROVE nodes'[n].status = "pending" <=> nodes'[n].attempts = 0
    <3>1. CASE n \in C
      <4>1. nodes'[n].status = "in-flight" /\ nodes'[n].attempts = nodes[n].attempts + 1
        BY <1>5, <3>1
      <4>2. nodes[n].attempts + 1 # 0
        BY <2>1
      <4>3. QED
        BY <4>1, <4>2
    <3>2. CASE n \notin C
      BY <1>1, <1>5, <3>2 DEF Counted
    <3>3. QED
      BY <3>1, <3>2
  <2>3. QED
    BY <1>2, <2>2 DEF Counted
<1>8. \A n \in C : Claimable(graph, nodes, n, TRUE) \/ Claimable(graph, nodes, n, FALSE)
  BY <1>2 DEF Chosen, IsBatch
<1>9. ASSUME NEW n \in NodesOf(graph), GreenFor(graph, nodes, n)
      PROVE  n \notin C /\ GreenFor(graph', nodes', n)
  <2>1. n \notin C
    BY <1>8, <1>9 DEF Claimable, GreenFor
  <2>2. nodes'[n] = nodes[n]
    BY <1>5, <2>1
  <2>3. QED
    BY <1>2, <1>9, <2>1, <2>2 DEF GreenFor
<1>10. StartedOnGreen'
  <2> SUFFICES ASSUME NEW n \in Started', NEW m \in Predecessors(graph, n)
               PROVE  GreenFor(graph, nodes, m)
    BY <1>2, <1>9 DEF StartedOnGreen, Predecessors
  <2>1. CASE n \in C
    <3>1. CASE nodes[n].status = "pending"
      BY <1>8, <2>1, <3>1 DEF Claimable
    <3>2. CASE nodes[n].status # "pending"
      <4>1. nodes[n].attempts > 0
        BY <1>1, <1>4, <2>1, <3>2 DEF TypeOK, Counted
      <4>2. QED
        BY <1>1, <1>4, <2>1, <4>1 DEF StartedOnGreen, Started
    <3>3. QED
      BY <3>1, <3>2
  <2>2. CASE n \notin C
    <3>1. n \in Started
      BY <1>2, <1>5, <2>2 DEF Started
    <3>2. QED
      BY <1>1, <3>1 DEF StartedOnGreen
  <2>3. QED
    BY <2>1, <2>2
<1>11. FinalizersLast'
  <2>1. CASE Chosen(C, Workers(graph), TRUE)
    <3>1. C = {} \/ Started \cap Finalizers(graph) = {}
      <4>1. \A n \in C : n \in Workers(graph) /\ Claimable(graph, nodes, n, TRUE)
        BY <2>1 DEF Chosen, IsBatch
      <4>2. QED
        BY <1>1, <4>1 DEF FinalizersLast
    <3>2. CASE C = {}
      <4>1. nodes' = nodes
        BY <1>1, <1>2, <3>2 DEF TypeOK, Sent
      <4>2. QED
        BY <1>1, <1>2, <4>1 DEF FinalizersLast, Started
    <3>3. CASE Started \cap Finalizers(graph) = {}
      <4>1. \A n \in Finalizers(graph) : n \notin C
        BY <2>1 DEF Chosen, Workers
      <4>2. Started' \cap Finalizers(graph) = {}
        BY <1>2, <1>5, <3>3, <4>1 DEF Started
      <4>3. QED
        BY <1>2, <4>2 DEF FinalizersLast
    <3>4. QED
      BY <3>1, <3>2, <3>3
  <2>2. CASE /\ Chosen(C, Finalizers(graph), FALSE)
             /\ \A n \in Workers(graph) : ~Claimable(graph, nodes, n, TRUE)
    <3>1. \A n \in Workers(graph) : n \in NodesOf(graph) /\ n \notin C /\ nodes'[n] = nodes[n]
      BY <1>3, <1>5, <2>2 DEF Chosen, Workers
    <3>2. RequiredFailed(graph, nodes') = RequiredFailed(graph, nodes)
      <4>1. \A n \in C : graph.kind[n] # "required"
        BY <2>2 DEF Chosen, Finalizers
      <4>2. QED
        BY <1>5, <4>1 DEF RequiredFailed
    <3>3. ASSUME NEW n \in Workers(graph) PROVE ~Claimable(graph, nodes', n, TRUE)
      <4>1. \A m \in Predecessors(graph, n) : m \in Workers(graph)
        <5>1. ASSUME NEW m \in Predecessors(graph, n) PROVE m \in Workers(graph)
          <6>1. <<m, n>> \in graph.edges /\ m \in NodesOf(graph)
            BY DEF Predecessors
          <6>2. <<m, n>>[1] \notin Finalizers(graph)
            BY <1>3, <6>1 DEF ValidDag
          <6>3. QED
            BY <6>1, <6>2 DEF Workers
        <5>2. QED
          BY <5>1
      <4>2. \A m \in Predecessors(graph, n) : GreenFor(graph, nodes', m) <=> GreenFor(graph, nodes, m)
        BY <3>1, <4>1 DEF GreenFor
      <4>3. Claimable(graph, nodes', n, TRUE) <=> Claimable(graph, nodes, n, TRUE)
        BY <3>1, <3>2, <4>2 DEF Claimable
      <4>4. QED
        BY <2>2, <4>3
    <3>4. QED
      BY <1>2, <3>1, <3>3 DEF FinalizersLast, Quiet
  <2>3. QED
    BY <1>2, <2>1, <2>2
<1>12. OpenFit'
  <2>1. OpenNodes' = C
    <3>1. \A n \in NodesOf(graph) : nodes'[n].status \in {"in-flight", "paused"} <=> n \in C
      BY <1>2, <1>5 DEF Quiet
    <3>2. OpenNodes' = {n \in NodesOf(graph) : nodes'[n].status \in {"in-flight", "paused"}}
      BY <1>2 DEF OpenNodes
    <3>3. QED
      BY <1>4, <3>1, <3>2
  <2>2. /\ Cardinality(C) <= graph.global
        /\ \A k \in DOMAIN graph.keyed : k # NoKey => Cardinality({n \in C : graph.key[n] = k}) <= graph.keyed[k]
    <3>1. CASE Chosen(C, Workers(graph), TRUE)
      BY <1>1, <3>1, Candidates, BatchFits DEF TypeOK, Chosen
    <3>2. CASE Chosen(C, Finalizers(graph), FALSE)
      BY <1>1, <3>2, Candidates, BatchFits DEF TypeOK, Chosen
    <3>3. QED
      BY <1>2, <3>1, <3>2
  <2>3. QED
    BY <1>2, <2>1, <2>2 DEF OpenFit
<1>13. QED
  BY <1>6, <1>7, <1>10, <1>11, <1>12 DEF IInv, OrderHolds

(* An outcome keeps the invariant: an open node is not green, so nothing    *)
(* green is lost, and once a finalizer was dispatched only finalizers are   *)
(* open.                                                                    *)
LEMMA RecordKeeps ==
  ASSUME IInv, NEW n \in NodesOf(graph), Complete(n) \/ Fail(n) \/ Pause(n) \/ Resume(n)
  PROVE  IInv'
<1>1. TypeOK /\ Counted /\ StartedOnGreen /\ FinalizersLast /\ OpenFit
  BY DEF IInv, OrderHolds
<1>2. PICK st \in NodeStatus \ {"pending"} :
           /\ nodes' = [nodes EXCEPT ![n].status = st]
           /\ nodes[n].status \in {"in-flight", "paused"}
           /\ graph' = graph
  BY <1>1, RecordIs
<1>3. /\ \A m \in NodesOf(graph) \ {n} : nodes'[m] = nodes[m]
      /\ nodes'[n] = [nodes[n] EXCEPT !.status = st]
      /\ nodes'[n].status = st /\ nodes'[n].attempts = nodes[n].attempts
  BY <1>1, <1>2 DEF TypeOK
<1>4. TypeOK'
  BY <1>1, <1>2 DEF TypeOK
<1>5. Counted'
  BY <1>1, <1>2, <1>3 DEF Counted
<1>6. Started' = Started
  BY <1>2, <1>3 DEF Started
<1>7. \A m \in NodesOf(graph) : GreenFor(graph, nodes, m) => GreenFor(graph, nodes', m)
  BY <1>2, <1>3 DEF GreenFor
<1>8. StartedOnGreen'
  BY <1>1, <1>2, <1>6, <1>7 DEF StartedOnGreen, Predecessors, Started
<1>9. FinalizersLast'
  <2> SUFFICES ASSUME Started \cap Finalizers(graph) # {}, NEW m \in Workers(graph)
               PROVE  /\ nodes'[m].status \notin {"in-flight", "paused"}
                      /\ ~Claimable(graph, nodes', m, TRUE)
    BY <1>2, <1>6 DEF FinalizersLast
  <2>1. \A k \in Workers(graph) : nodes[k].status \notin {"in-flight", "paused"}
    BY <1>1 DEF FinalizersLast
  <2>2. n \in Finalizers(graph)
    BY <1>2, <2>1 DEF Workers
  <2>3. \A k \in Workers(graph) : nodes'[k] = nodes[k]
    BY <1>3, <2>2 DEF Workers
  <2>4. RequiredFailed(graph, nodes') = RequiredFailed(graph, nodes)
    BY <1>3, <2>2 DEF RequiredFailed, Finalizers
  <2>5. \A k \in Predecessors(graph, m) : k \in Workers(graph)
    <3>1. ASSUME NEW k \in Predecessors(graph, m) PROVE k \in Workers(graph)
      <4>1. <<k, m>> \in graph.edges /\ k \in NodesOf(graph) /\ ValidDag(graph)
        BY <1>1, Candidates DEF Predecessors, TypeOK
      <4>2. <<k, m>>[1] \notin Finalizers(graph)
        BY <4>1 DEF ValidDag
      <4>3. QED
        BY <4>1, <4>2 DEF Workers
    <3>2. QED
      BY <3>1
  <2>6. \A k \in Predecessors(graph, m) : GreenFor(graph, nodes', k) <=> GreenFor(graph, nodes, k)
    BY <2>3, <2>5 DEF GreenFor
  <2>7. Claimable(graph, nodes', m, TRUE) <=> Claimable(graph, nodes, m, TRUE)
    BY <2>3, <2>4, <2>6 DEF Claimable
  <2>8. QED
    BY <1>1, <2>1, <2>3, <2>7 DEF FinalizersLast
<1>10. OpenFit'
  <2>1. OpenNodes' \subseteq OpenNodes /\ IsFiniteSet(OpenNodes)
    <3>1. IsFiniteSet(NodesOf(graph)) /\ OpenNodes \subseteq NodesOf(graph)
      BY <1>1, Candidates DEF TypeOK, OpenNodes
    <3>2. QED
      BY <1>2, <1>3, <3>1, FS_Subset DEF OpenNodes
  <2>2. ASSUME NEW A, NEW B, A \subseteq B, IsFiniteSet(B)
        PROVE  Cardinality(A) <= Cardinality(B) /\ Cardinality(A) \in Nat /\ Cardinality(B) \in Nat
    BY <2>2, FS_Subset, FS_CardinalityType
  <2>3. /\ graph.global \in Nat
        /\ \A k \in DOMAIN graph.keyed : graph.keyed[k] \in Nat
    BY <1>1, Candidates DEF TypeOK, ValidDag
  <2>4. Cardinality(OpenNodes') <= graph.global
    <3>1. Cardinality(OpenNodes) <= graph.global
      BY <1>1 DEF OpenFit
    <3>2. QED
      BY <2>1, <2>2, <2>3, <3>1
  <2>5. ASSUME NEW k \in DOMAIN graph.keyed, k # NoKey
        PROVE  Cardinality({m \in OpenNodes' : graph.key[m] = k}) <= graph.keyed[k]
    <3> DEFINE A == {m \in OpenNodes' : graph.key[m] = k}
               B == {m \in OpenNodes : graph.key[m] = k}
    <3>1. A \subseteq B /\ IsFiniteSet(B)
      BY <2>1, FS_Subset
    <3>2. Cardinality(B) <= graph.keyed[k]
      BY <1>1, <2>5 DEF OpenFit
    <3> HIDE DEF A, B
    <3>3. Cardinality(A) <= graph.keyed[k]
      BY <2>2, <2>3, <3>1, <3>2
    <3>4. QED
      BY <3>3 DEF A
  <2>6. QED
    BY <1>2, <2>4, <2>5 DEF OpenFit
<1>11. QED
  BY <1>4, <1>5, <1>8, <1>9, <1>10 DEF IInv, OrderHolds

(* Every state of every run satisfies the invariant.                        *)
THEOREM InvariantHolds == Spec => []IInv
<1>1. Init => IInv
  BY Starts
<1>2. IInv /\ [Next]_vars => IInv'
  <2> SUFFICES ASSUME IInv, [Next]_vars PROVE IInv'
    OBVIOUS
  <2>1. CASE RecordDispatch
    BY <2>1, DispatchKeeps
  <2>2. CASE \E n \in NodesOf(graph) : Complete(n) \/ Fail(n) \/ Pause(n) \/ Resume(n)
    BY <2>2, RecordKeeps
  <2>3. CASE UNCHANGED vars
    BY <2>3 DEF vars, IInv, TypeOK, Counted, OrderHolds, StartedOnGreen, FinalizersLast, OpenFit, OpenNodes, Started
  <2>4. QED
    BY <2>1, <2>2, <2>3 DEF Next, Stop
<1>3. QED
  BY <1>1, <1>2, PTL DEF Spec

(* The graph never changes and every node keeps a status and a number of    *)
(* attempts.                                                                *)
THEOREM TypeCorrect == Spec => []TypeOK
<1>1. IInv => TypeOK
  BY DEF IInv
<1>2. QED
  BY <1>1, InvariantHolds, PTL

(* For every valid definition, nothing is dispatched before what it waits   *)
(* for is green and no finalizer before the workers are done, and nothing   *)
(* that is recorded later undoes it (claimable, decide).                    *)
THEOREM OrderAlwaysHolds == Spec => []OrderHolds
<1>1. IInv => OrderHolds
  BY DEF IInv
<1>2. QED
  BY <1>1, InvariantHolds, PTL

(* For every valid definition the attempts in flight never exceed the       *)
(* global limit or the limit of a key, resumed attempts included (collect). *)
THEOREM LimitsAlwaysHold == Spec => []ConcurrencyWithinLimits
<1>1. IInv => ConcurrencyWithinLimits
  <2> SUFFICES ASSUME IInv PROVE ConcurrencyWithinLimits
    OBVIOUS
  <2> DEFINE live == InStatus("in-flight")
  <2>1. live \subseteq OpenNodes /\ IsFiniteSet(OpenNodes)
    <3>1. IsFiniteSet(NodesOf(graph)) /\ OpenNodes \subseteq NodesOf(graph)
      BY Candidates DEF IInv, TypeOK, OpenNodes
    <3>2. QED
      BY <3>1, FS_Subset DEF OpenNodes, InStatus
  <2>2. ASSUME NEW A, NEW B, A \subseteq B, IsFiniteSet(B)
        PROVE  Cardinality(A) <= Cardinality(B) /\ Cardinality(A) \in Nat /\ Cardinality(B) \in Nat
    BY <2>2, FS_Subset, FS_CardinalityType
  <2>3. /\ graph.global \in Nat
        /\ \A k \in DOMAIN graph.keyed : graph.keyed[k] \in Nat
    BY Candidates DEF IInv, TypeOK, ValidDag
  <2>4. Cardinality(live) <= graph.global
    <3>1. Cardinality(OpenNodes) <= graph.global
      BY DEF IInv, OpenFit
    <3> HIDE DEF live
    <3>2. QED
      BY <2>1, <2>2, <2>3, <3>1
  <2>5. ASSUME NEW k \in DOMAIN graph.keyed
        PROVE  Cardinality({n \in live : graph.key[n] = k}) <= graph.keyed[k]
    <3> DEFINE A == {n \in live : graph.key[n] = k}
               B == {n \in OpenNodes : graph.key[n] = k}
    <3>1. A \subseteq B /\ IsFiniteSet(B)
      BY <2>1, FS_Subset
    <3>2. k # NoKey
      BY KeysAreKeys DEF IInv, TypeOK
    <3>3. Cardinality(B) <= graph.keyed[k]
      BY <3>2 DEF IInv, OpenFit
    <3> HIDE DEF A, B
    <3>4. Cardinality(A) <= graph.keyed[k]
      BY <2>2, <2>3, <3>1, <3>3
    <3>5. QED
      BY <3>4 DEF A
  <2>6. QED
    BY <2>4, <2>5 DEF ConcurrencyWithinLimits
<1>2. QED
  BY <1>1, InvariantHolds, PTL

(* In a finite graph without a cycle every set of nodes has one without a   *)
(* predecessor in the set: in a smallest set without such a node every node *)
(* would have a successor too.                                              *)
LEMMA SourceExists ==
  ASSUME NEW S, IsFiniteSet(S), NEW edges, Acyclic(S, edges), NEW P \in SUBSET S, P # {}
  PROVE  \E n \in P : \A m \in P : <<m, n>> \notin edges
<1> SUFFICES ASSUME \A n \in P : \E m \in P : <<m, n>> \in edges PROVE FALSE
  OBVIOUS
<1> DEFINE Closed(D) == \A n \in D : \E m \in D : <<m, n>> \in edges
           T == {D \in SUBSET S : D # {} /\ Closed(D)}
<1>1. PICK U : U = T
  OBVIOUS
<1>2. P \in U /\ \A D \in U : D \subseteq S
  BY <1>1
<1>3. PICK D \in U : \A E \in U : E \subseteq D => E = D
  BY <1>2, MinimalExists
<1>4. D \in SUBSET S /\ D # {} /\ Closed(D)
  BY <1>1, <1>3
<1>5. PICK x \in D : \A n \in D : <<x, n>> \notin edges
  BY <1>4 DEF Acyclic
<1>6. PICK y \in D : <<y, x>> \in edges
  BY <1>4
<1>7. y # x
  BY <1>5, <1>6
<1>8. D \ {x} # {}
  BY <1>7
<1>9. Closed(D \ {x})
  BY <1>4, <1>5
<1>10. D \ {x} \in U
  BY <1>1, <1>4, <1>8, <1>9
<1>11. QED
  BY <1>3, <1>10

(* A terminal command is given only when nothing is open and nothing can be *)
(* claimed, and it is fail exactly when something that counts has failed.   *)
LEMMA DecisionIs ==
  ASSUME TypeOK, Decision.kind \in {"complete", "fail"}
  PROVE  /\ Quiet
         /\ \A n \in Workers(graph) : ~Claimable(graph, nodes, n, TRUE)
         /\ \A n \in Finalizers(graph) : ~Claimable(graph, nodes, n, FALSE)
         /\ Decision.kind = "fail" <=> \E n \in NodesOf(graph) : nodes[n].status = "failed" /\ graph.kind[n] # "optional"
<1>1. PICK W : W = Collect(graph, nodes, Workers(graph), TRUE)
  OBVIOUS
<1>2. PICK F : F = Collect(graph, nodes, Finalizers(graph), FALSE)
  OBVIOUS
<1>3. W = {} => \A n \in Workers(graph) : ~Claimable(graph, nodes, n, TRUE)
  BY <1>1, Candidates, NothingFits DEF TypeOK
<1>4. F = {} => \A n \in Finalizers(graph) : ~Claimable(graph, nodes, n, FALSE)
  BY <1>2, Candidates, NothingFits DEF TypeOK
<1>5. PICK d : d = Decision
  OBVIOUS
<1>6. /\ Quiet /\ W = {} /\ F = {}
      /\ d.kind = "fail" <=> \E n \in NodesOf(graph) : nodes[n].status = "failed" /\ graph.kind[n] # "optional"
  BY <1>1, <1>2, <1>5 DEF Decision, DagDecide, Quiet, Terminal, Dispatch
<1>7. QED
  BY <1>3, <1>4, <1>5, <1>6

(* For every valid definition, complete is said only when every node was    *)
(* dispatched and came out green, and fail only when a node that counts has *)
(* failed for good (decide).                                                *)
THEOREM TerminalAlwaysHonest == Spec => []TerminalIsHonest
<1>1. IInv => TerminalIsHonest
  <2> SUFFICES ASSUME IInv PROVE TerminalIsHonest
    OBVIOUS
  <2>1. TypeOK /\ Counted
    BY DEF IInv
  <2>2. NodesOf(graph) = Workers(graph) \union Finalizers(graph)
    BY DEF Workers, Finalizers
  <2>3. ASSUME Decision.kind = "complete", NEW n \in NodesOf(graph)
        PROVE  n \in Started /\ GreenFor(graph, nodes, n)
    <3>1. /\ Quiet
          /\ \A m \in Workers(graph) : ~Claimable(graph, nodes, m, TRUE)
          /\ \A m \in Finalizers(graph) : ~Claimable(graph, nodes, m, FALSE)
          /\ ~ \E m \in NodesOf(graph) : nodes[m].status = "failed" /\ graph.kind[m] # "optional"
      <4>1. "complete" # "fail"
        OBVIOUS
      <4>2. QED
        BY <2>1, <2>3, <4>1, DecisionIs
    <3> DEFINE P == {m \in NodesOf(graph) : nodes[m].status = "pending"}
    <3>2. \A m \in NodesOf(graph) : m \in P \/ GreenFor(graph, nodes, m)
      BY <2>1, <3>1 DEF GreenFor, Quiet, TypeOK, NodeStatus
    <3>3. RequiredFailed(graph, nodes) = {}
      BY <3>1 DEF RequiredFailed
    <3>4. P = {}
      <4>1. SUFFICES ASSUME P # {} PROVE FALSE
        OBVIOUS
      <4>2. PICK q \in P : \A m \in P : <<m, q>> \notin graph.edges
        BY <2>1, <4>1, Candidates, SourceExists DEF TypeOK, ValidDag
      <4>3. \A m \in Predecessors(graph, q) : GreenFor(graph, nodes, m)
        BY <3>2, <4>2 DEF Predecessors
      <4>4. Claimable(graph, nodes, q, TRUE) /\ Claimable(graph, nodes, q, FALSE)
        BY <3>3, <4>2, <4>3 DEF Claimable
      <4>5. QED
        BY <2>2, <3>1, <4>2, <4>4
    <3>5. GreenFor(graph, nodes, n) /\ nodes[n].status # "pending"
      BY <3>2, <3>4
    <3>6. nodes[n].attempts # 0 /\ nodes[n].attempts \in Nat
      BY <2>1, <3>5 DEF Counted, TypeOK
    <3>7. nodes[n].attempts > 0
      BY <3>6
    <3>8. QED
      BY <3>5, <3>7 DEF Started
  <2>4. ASSUME Decision.kind = "fail"
        PROVE  /\ \A n \in NodesOf(graph) : nodes[n].status \notin {"in-flight", "paused"}
               /\ \E n \in InStatus("failed") : /\ graph.kind[n] # "optional"
                                                 /\ ~Claimable(graph, nodes, n, TRUE)
    <3>1. /\ Quiet
          /\ \A m \in Workers(graph) : ~Claimable(graph, nodes, m, TRUE)
          /\ \A m \in Finalizers(graph) : ~Claimable(graph, nodes, m, FALSE)
          /\ \E m \in NodesOf(graph) : nodes[m].status = "failed" /\ graph.kind[m] # "optional"
      BY <2>1, <2>4, DecisionIs
    <3>2. PICK m \in NodesOf(graph) : nodes[m].status = "failed" /\ graph.kind[m] # "optional"
      BY <3>1
    <3>3. ~Claimable(graph, nodes, m, TRUE)
      <4>1. CASE m \in Workers(graph)
        BY <3>1, <4>1
      <4>2. CASE m \in Finalizers(graph)
        BY <3>2, <4>2 DEF Claimable, Finalizers
      <4>3. QED
        BY <2>2, <4>1, <4>2
    <3>4. QED
      BY <3>1, <3>2, <3>3 DEF InStatus, Quiet
  <2>5. QED
    BY <2>3, <2>4 DEF TerminalIsHonest
<1>2. QED
  BY <1>1, InvariantHolds, PTL

(* For every valid definition with stopOnError, no worker is dispatched     *)
(* after a required node failed (claimable).                                *)
THEOREM StopAlwaysStops == Spec => StopMeansStop
<1>1. IInv /\ [Next]_vars =>
        [graph.stopOnError /\ RequiredFailed(graph, nodes) # {} =>
           \A n \in Workers(graph) : nodes'[n].attempts = nodes[n].attempts]_vars
  <2> SUFFICES ASSUME IInv, Next, graph.stopOnError, RequiredFailed(graph, nodes) # {},
                      NEW n \in Workers(graph)
               PROVE  nodes'[n].attempts = nodes[n].attempts \/ UNCHANGED vars
    BY DEF vars
  <2>1. TypeOK /\ n \in NodesOf(graph)
    BY DEF IInv, Workers
  <2>2. CASE RecordDispatch
    <3>1. PICK C : /\ nodes' = Sent(nodes, graph, C)
                   /\ \/ Chosen(C, Workers(graph), TRUE)
                      \/ Chosen(C, Finalizers(graph), FALSE)
      BY <2>1, <2>2, DispatchIs
    <3>2. ~Claimable(graph, nodes, n, TRUE)
      BY DEF Claimable
    <3>3. n \notin C
      BY <3>1, <3>2 DEF Chosen, IsBatch, Workers
    <3>4. QED
      BY <2>1, <3>1, <3>3 DEF Sent
  <2>3. CASE \E m \in NodesOf(graph) : Complete(m) \/ Fail(m) \/ Pause(m) \/ Resume(m)
    <3>1. PICK m \in NodesOf(graph), st \in NodeStatus : nodes' = [nodes EXCEPT ![m].status = st]
      BY <2>1, <2>3, RecordIs
    <3>2. QED
      BY <2>1, <3>1 DEF TypeOK
  <2>4. QED
    BY <2>2, <2>3 DEF Next, Stop
<1>2. QED
  BY <1>1, InvariantHolds, PTL DEF Spec, StopMeansStop
-----------------------------------------------------------------------------
(* Sums over finite sets.  g gives every subset of S its sum of f.          *)
Adds(f, S, g) ==
  g = [s \in SUBSET S |-> IF s = {} THEN 0
                          ELSE LET x == CHOOSE x \in s : TRUE IN f[x] + g[s \ {x}]]

(* The sum of the values f has on S.                                        *)
Sum(f, S) == SumFunctionOnSet(f, S)

(* It is the value such a g has for S.                                      *)
LEMMA SumIs ==
  ASSUME NEW f, NEW S
  PROVE  Sum(f, S) = (CHOOSE g : Adds(f, S, g))[S]
  BY DEF Sum, SumFunctionOnSet, FoldFunctionOnSet, MapThenFoldSet, Adds

(* A set of subsets of E none of which is in it is empty, if a member would *)
(* be the smallest: induction over a finite set.                            *)
LEMMA NoneMinimal ==
  ASSUME NEW E, IsFiniteSet(E), NEW W, W \subseteq SUBSET E,
         \A D \in W : \E C \in W : C \subseteq D /\ C # D
  PROVE  W = {}
<1>1. SUFFICES ASSUME W # {} PROVE FALSE
  OBVIOUS
<1>2. PICK U : U = W
  OBVIOUS
<1>3. U # {} /\ \A D \in U : D \subseteq E
  BY <1>1, <1>2
<1>4. \E D \in U : \A C \in U : C \subseteq D => C = D
  BY <1>3, MinimalExists
<1>5. QED
  BY <1>2, <1>4

(* Two such functions agree where both have a value.                        *)
LEMMA SumUnique ==
  ASSUME NEW f, NEW S, NEW g, Adds(f, S, g), NEW T, NEW h, Adds(f, T, h),
         NEW E, IsFiniteSet(E), E \subseteq S, E \subseteq T
  PROVE  g[E] = h[E]
<1> DEFINE W == {D \in SUBSET E : g[D] # h[D]}
<1>1. ASSUME NEW D \in W, \A C \in W : C \subseteq D => C = D
      PROVE  FALSE
  <2> DEFINE x == CHOOSE x \in D : TRUE
  <2>1. D \in SUBSET S /\ D \in SUBSET T
    OBVIOUS
  <2>2. g[D] = IF D = {} THEN 0 ELSE f[x] + g[D \ {x}]
    BY <2>1 DEF Adds
  <2>3. h[D] = IF D = {} THEN 0 ELSE f[x] + h[D \ {x}]
    BY <2>1 DEF Adds
  <2>4. D # {} /\ x \in D
    BY <2>2, <2>3
  <2> HIDE DEF x
  <2>5. D \ {x} \notin W
    BY <1>1, <2>4
  <2>6. g[D \ {x}] = h[D \ {x}]
    BY <2>1, <2>5
  <2>7. QED
    BY <2>2, <2>3, <2>6
<1>2. W = {}
  <2>1. W \subseteq SUBSET E
    OBVIOUS
  <2> HIDE DEF W
  <2>2. QED
    BY <1>1, <2>1, NoneMinimal
<1>3. QED
  BY <1>2

(* There is such a function: the one for S is made of those for the subsets *)
(* of S.                                                                    *)
LEMMA SumExists ==
  ASSUME NEW f, NEW S, IsFiniteSet(S)
  PROVE  \E g : Adds(f, S, g)
<1> DEFINE W == {D \in SUBSET S : ~ \E g : Adds(f, D, g)}
<1>1. ASSUME NEW D \in W, \A C \in W : C \subseteq D => C = D
      PROVE  FALSE
  <2> DEFINE sum(C) == CHOOSE g : Adds(f, C, g)
             x == CHOOSE x \in D : TRUE
             g == [s \in SUBSET D |-> IF s = D THEN (IF D = {} THEN 0 ELSE f[x] + sum(D \ {x})[D \ {x}])
                                               ELSE sum(s)[s]]
  <2>1. ASSUME NEW C \in SUBSET D, C # D
        PROVE  Adds(f, C, sum(C)) /\ IsFiniteSet(C)
    <3>1. \E h : Adds(f, C, h)
      BY <1>1, <2>1
    <3>2. Adds(f, C, sum(C))
      BY <3>1
    <3>3. QED
      BY <3>2, FS_Subset
  <2> HIDE DEF sum
  <2>2. ASSUME NEW s \in SUBSET D
        PROVE  g[s] = IF s = {} THEN 0 ELSE LET y == CHOOSE y \in s : TRUE IN f[y] + g[s \ {y}]
    <3> DEFINE y == CHOOSE y \in s : TRUE
    <3>1. s # {} => y \in s /\ s \ {y} \in SUBSET D /\ s \ {y} # D /\ g[s \ {y}] = sum(s \ {y})[s \ {y}]
      OBVIOUS
    <3>2. CASE s = D
      BY <3>1, <3>2
    <3>3. CASE s # D
      <4>1. g[s] = sum(s)[s] /\ s \in SUBSET s
        BY <3>3
      <4>2. sum(s)[s] = IF s = {} THEN 0 ELSE f[y] + sum(s)[s \ {y}]
        BY <2>1, <3>3, <4>1 DEF Adds
      <4>3. s # {} => sum(s)[s \ {y}] = sum(s \ {y})[s \ {y}]
        <5>1. SUFFICES ASSUME s # {} PROVE sum(s)[s \ {y}] = sum(s \ {y})[s \ {y}]
          OBVIOUS
        <5>2. Adds(f, s, sum(s)) /\ Adds(f, s \ {y}, sum(s \ {y})) /\ IsFiniteSet(s \ {y})
          BY <2>1, <3>1, <3>3, <5>1
        <5>3. s \ {y} \subseteq s /\ s \ {y} \subseteq s \ {y}
          OBVIOUS
        <5> HIDE DEF y
        <5>4. QED
          BY <5>2, <5>3, SumUnique
      <4>4. QED
        BY <3>1, <4>1, <4>2, <4>3
    <3>4. QED
      BY <3>2, <3>3
  <2>3. g = [s \in SUBSET D |-> g[s]]
    OBVIOUS
  <2> HIDE DEF g
  <2>4. Adds(f, D, g)
    BY <2>2, <2>3 DEF Adds
  <2>5. QED
    BY <2>4
<1>2. W = {}
  <2>1. W \subseteq SUBSET S
    OBVIOUS
  <2> HIDE DEF W
  <2>2. QED
    BY <1>1, <2>1, NoneMinimal
<1>3. QED
  BY <1>2

(* The sum over nothing is 0, and one member can be summed apart.           *)
LEMMA SumChoice ==
  ASSUME NEW f, NEW S, IsFiniteSet(S)
  PROVE  Sum(f, S) = IF S = {} THEN 0
                     ELSE LET x == CHOOSE x \in S : TRUE IN f[x] + Sum(f, S \ {x})
<1> DEFINE sum(C) == CHOOSE g : Adds(f, C, g)
           x == CHOOSE x \in S : TRUE
<1>1. ASSUME NEW C, C \subseteq S
      PROVE  Adds(f, C, sum(C)) /\ Sum(f, C) = sum(C)[C] /\ IsFiniteSet(C)
  <2>1. IsFiniteSet(C)
    BY <1>1, FS_Subset
  <2>2. \E g : Adds(f, C, g)
    BY <2>1, SumExists
  <2>3. QED
    BY <2>1, <2>2, SumIs
<1> HIDE DEF sum
<1>2. sum(S)[S] = IF S = {} THEN 0 ELSE f[x] + sum(S)[S \ {x}]
  <2>1. S \in SUBSET S /\ Adds(f, S, sum(S))
    BY <1>1
  <2>2. QED
    BY <2>1 DEF Adds
<1> HIDE DEF x
<1>3. sum(S)[S \ {x}] = sum(S \ {x})[S \ {x}]
  <2>1. S \ {x} \subseteq S /\ S \ {x} \subseteq S \ {x} /\ S \subseteq S
    OBVIOUS
  <2>2. Adds(f, S, sum(S)) /\ Adds(f, S \ {x}, sum(S \ {x})) /\ IsFiniteSet(S \ {x})
    BY <1>1, <2>1
  <2>3. QED
    BY <2>1, <2>2, SumUnique
<1>4. Sum(f, S) = sum(S)[S] /\ Sum(f, S \ {x}) = sum(S \ {x})[S \ {x}]
  BY <1>1
<1>5. QED
  BY <1>2, <1>3, <1>4 DEF x

(* The sum of numbers is a number.                                          *)
LEMMA SumIsNat ==
  ASSUME NEW S, IsFiniteSet(S), NEW f, \A x \in S : f[x] \in Nat
  PROVE  Sum(f, S) \in Nat
<1> DEFINE W == {D \in SUBSET S : Sum(f, D) \notin Nat}
<1>1. ASSUME NEW D \in W
      PROVE  \E C \in W : C \subseteq D /\ C # D
  <2> DEFINE x == CHOOSE x \in D : TRUE
  <2>1. IsFiniteSet(D)
    BY FS_Subset
  <2>2. Sum(f, D) = IF D = {} THEN 0 ELSE f[x] + Sum(f, D \ {x})
    BY <2>1, SumChoice
  <2>3. D # {} /\ x \in D
    BY <2>2
  <2> HIDE DEF x
  <2>4. f[x] \in Nat /\ D \ {x} \in SUBSET S
    BY <2>3
  <2>5. Sum(f, D \ {x}) \notin Nat
    BY <2>2, <2>3, <2>4
  <2>6. QED
    BY <2>3, <2>4, <2>5
<1>2. W = {}
  <2>1. W \subseteq SUBSET S
    OBVIOUS
  <2> HIDE DEF W
  <2>2. QED
    BY <1>1, <2>1, NoneMinimal
<1>3. QED
  BY <1>2

(* Any member can be summed apart from the others.                          *)
LEMMA SumApart ==
  ASSUME NEW S, IsFiniteSet(S), NEW f, \A x \in S : f[x] \in Nat, NEW y \in S
  PROVE  Sum(f, S) = f[y] + Sum(f, S \ {y})
<1> DEFINE Apart(D) == \A z \in D : Sum(f, D) = f[z] + Sum(f, D \ {z})
           W == {D \in SUBSET S : ~Apart(D)}
<1>1. ASSUME NEW D \in W
      PROVE  \E C \in W : C \subseteq D /\ C # D
  <2> DEFINE x == CHOOSE x \in D : TRUE
  <2>1. PICK z \in D : Sum(f, D) # f[z] + Sum(f, D \ {z})
    OBVIOUS
  <2>2. ASSUME NEW C \in SUBSET S
        PROVE  IsFiniteSet(C) /\ Sum(f, C) \in Nat
    <3>1. IsFiniteSet(C) /\ \A w \in C : f[w] \in Nat
      BY FS_Subset
    <3>2. QED
      BY <3>1, SumIsNat
  <2>3. Sum(f, D) = f[x] + Sum(f, D \ {x}) /\ x \in D
    <3>1. Sum(f, D) = IF D = {} THEN 0 ELSE f[x] + Sum(f, D \ {x})
      BY <2>2, SumChoice
    <3>2. QED
      BY <2>1, <3>1
  <2> HIDE DEF x
  <2>4. x # z
    BY <2>1, <2>3
  <2>5. ASSUME Apart(D \ {x}), Apart(D \ {z})
        PROVE  FALSE
    <3>1. Sum(f, D \ {x}) = f[z] + Sum(f, (D \ {x}) \ {z})
      BY <2>4, <2>5
    <3>2. Sum(f, D \ {z}) = f[x] + Sum(f, (D \ {z}) \ {x})
      BY <2>3, <2>4, <2>5
    <3>3. (D \ {x}) \ {z} = (D \ {z}) \ {x}
      OBVIOUS
    <3>4. f[x] \in Nat /\ f[z] \in Nat /\ Sum(f, (D \ {x}) \ {z}) \in Nat
      BY <2>2, <2>3
    <3>5. PICK t \in Nat : t = Sum(f, (D \ {x}) \ {z})
      BY <3>4
    <3>6. Sum(f, D) = f[x] + (f[z] + t) /\ Sum(f, D \ {z}) = f[x] + t
      BY <2>3, <3>1, <3>2, <3>3, <3>5
    <3>7. f[x] + (f[z] + t) = f[z] + (f[x] + t)
      BY <3>4, <3>5
    <3>8. QED
      BY <2>1, <3>6, <3>7
  <2> HIDE DEF Apart
  <2>6. D \ {x} \in W \/ D \ {z} \in W
    BY <2>5
  <2>7. QED
    BY <2>1, <2>3, <2>6
<1>2. W = {}
  <2>1. W \subseteq SUBSET S
    OBVIOUS
  <2> HIDE DEF W
  <2>2. QED
    BY <1>1, <2>1, NoneMinimal
<1>3. QED
  BY <1>2

(* A sum is at most that of greater numbers.                                *)
LEMMA SumGrows ==
  ASSUME NEW S, IsFiniteSet(S), NEW f, NEW h,
         \A x \in S : f[x] \in Nat /\ h[x] \in Nat /\ f[x] <= h[x]
  PROVE  Sum(f, S) <= Sum(h, S)
<1> DEFINE W == {D \in SUBSET S : ~(Sum(f, D) <= Sum(h, D))}
<1>1. ASSUME NEW D \in W
      PROVE  \E C \in W : C \subseteq D /\ C # D
  <2>1. ASSUME NEW C \in SUBSET S
        PROVE  IsFiniteSet(C) /\ Sum(f, C) \in Nat /\ Sum(h, C) \in Nat
    <3>1. IsFiniteSet(C) /\ \A w \in C : f[w] \in Nat /\ h[w] \in Nat
      BY FS_Subset
    <3>2. QED
      BY <3>1, SumIsNat
  <2>2. D # {}
    <3>1. IsFiniteSet({})
      BY FS_EmptySet
    <3>2. Sum(f, {}) = 0 /\ Sum(h, {}) = 0
      BY <3>1, SumChoice
    <3>3. QED
      BY <3>2
  <2>3. PICK x : x \in D
    BY <2>2
  <2>4. Sum(f, D) = f[x] + Sum(f, D \ {x}) /\ Sum(h, D) = h[x] + Sum(h, D \ {x})
    <3>1. IsFiniteSet(D) /\ \A w \in D : f[w] \in Nat /\ h[w] \in Nat
      BY <2>1
    <3>2. QED
      BY <2>3, <3>1, SumApart
  <2>5. D \ {x} \in SUBSET S /\ x \in S
    BY <2>3
  <2>6. /\ Sum(f, D \ {x}) \in Nat /\ Sum(h, D \ {x}) \in Nat
        /\ f[x] \in Nat /\ h[x] \in Nat /\ f[x] <= h[x]
    BY <2>1, <2>5
  <2>7. ~(Sum(f, D \ {x}) <= Sum(h, D \ {x}))
    BY <2>4, <2>6
  <2>8. QED
    BY <2>3, <2>5, <2>7
<1>2. W = {}
  <2>1. W \subseteq SUBSET S
    OBVIOUS
  <2> HIDE DEF W
  <2>2. QED
    BY <1>1, <2>1, NoneMinimal
<1>3. QED
  BY <1>2

(* f is a on every member of S, and c more on those of R.                   *)
Pays(f, S, R, a, c) == \A x \in S : f[x] = IF x \in R THEN a + c ELSE a

(* The sum is then one a for each member of S and a c for each in R.        *)
LEMMA SumCounts ==
  ASSUME NEW S, IsFiniteSet(S), NEW R, NEW a \in Nat, NEW c \in Nat, NEW f, Pays(f, S, R, a, c)
  PROVE  Sum(f, S) = Cardinality(S) * a + Cardinality(S \cap R) * c
<1> DEFINE Counts(D) == Sum(f, D) = Cardinality(D) * a + Cardinality(D \cap R) * c
           W == {D \in SUBSET S : ~Counts(D)}
<1>1. ASSUME NEW D \in W
      PROVE  \E C \in W : C \subseteq D /\ C # D
  <2>1. IsFiniteSet(D) /\ IsFiniteSet(D \cap R) /\ \A w \in D : f[w] \in Nat
    BY FS_Subset DEF Pays
  <2>2. D # {}
    <3>1. IsFiniteSet({}) /\ Cardinality({}) = 0 /\ {} \cap R = {}
      BY FS_EmptySet
    <3>2. Sum(f, {}) = 0
      BY <3>1, SumChoice
    <3>3. 0 * a = 0 /\ 0 * c = 0 /\ 0 + 0 = 0
      OBVIOUS
    <3>4. Counts({})
      BY <3>1, <3>2, <3>3
    <3>5. QED
      BY <3>4
  <2>3. PICK x : x \in D
    BY <2>2
  <2> DEFINE E == D \ {x}
             m == Cardinality(E)
             n == Cardinality(E \cap R)
  <2>4. Sum(f, D) = f[x] + Sum(f, E)
    BY <2>1, <2>3, SumApart
  <2>5. IsFiniteSet(E) /\ IsFiniteSet(E \cap R) /\ m \in Nat /\ n \in Nat
    BY <2>1, FS_Subset, FS_CardinalityType
  <2>6. Cardinality(D) = m + 1
    <3>1. D = E \cup {x} /\ x \notin E
      BY <2>3
    <3>2. QED
      BY <2>5, <3>1, FS_AddElement
  <2>7. Cardinality(D \cap R) = IF x \in R THEN n + 1 ELSE n
    <3>1. CASE x \in R
      <4>1. D \cap R = (E \cap R) \cup {x} /\ x \notin E \cap R
        BY <2>3, <3>1
      <4>2. QED
        BY <2>5, <3>1, <4>1, FS_AddElement
    <3>2. CASE x \notin R
      <4>1. D \cap R = E \cap R
        BY <3>2
      <4>2. QED
        BY <3>2, <4>1
    <3>3. QED
      BY <3>1, <3>2
  <2>8. f[x] = IF x \in R THEN a + c ELSE a
    BY <2>3 DEF Pays
  <2>9. ~Counts(E)
    <3>1. SUFFICES ASSUME Sum(f, E) = m * a + n * c PROVE FALSE
      OBVIOUS
    <3>2. Sum(f, D) # Cardinality(D) * a + Cardinality(D \cap R) * c
      OBVIOUS
    <3> HIDE DEF m, n, E
    <3>3. (m + 1) * a = m * a + a /\ (n + 1) * c = n * c + c /\ m * a \in Nat /\ n * c \in Nat
      BY <2>5
    <3>4. QED
      BY <2>4, <2>6, <2>7, <2>8, <3>1, <3>2, <3>3
  <2> HIDE DEF Counts
  <2>10. QED
    BY <2>3, <2>9
<1>2. W = {}
  <2>1. W \subseteq SUBSET S
    OBVIOUS
  <2> HIDE DEF W
  <2>2. QED
    BY <1>1, <2>1, NoneMinimal
<1>3. QED
  BY <1>2

(* The sum of one for each member of S is their number.                     *)
LEMMA SumOfOnes ==
  ASSUME NEW S, IsFiniteSet(S), NEW f, \A x \in S : f[x] = 1
  PROVE  Sum(f, S) = Cardinality(S)
<1>1. PICK a : a = 1
  OBVIOUS
<1>2. PICK c : c = 0
  OBVIOUS
<1>3. a \in Nat /\ c \in Nat
  BY <1>1, <1>2
<1>4. Pays(f, S, {}, a, c)
  BY <1>1 DEF Pays
<1>5. Sum(f, S) = Cardinality(S) * a + Cardinality(S \cap {}) * c
  BY <1>3, <1>4, SumCounts
<1>6. Cardinality(S) \in Nat /\ S \cap {} = {} /\ Cardinality({}) = 0
  BY FS_CardinalityType, FS_EmptySet
<1>7. Cardinality(S) * a = Cardinality(S) /\ 0 * c = 0
  BY <1>1, <1>2, <1>6
<1>8. QED
  BY <1>5, <1>6, <1>7

-----------------------------------------------------------------------------
(* The most often a node may be dispatched: once and, when it is required,  *)
(* once more for every retry.                                               *)
Allowance(n) == IF graph.kind[n] = "required" THEN 1 + graph.retryCap ELSE 1

(* No node was dispatched more often than that.                             *)
Capped == \A n \in NodesOf(graph) : nodes[n].attempts <= Allowance(n)

(* Every step keeps it: what is claimable is either dispatched for the      *)
(* first time or required, failed, and has a retry left.                    *)
LEMMA CappedKeeps ==
  ASSUME IInv, Capped, [Next]_vars
  PROVE  Capped'
<1>1. TypeOK /\ Counted
  BY DEF IInv
<1>2. graph.retryCap \in Nat
  BY <1>1, Candidates DEF TypeOK, ValidDag
<1>3. CASE RecordDispatch
  <2>1. PICK C, S, stop : nodes' = Sent(nodes, graph, C) /\ graph' = graph /\ Chosen(C, S, stop)
    BY <1>1, <1>3, DispatchIs
  <2>2. ASSUME NEW n \in NodesOf(graph) PROVE nodes'[n].attempts <= Allowance(n)
    <3>1. nodes[n].attempts \in Nat /\ nodes[n].attempts <= Allowance(n)
      BY <1>1 DEF TypeOK, Capped
    <3>2. CASE n \in C
      <4>1. nodes'[n].attempts = nodes[n].attempts + 1
        BY <2>1, <2>2, <3>2 DEF Sent
      <4>2. Claimable(graph, nodes, n, stop)
        BY <2>1, <3>2 DEF Chosen, IsBatch
      <4>3. CASE nodes[n].status = "pending"
        <5>1. nodes[n].attempts = 0
          BY <1>1, <4>3 DEF Counted
        <5>2. QED
          BY <1>2, <4>1, <5>1 DEF Allowance
      <4>4. CASE nodes[n].status = "failed"
        <5>1. graph.kind[n] = "required" /\ nodes[n].attempts <= graph.retryCap
          BY <4>2, <4>4 DEF Claimable
        <5>2. QED
          BY <1>2, <3>1, <4>1, <5>1 DEF Allowance
      <4>5. QED
        BY <4>2, <4>3, <4>4 DEF Claimable
    <3>3. CASE n \notin C
      BY <2>1, <2>2, <3>1, <3>3 DEF Sent
    <3>4. QED
      BY <3>2, <3>3
  <2>3. QED
    BY <2>1, <2>2 DEF Capped, Allowance
<1>4. CASE \E n \in NodesOf(graph) : Complete(n) \/ Fail(n) \/ Pause(n) \/ Resume(n)
  <2>1. PICK n \in NodesOf(graph), st \in NodeStatus : nodes' = [nodes EXCEPT ![n].status = st] /\ graph' = graph
    BY <1>1, <1>4, RecordIs
  <2>2. \A m \in NodesOf(graph) : nodes'[m].attempts = nodes[m].attempts
    BY <1>1, <2>1 DEF TypeOK
  <2>3. QED
    BY <2>1, <2>2 DEF Capped, Allowance
<1>5. CASE UNCHANGED vars
  BY <1>5 DEF vars, Capped, Allowance
<1>6. QED
  BY <1>3, <1>4, <1>5 DEF Next, Stop

(* A decision asks for no more positions than the batch has nodes, and that *)
(* is at most the global limit.                                             *)
LEMMA DecisionFits ==
  ASSUME TypeOK
  PROVE  Cardinality(Decision.positions) <= graph.global
<1>1. ASSUME NEW C, NEW S, NEW stop, Chosen(C, S, stop), S \in SUBSET Nat, IsFiniteSet(S)
      PROVE  Cardinality({NextPosition(nodes, n) : n \in C}) <= graph.global
  <2> DEFINE P == {NextPosition(nodes, n) : n \in C}
  <2>1. IsFiniteSet(C) /\ Cardinality(C) <= graph.global /\ graph.global \in Nat
    BY <1>1, BatchFits, Candidates, FS_Subset DEF Chosen, TypeOK, ValidDag
  <2>2. IsFiniteSet(P) /\ Cardinality(P) <= Cardinality(C)
    <3> DEFINE f == [n \in C |-> NextPosition(nodes, n)]
    <3>1. f \in Surjection(C, P)
      BY DEF Surjection
    <3> HIDE DEF f, P
    <3>2. QED
      BY <2>1, <3>1, FS_Surjection
  <2>3. Cardinality(C) \in Nat /\ Cardinality(P) \in Nat
    BY <2>1, <2>2, FS_CardinalityType
  <2> HIDE DEF P
  <2>4. Cardinality(P) <= graph.global
    BY <2>1, <2>2, <2>3
  <2>5. QED
    BY <2>4 DEF P
<1>2. PICK W : W = Collect(graph, nodes, Workers(graph), TRUE)
  OBVIOUS
<1>3. PICK F : F = Collect(graph, nodes, Finalizers(graph), FALSE)
  OBVIOUS
<1>4. Chosen(W, Workers(graph), TRUE) /\ Chosen(F, Finalizers(graph), FALSE)
  BY <1>2, <1>3, Candidates, CollectIs DEF Chosen, TypeOK
<1>5. PICK d : d = Decision
  OBVIOUS
<1>6. \/ d.positions = {}
      \/ d.positions = {NextPosition(nodes, n) : n \in W}
      \/ d.positions = {NextPosition(nodes, n) : n \in F}
  BY <1>2, <1>3, <1>5 DEF Decision, DagDecide, Dispatch, Terminal
<1>7. CASE d.positions = {}
  <2>1. Cardinality({}) = 0 /\ graph.global \in Nat
    BY FS_EmptySet, Candidates DEF TypeOK, ValidDag
  <2>2. QED
    BY <1>5, <1>7, <2>1
<1>8. CASE d.positions = {NextPosition(nodes, n) : n \in W}
  BY <1>1, <1>4, <1>5, <1>8, Candidates DEF TypeOK
<1>9. CASE d.positions = {NextPosition(nodes, n) : n \in F}
  BY <1>1, <1>4, <1>5, <1>9, Candidates DEF TypeOK
<1>10. QED
  BY <1>6, <1>7, <1>8, <1>9

(* A run dispatches at most the sum of what its nodes are allowed, and at   *)
(* least once for every node when each was started.                         *)
LEMMA DispatchesAre ==
  ASSUME TypeOK, Capped
  PROVE  /\ Dispatches <= MaxDispatches(graph)
         /\ (\A n \in NodesOf(graph) : n \in Started) => Dispatches >= MinDispatches(graph)
<1>1. PICK N : N = NodesOf(graph)
  OBVIOUS
<1>2. PICK R : R = {n \in NodesOf(graph) : graph.kind[n] = "required"}
  OBVIOUS
<1>3. IsFiniteSet(N) /\ N \cap R = R /\ graph.retryCap \in Nat
  BY <1>1, <1>2, Candidates DEF TypeOK, ValidDag
<1>4. PICK f : f = [n \in N |-> nodes[n].attempts]
  OBVIOUS
<1>5. PICK h : h = [n \in N |-> Allowance(n)]
  OBVIOUS
<1>6. PICK e : e = [n \in N |-> 1]
  OBVIOUS
<1>7. Dispatches = Sum(f, N)
  <2>1. DOMAIN [n \in NodesOf(graph) |-> nodes[n].attempts] = NodesOf(graph)
    OBVIOUS
  <2>2. QED
    BY <1>1, <1>4, <2>1 DEF Dispatches, SumFunction, Sum
<1>8. \A n \in N : f[n] \in Nat /\ h[n] \in Nat /\ f[n] <= h[n] /\ e[n] \in Nat
  BY <1>1, <1>3, <1>4, <1>5, <1>6 DEF TypeOK, Capped, Allowance
<1>9. Sum(f, N) <= Sum(h, N)
  BY <1>3, <1>8, SumGrows
<1>10. Sum(h, N) = Cardinality(N) * 1 + Cardinality(N \cap R) * graph.retryCap
  <2>1. Pays(h, N, R, 1, graph.retryCap)
    BY <1>1, <1>2, <1>5 DEF Allowance, Pays
  <2>2. 1 \in Nat
    OBVIOUS
  <2>3. QED
    BY <1>3, <2>1, <2>2, SumCounts
<1>11. Cardinality(N) \in Nat /\ Cardinality(N) * 1 = Cardinality(N)
  BY <1>3, FS_CardinalityType
<1>12. Dispatches <= MaxDispatches(graph)
  BY <1>1, <1>2, <1>3, <1>7, <1>9, <1>10, <1>11 DEF MaxDispatches
<1>13. ASSUME \A n \in NodesOf(graph) : n \in Started
       PROVE  Dispatches >= MinDispatches(graph)
  <2>1. \A n \in N : e[n] <= f[n]
    BY <1>1, <1>4, <1>6, <1>8, <1>13 DEF Started
  <2>2. Sum(e, N) <= Sum(f, N)
    BY <1>3, <1>8, <2>1, SumGrows
  <2>3. Sum(e, N) = Cardinality(N)
    <3>1. \A n \in N : e[n] = 1
      BY <1>6
    <3>2. QED
      BY <1>3, <3>1, SumOfOnes
  <2>4. Sum(f, N) \in Nat
    BY <1>3, <1>8, SumIsNat
  <2>5. QED
    BY <1>1, <1>7, <1>11, <2>2, <2>3, <2>4 DEF MinDispatches
<1>14. QED
  BY <1>12, <1>13

(* For every valid definition the limits it declares hold at every moment   *)
(* and the bounds its plan declares over the whole run: never more          *)
(* dispatches than max, never more at once than maxFanOut, and at least min *)
(* once it completed (describe().bounds).                                   *)
THEOREM DeclaredLimitsAlwaysHold == Spec => []DeclaredLimitsHold
<1>1. Init => Capped
  <2>1. ASSUME Init PROVE \A n \in NodesOf(graph) : nodes[n].attempts = 0 /\ 0 <= Allowance(n)
    <3>1. graph.retryCap \in Nat
      BY <2>1, GraphsAreValid DEF Init, ValidDag
    <3>2. QED
      BY <2>1, <3>1 DEF Init, DagInitialState, Allowance
  <2>2. QED
    BY <2>1 DEF Capped
<1>2. IInv /\ Capped /\ [Next]_vars => Capped'
  BY CappedKeeps
<1>3. IInv /\ Capped /\ TerminalIsHonest => BoundsHold
  <2> SUFFICES ASSUME IInv, Capped, TerminalIsHonest PROVE BoundsHold
    OBVIOUS
  <2>1. TypeOK
    BY DEF IInv
  <2>2. Decision.kind = "complete" => Dispatches >= MinDispatches(graph)
    BY <2>1, DispatchesAre DEF TerminalIsHonest
  <2>3. QED
    BY <2>1, <2>2, DispatchesAre, DecisionFits DEF BoundsHold, MaxFanOut
<1>4. ConcurrencyWithinLimits /\ BoundsHold => DeclaredLimitsHold
  BY DEF DeclaredLimitsHold
<1>5. QED
  BY <1>1, <1>2, <1>3, <1>4, InvariantHolds, TerminalAlwaysHonest, LimitsAlwaysHold, PTL DEF Spec
=============================================================================
