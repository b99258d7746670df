------------------------- MODULE ConvergenceProofs -------------------------
(***************************************************************************)
(* Proofs about ConvergenceRun, for every valid definition, whatever        *)
(* engines answer, gates and seats return, attempts fail with and producers *)
(* outside the run add.                                                     *)
(*                                                                          *)
(* The argument of IInv: a seat counts as valid only with the pass that its *)
(* engine last reported (PassesBacked); in review that pass is one on what  *)
(* is under review (PassesSeen), and nobody writes meanwhile                *)
(* (ReviewersAlone); whoever may have written is noted before anything it   *)
(* wrote can be reviewed (WritersNoted); and the body has something left to *)
(* do (BodyGoesOn).                                                         *)
(*                                                                          *)
(* The argument of the bounds: an attempt is a retry, of which a node has   *)
(* retryCap, or the first of a round, and every round is an iteration or a  *)
(* restart of the run. Budget says so of the node of each kind: it counts   *)
(* what a node has been asked and what it is sure to be asked again (Cost,  *)
(* SeatCost), and a step that begins a round raises the other side by one.  *)
(* A seat that a producer outside the run has asked again is paid by        *)
(* outside (SeatsPaid), so that what the seats cost together is a sum over  *)
(* them.                                                                    *)
(***************************************************************************)
EXTENDS ConvergenceRun, FiniteSetTheorems, TLAPS

-----------------------------------------------------------------------------
(* The shape of graph states.  What an engine identity, a piece of evidence *)
(* or a counter is does not matter here.                                    *)

(* A node has its three fields and a status the code knows.                 *)
IsNode(x) == x \in [status : NodeStatus, attempts : {x.attempts}, by : {x.by}]

(* A seat has its six fields and an outcome the code knows.                 *)
IsSeat(x) == x \in [outcome : Outcomes, verdict : {x.verdict}, by : {x.by},
                    evidence : {x.evidence}, findings : {x.findings}, stale : {x.stale}]

(* The state of a run of the graph g: a phase, and a node and a seat for    *)
(* each one of g. What the other fields hold is left open.                  *)
IsState(g, s) ==
  /\ s \in [phase : {"body", "review", "settled"}, iteration : {s.iteration},
            restarts : {s.restarts}, pauseReason : {s.pauseReason}, nodes : {s.nodes},
            seats : {s.seats}, providers : {s.providers}, families : {s.families},
            evidence : {s.evidence}, rounds : {s.rounds}]
  /\ s.nodes = [n \in NodesOf(g) |-> s.nodes[n]] /\ \A n \in NodesOf(g) : IsNode(s.nodes[n])
  /\ s.seats = [i \in SeatsOf(g) |-> s.seats[i]] /\ \A i \in SeatsOf(g) : IsSeat(s.seats[i])

(* The shapes of the variables that the steps below rely on.                *)
Typed ==
  /\ graph \in Graphs /\ IsState(graph, state)
  /\ report = [i \in SeatsOf(graph) |-> report[i]]

(* The node is at work, or paused in the middle of it.                      *)
IsOpen(s, n) == s.nodes[n].status \in {"in-flight", "paused"}

-----------------------------------------------------------------------------
(* The inductive invariant.                                                 *)

(* What counts as valid is what the seat last reported: a confident pass on *)
(* evidence it could see, by the engine that the receipt named.             *)
Backed(s, i) ==
  /\ report[i].verdict = "pass" /\ report[i].confident
  /\ s.seats[i].evidence = View(graph, i, report[i].evidence)
  /\ s.seats[i].evidence # NoEvidence
  /\ s.seats[i].by = report[i].by

(* What the seat saw is what is under review, as far as it answers for it.  *)
StillSeen(g, s, i) ==
  LET now == View(g, i, s.evidence)  seen == s.seats[i].evidence IN
  now # NoEvidence /\ seen.hashes = now.hashes /\ seen.proof = now.proof

(* A pass that counts is the one its reviewer last reported, with what it   *)
(* had seen, and from whom.                                                 *)
PassesBacked ==
  \A i \in SeatsOf(graph) : state.seats[i].outcome = "valid" => Backed(state, i)

(* In review a pass that counts was given on what is under review.          *)
PassesSeen ==
  state.phase = "review" =>
    \A i \in SeatsOf(graph) : state.seats[i].outcome = "valid" => StillSeen(graph, state, i)

(* Whoever may have written is among the providers and families that a      *)
(* reviewer must not be of, unless it did not say who it was.               *)
WritersNoted ==
  \A w \in wrote : /\ w.provider \in state.providers \cup {NoName}
                   /\ w.family \in state.families \cup {NoName}

(* While the body goes round it has something left to do.                   *)
BodyGoesOn == state.phase = "body" => state.nodes["evaluator"].status # "passed"

(* While a seat is at work the run is in review and no other node is open.  *)
ReviewersAlone ==
  \A i \in SeatsOf(graph) : IsOpen(state, i) =>
    /\ \A n \in LoopNodes : ~IsOpen(state, n)
    /\ state.phase = "review"

(* The inductive invariant.                                                 *)
IInv ==
  /\ Typed
  /\ PassesBacked /\ PassesSeen /\ WritersNoted
  /\ BodyGoesOn /\ ReviewersAlone

-----------------------------------------------------------------------------
(* The invariant gives the properties.                                      *)

(* The reviewers' nodes are apart from those of the loop.                   *)
LEMMA SeatsAreNoLoopNodes ==
  ASSUME NEW g \in Graphs
  PROVE  SeatsOf(g) \cap LoopNodes = {}
  BY GraphsAreValid DEF ValidConvergence

(* What the invariant keeps of a pass is what the property calls a vouch.   *)
LEMMA PassesVouch ==
  ASSUME IInv, state.phase = "review", NEW i \in SeatsOf(graph), state.seats[i].outcome = "valid"
  PROVE  Vouches(i)
  BY DEF IInv, PassesBacked, PassesSeen, Backed, StillSeen, Vouches

(* An accepted seat is of no provider and no family that may have written.  *)
LEMMA AcceptedAreIndependent ==
  ASSUME IInv, NEW i \in Accepted(graph, state)
  PROVE  Independent(i) /\ state.seats[i].by = report[i].by
<1>1. i \in SeatsOf(graph) /\ state.seats[i].outcome = "valid"
  BY DEF Accepted
<1>2. state.seats[i].by = report[i].by
  BY <1>1 DEF IInv, PassesBacked, Backed
<1>3. graph.targets[i] # {} =>
        /\ report[i].by.provider \notin state.providers \cup {NoName}
        /\ report[i].by.family \notin state.families \cup {NoName}
  BY <1>2 DEF Accepted
<1>4. \A w \in wrote : /\ w.provider \in state.providers \cup {NoName}
                       /\ w.family \in state.families \cup {NoName}
  BY DEF IInv, WritersNoted
<1>5. Independent(i)
  BY <1>3, <1>4 DEF Independent
<1>6. QED
  BY <1>2, <1>5

(* The run converges only on a quorum that holds, in review.                *)
LEMMA CompletesOnQuorum ==
  ASSUME Typed, Decision.kind = "complete"
  PROVE  state.phase = "review" /\ QuorumHolds(graph, state)
<1>1. state.phase \in {"body", "review", "settled"}
  BY DEF Typed, IsState
<1>2. /\ \A ns : Dispatch(state, ns).kind = "dispatch"
      /\ \A kind, code : Finish(kind, code).kind = kind
  BY DEF Dispatch, Finish
<1>3. DecideBody(state).kind = "dispatch"
  BY <1>2 DEF DecideBody
<1>4. Decision = DecideReview(graph, state) /\ state.phase = "review"
  BY <1>1, <1>2, <1>3 DEF Decision, ConvergenceDecide
<1>5. Decision = Conclude(graph, state)
  BY <1>2, <1>4 DEF DecideReview
<1>6. QED
  BY <1>2, <1>4, <1>5 DEF Conclude

(* A run that completes has a quorum, and each seat of it is backed and     *)
(* independent.                                                             *)
LEMMA InvImpliesAcceptance == IInv => AcceptanceIsSound
<1> SUFFICES ASSUME IInv, Decision.kind = "complete"
             PROVE  \E Q \in SUBSET SeatsOf(graph) :
                      /\ Cardinality(Q) >= graph.quorum
                      /\ \A i \in Q : Vouches(i) /\ Independent(i)
                      /\ graph.requireDiversity =>
                           \A i, j \in Q : i # j => /\ report[i].by.provider # report[j].by.provider
                                                   /\ report[i].by.family # report[j].by.family
  BY DEF AcceptanceIsSound
<1>1. state.phase = "review" /\ QuorumHolds(graph, state)
  BY CompletesOnQuorum DEF IInv
<1>2. Accepted(graph, state) \subseteq SeatsOf(graph)
  BY DEF Accepted
<1>3. ASSUME NEW i \in Accepted(graph, state)
      PROVE  Vouches(i) /\ Independent(i) /\ state.seats[i].by = report[i].by
  BY <1>1, PassesVouch, AcceptedAreIndependent DEF Accepted
<1>4. CASE graph.requireDiversity
  <2>1. PICK Q \in SUBSET Accepted(graph, state) :
          /\ Cardinality(Q) >= graph.quorum
          /\ \A i, j \in Q : i # j => /\ state.seats[i].by.provider # state.seats[j].by.provider
                                     /\ state.seats[i].by.family # state.seats[j].by.family
    BY <1>1, <1>4 DEF QuorumHolds, Diverse
  <2>2. \A i \in Q : Vouches(i) /\ Independent(i) /\ state.seats[i].by = report[i].by
    BY <1>3
  <2>3. \A i, j \in Q : i # j => /\ report[i].by.provider # report[j].by.provider
                                /\ report[i].by.family # report[j].by.family
    BY <2>1, <2>2
  <2>4. Q \in SUBSET SeatsOf(graph)
    BY <1>2
  <2>5. QED
    BY <2>1, <2>2, <2>3, <2>4
<1>5. CASE ~graph.requireDiversity
  <2>1. Cardinality(Accepted(graph, state)) >= graph.quorum
    BY <1>1 DEF QuorumHolds
  <2>2. QED
    BY <1>2, <1>3, <1>5, <2>1
<1>6. QED
  BY <1>4, <1>5

(* A pass that counts in review is backed, and its evidence is the one      *)
(* under review.                                                            *)
LEMMA InvImpliesCurrent == IInv => PassesStayCurrent
  BY PassesVouch DEF PassesStayCurrent

(* A run that goes on has somebody to ask: the body has a node left, and a  *)
(* review that is not decided a seat.                                       *)
LEMMA InvImpliesAsking == IInv => NeverSilent
<1> SUFFICES ASSUME IInv, InStatus(state, "in-flight") = {}
             PROVE  Decision # Dispatch(state, {})
  BY DEF NeverSilent
<1>1. /\ Dispatch(state, {}).kind = "dispatch" /\ Dispatch(state, {}).positions = {}
      /\ \A kind, code : Finish(kind, code).kind = kind
  BY DEF Dispatch, Finish
<1>2. ASSUME NEW ns, ns # {}
      PROVE  Dispatch(state, ns) # Dispatch(state, {})
  <2>1. Dispatch(state, ns).positions # {}
    BY <1>2 DEF Dispatch
  <2>2. QED
    BY <1>1, <2>1
<1>3. /\ state.phase \in {"body", "review", "settled"}
      /\ {"generator", "evaluator"} \subseteq DOMAIN state.nodes
      /\ \A n \in {"generator", "evaluator"} : state.nodes[n].status \in NodeStatus
  BY DEF IInv, Typed, IsState, IsNode, NodesOf, LoopNodes, Writers
<1>4. ASSUME state.phase = "body", InStatus(state, "paused") = {}
      PROVE  DecideBody(state) # Dispatch(state, {})
  <2>1. state.nodes["evaluator"].status \in {"pending", "failed"}
    BY <1>3, <1>4 DEF IInv, BodyGoesOn, InStatus, NodeStatus
  <2>2. QED
    BY <1>2, <2>1 DEF DecideBody, Ready
<1>5. Conclude(graph, state) # Dispatch(state, {})
  BY <1>1, <1>2 DEF Conclude
<1>6. DecideReview(graph, state) # Dispatch(state, {})
  BY <1>1, <1>2, <1>5 DEF DecideReview
<1>7. QED
  BY <1>1, <1>3, <1>4, <1>6 DEF Decision, ConvergenceDecide

(* While a reviewer works nobody can change what it looks at.               *)
LEMMA InvImpliesStandStill == IInv => ReviewsStandStill
<1> SUFFICES ASSUME IInv PROVE ReviewsStandStill
  OBVIOUS
<1>1. DOMAIN state.nodes = SeatsOf(graph) \cup LoopNodes
  BY DEF IInv, Typed, IsState, NodesOf
<1>2. QED
  BY <1>1 DEF IInv, ReviewersAlone, ReviewsStandStill, InStatus, IsOpen

-----------------------------------------------------------------------------
(* What the operators of the graph do to a state.                           *)

(* Nothing was counted in between.                                          *)
SameCounts(g, s, t) ==
  /\ t.iteration = s.iteration /\ t.restarts = s.restarts
  /\ \A n \in NodesOf(g) : t.nodes[n].attempts = s.nodes[n].attempts

(* Two states that differ at most in node n but for its attempts, its seat, *)
(* the reason to pause and the rounds of findings.                          *)
SameBut(g, s, t, n) ==
  /\ IsState(g, t) /\ SameCounts(g, s, t)
  /\ t.phase = s.phase /\ t.evidence = s.evidence
  /\ \A m \in NodesOf(g) : m # n => t.nodes[m] = s.nodes[m]
  /\ \A i \in SeatsOf(g) : i # n => t.seats[i] = s.seats[i]

(* Nobody new is noted as a writer.                                         *)
SameWriters(s, t) == t.providers = s.providers /\ t.families = s.families

(* What setting a status leaves alone.                                      *)
LEMMA StatusSet ==
  ASSUME NEW g, NEW s, IsState(g, s), NEW n \in NodesOf(g), NEW status \in NodeStatus
  PROVE  LET t == SetStatus(s, n, status) IN
         /\ SameBut(g, s, t, n) /\ SameWriters(s, t) /\ t.seats = s.seats
         /\ t.nodes[n].status = status
<1> DEFINE t == SetStatus(s, n, status)
<1>1. /\ t.nodes = [s.nodes EXCEPT ![n].status = status] /\ t.seats = s.seats
      /\ t.phase = s.phase /\ t.evidence = s.evidence /\ SameWriters(s, t)
      /\ t.iteration = s.iteration /\ t.restarts = s.restarts
      /\ t \in [phase : {"body", "review", "settled"}, iteration : {t.iteration},
            restarts : {t.restarts}, pauseReason : {t.pauseReason}, nodes : {t.nodes},
            seats : {t.seats}, providers : {t.providers}, families : {t.families},
            evidence : {t.evidence}, rounds : {t.rounds}]
  BY DEF SetStatus, IsState, SameWriters
<1>2. /\ \A m \in NodesOf(g) : m # n => t.nodes[m] = s.nodes[m]
      /\ t.nodes[n] = [s.nodes[n] EXCEPT !.status = status]
      /\ t.nodes = [m \in NodesOf(g) |-> t.nodes[m]]
  BY <1>1 DEF IsState
<1>3. IsNode(t.nodes[n]) /\ t.nodes[n].status = status /\ t.nodes[n].attempts = s.nodes[n].attempts
  BY <1>2 DEF IsState, IsNode
<1>4. IsState(g, t)
  BY <1>1, <1>2, <1>3 DEF IsState
<1>5. SameCounts(g, s, t)
  BY <1>1, <1>2, <1>3 DEF SameCounts
<1>6. QED
  BY <1>1, <1>2, <1>3, <1>4, <1>5 DEF SameBut

(* What settling a node leaves alone.                                       *)
LEMMA Settled ==
  ASSUME NEW g, NEW s, IsState(g, s), NEW n \in NodesOf(g), NEW status \in NodeStatus
  PROVE  LET t == Settle(s, n, status) IN
         /\ SameBut(g, s, t, n) /\ SameWriters(s, t) /\ t.seats = s.seats
         /\ t.nodes[n].status = status
<1> DEFINE t == Settle(s, n, status)
           x == [status |-> status, attempts |-> s.nodes[n].attempts, by |-> Unknown]
<1>1. /\ t.nodes = [s.nodes EXCEPT ![n] = x] /\ t.seats = s.seats
      /\ t.phase = s.phase /\ t.evidence = s.evidence /\ SameWriters(s, t)
      /\ t.iteration = s.iteration /\ t.restarts = s.restarts
      /\ t \in [phase : {"body", "review", "settled"}, iteration : {t.iteration},
            restarts : {t.restarts}, pauseReason : {t.pauseReason}, nodes : {t.nodes},
            seats : {t.seats}, providers : {t.providers}, families : {t.families},
            evidence : {t.evidence}, rounds : {t.rounds}]
  BY DEF Settle, IsState, SameWriters
<1>2. /\ \A m \in NodesOf(g) : m # n => t.nodes[m] = s.nodes[m]
      /\ t.nodes[n] = x
      /\ t.nodes = [m \in NodesOf(g) |-> t.nodes[m]]
  BY <1>1 DEF IsState
<1>3. IsNode(x) /\ x.attempts = s.nodes[n].attempts
  BY DEF IsNode
<1>4. IsState(g, t)
  BY <1>1, <1>2, <1>3 DEF IsState
<1>5. SameCounts(g, s, t)
  BY <1>1, <1>2, <1>3 DEF SameCounts
<1>6. QED
  BY <1>1, <1>2, <1>4, <1>5 DEF SameBut

(* A change of some fields that are not looked into, and of one seat.       *)
LEMMA SeatSet ==
  ASSUME NEW g, NEW s, IsState(g, s), NEW i \in SeatsOf(g), NEW x, IsSeat(x)
  PROVE  LET t == [s EXCEPT !.seats[i] = x] IN
         SameBut(g, s, t, i) /\ SameWriters(s, t) /\ t.nodes = s.nodes /\ t.seats[i] = x
<1> DEFINE t == [s EXCEPT !.seats[i] = x]
<1>1. /\ t.seats = [s.seats EXCEPT ![i] = x] /\ t.nodes = s.nodes
      /\ t.phase = s.phase /\ t.evidence = s.evidence /\ SameWriters(s, t)
      /\ t.iteration = s.iteration /\ t.restarts = s.restarts
      /\ t \in [phase : {"body", "review", "settled"}, iteration : {t.iteration},
            restarts : {t.restarts}, pauseReason : {t.pauseReason}, nodes : {t.nodes},
            seats : {t.seats}, providers : {t.providers}, families : {t.families},
            evidence : {t.evidence}, rounds : {t.rounds}]
  BY DEF IsState, SameWriters
<1>2. /\ \A j \in SeatsOf(g) : j # i => t.seats[j] = s.seats[j]
      /\ t.seats[i] = x /\ t.seats = [j \in SeatsOf(g) |-> t.seats[j]]
  BY <1>1 DEF IsState
<1>3. IsState(g, t)
  BY <1>1, <1>2 DEF IsState
<1>4. QED
  BY <1>1, <1>2, <1>3 DEF SameBut, SameCounts

(* What noting a reason to pause leaves alone.                              *)
LEMMA PauseSet ==
  ASSUME NEW g, NEW s, IsState(g, s), NEW reason
  PROVE  LET t == [s EXCEPT !.pauseReason = reason] IN
         /\ IsState(g, t) /\ SameWriters(s, t) /\ SameCounts(g, s, t)
         /\ t.nodes = s.nodes /\ t.seats = s.seats
         /\ t.phase = s.phase /\ t.evidence = s.evidence
  BY DEF IsState, SameWriters, SameCounts

(* What an event that neither completes an attempt nor begins one does.     *)
Keeps(s, t) ==
  /\ IsState(graph, t)
  /\ t.phase = s.phase /\ t.evidence = s.evidence
  /\ s.providers \subseteq t.providers /\ s.families \subseteq t.families
  /\ \A i \in SeatsOf(graph) : t.seats[i].outcome = "valid" => t.seats[i] = s.seats[i]
  /\ \A n \in NodesOf(graph) : IsOpen(t, n) => IsOpen(s, n)
  /\ t.nodes["evaluator"].status = "passed" => s.nodes["evaluator"].status = "passed"

(* A step that changes one node, opens none and gives no pass keeps what    *)
(* Keeps asks for.                                                          *)
LEMMA OneNodeKeeps ==
  ASSUME NEW n, NEW t, SameBut(graph, state, t, n),
         state.providers \subseteq t.providers, state.families \subseteq t.families,
         n \in NodesOf(graph) /\ IsOpen(t, n) => IsOpen(state, n),
         n = "evaluator" => t.nodes[n].status # "passed",
         n \in SeatsOf(graph) /\ t.seats[n].outcome = "valid" => t.seats[n] = state.seats[n]
  PROVE  Keeps(state, t)
<1>1. "evaluator" \in NodesOf(graph)
  BY DEF NodesOf, LoopNodes
<1>2. \A m \in NodesOf(graph) : IsOpen(t, m) => IsOpen(state, m)
  BY DEF SameBut, IsOpen
<1>3. \A i \in SeatsOf(graph) : t.seats[i].outcome = "valid" => t.seats[i] = state.seats[i]
  BY DEF SameBut
<1>4. t.nodes["evaluator"].status = "passed" => state.nodes["evaluator"].status = "passed"
  BY <1>1 DEF SameBut
<1>5. QED
  BY <1>2, <1>3, <1>4 DEF SameBut, Keeps

(* A step that keeps that much, leaves the reports of the passes alone and  *)
(* notes whoever may have written keeps the invariant.                      *)
LEMMA KeptInv ==
  ASSUME IInv, graph' = graph, Keeps(state, state'),
         report' = [i \in SeatsOf(graph) |-> report'[i]],
         \A i \in SeatsOf(graph) : state'.seats[i].outcome = "valid" => report'[i] = report[i],
         \A w \in wrote' \ wrote : /\ w.provider \in state'.providers \cup {NoName}
                                   /\ w.family \in state'.families \cup {NoName}
  PROVE  IInv'
<1> USE DEF IInv
<1>1. Typed'
  BY DEF Typed, Keeps
<1>2. PassesBacked'
  BY DEF PassesBacked, Backed, Keeps
<1>3. PassesSeen'
  BY DEF PassesSeen, StillSeen, Keeps
<1>4. WritersNoted'
  BY DEF WritersNoted, Keeps
<1>5. BodyGoesOn'
  BY DEF BodyGoesOn, Keeps
<1>6. ReviewersAlone'
  <2>1. SeatsOf(graph) \cup LoopNodes = NodesOf(graph)
    BY DEF NodesOf
  <2>2. \A n \in NodesOf(graph) : IsOpen(state', n) => IsOpen(state, n)
    BY DEF Keeps
  <2>3. state'.phase = state.phase
    BY DEF Keeps
  <2>4. QED
    BY <2>1, <2>2, <2>3 DEF ReviewersAlone, IsOpen
<1>7. QED
  BY <1>1, <1>2, <1>3, <1>4, <1>5, <1>6

-----------------------------------------------------------------------------
(* The steps that neither complete an attempt nor begin one.                *)

(* A run begins with no pass and nothing open.                              *)
LEMMA InitInv == Init => IInv
<1> SUFFICES ASSUME Init PROVE IInv
  OBVIOUS
<1> USE DEF Init
<1>1. IsState(graph, state)
  BY DEF ConvergenceInitialState, IsState, IsNode, IsSeat, NodeStatus, Outcomes, NoVerdict
<1>2. Typed
  BY <1>1 DEF Typed
<1>3. /\ \A i \in SeatsOf(graph) : state.seats[i].outcome = "none"
      /\ \A n \in NodesOf(graph) : state.nodes[n].status = "pending"
  BY DEF ConvergenceInitialState, NoVerdict
<1>4. PassesBacked /\ PassesSeen
  BY <1>3 DEF PassesBacked, PassesSeen
<1>5. WritersNoted
  BY DEF WritersNoted
<1>6. BodyGoesOn /\ ReviewersAlone
  BY <1>3 DEF BodyGoesOn, ReviewersAlone, IsOpen, NodesOf, LoopNodes
<1>7. QED
  BY <1>2, <1>4, <1>5, <1>6 DEF IInv

(* The receipt of a call that is under way.                                 *)
LEMMA ReceiptKeeps ==
  ASSUME Typed, NEW n \in NodesOf(graph), At(n, "in-flight"), NEW id
  PROVE  LET t == RecordEngine(graph, state, n, id) IN
         /\ Keeps(state, t) /\ SameCounts(graph, state, t) /\ t.seats = state.seats
         /\ \A m \in NodesOf(graph) : t.nodes[m].status = state.nodes[m].status
         /\ n \in Writers /\ graph.targets[n] # {} =>
              /\ t.providers = state.providers \cup
                   (IF id.provider = NoName THEN {a.provider : a \in graph.targets[n]} ELSE {id.provider})
              /\ t.families = state.families \cup
                   (IF id.family = NoName THEN {a.family : a \in graph.targets[n]} ELSE {id.family})
<1> DEFINE t == RecordEngine(graph, state, n, id)
           noted == [state EXCEPT !.nodes[n].by = id]
           named(field) == IF id[field] = NoName THEN {a[field] : a \in graph.targets[n]} ELSE {id[field]}
<1>0. \/ t = state
      \/ t = noted
      \/ t = [noted EXCEPT !.providers = @ \cup named("provider"), !.families = @ \cup named("family")]
  BY DEF RecordEngine
<1> HIDE DEF t, named
<1>1. /\ t.nodes = state.nodes \/ t.nodes = [state.nodes EXCEPT ![n].by = id]
      /\ t.seats = state.seats /\ t.phase = state.phase /\ t.evidence = state.evidence
      /\ t.iteration = state.iteration /\ t.restarts = state.restarts
      /\ state.providers \subseteq t.providers /\ state.families \subseteq t.families
      /\ t \in [phase : {"body", "review", "settled"}, iteration : {t.iteration},
            restarts : {t.restarts}, pauseReason : {t.pauseReason}, nodes : {t.nodes},
            seats : {t.seats}, providers : {t.providers}, families : {t.families},
            evidence : {t.evidence}, rounds : {t.rounds}]
  <2>1. CASE t = state
    BY <2>1 DEF Typed, IsState
  <2>2. CASE t = noted
    BY <2>2 DEF Typed, IsState
  <2>3. CASE t = [noted EXCEPT !.providers = @ \cup named("provider"), !.families = @ \cup named("family")]
    <3>1. PICK p : p = named("provider")
      OBVIOUS
    <3>2. PICK f : f = named("family")
      OBVIOUS
    <3>3. t = [noted EXCEPT !.providers = state.providers \cup p, !.families = state.families \cup f]
      BY <2>3, <3>1, <3>2 DEF Typed, IsState
    <3>4. t.providers = state.providers \cup p /\ t.families = state.families \cup f
      BY <3>3 DEF Typed, IsState
    <3>5. QED
      BY <3>3, <3>4 DEF Typed, IsState
  <2>4. QED
    BY <1>0, <2>1, <2>2, <2>3
<1>2. /\ \A m \in NodesOf(graph) : m # n => t.nodes[m] = state.nodes[m]
      /\ t.nodes[n] = state.nodes[n] \/ t.nodes[n] = [state.nodes[n] EXCEPT !.by = id]
      /\ t.nodes = [m \in NodesOf(graph) |-> t.nodes[m]]
  BY <1>1 DEF Typed, IsState
<1>3. /\ IsNode(t.nodes[n]) /\ t.nodes[n].status = state.nodes[n].status
      /\ t.nodes[n].attempts = state.nodes[n].attempts
  BY <1>2 DEF Typed, IsState, IsNode
<1>4. IsState(graph, t)
  BY <1>1, <1>2, <1>3 DEF Typed, IsState
<1>5. \A m \in NodesOf(graph) : t.nodes[m].status = state.nodes[m].status
  BY <1>2, <1>3
<1>6. Keeps(state, t)
  BY <1>1, <1>4, <1>5 DEF Keeps, IsOpen, NodesOf, LoopNodes
<1>7. ASSUME n \in Writers, graph.targets[n] # {}
      PROVE  /\ t.providers = state.providers \cup
                   (IF id.provider = NoName THEN {a.provider : a \in graph.targets[n]} ELSE {id.provider})
             /\ t.families = state.families \cup
                   (IF id.family = NoName THEN {a.family : a \in graph.targets[n]} ELSE {id.family})
  <2>1. t = [noted EXCEPT !.providers = @ \cup named("provider"), !.families = @ \cup named("family")]
    BY <1>7 DEF t, named, RecordEngine, At
  <2>2. /\ t.providers = state.providers \cup named("provider")
        /\ t.families = state.families \cup named("family")
    BY <2>1 DEF Typed, IsState
  <2>3. QED
    BY <2>2 DEF named
<1>8. SameCounts(graph, state, t)
  BY <1>1, <1>2, <1>3 DEF SameCounts
<1>9. QED
  BY <1>1, <1>5, <1>6, <1>7, <1>8 DEF t

(* The receipt of an engine notes the writer before anything it wrote can   *)
(* be reviewed.                                                             *)
LEMMA ReceiptInv ==
  ASSUME IInv, NEW n \in NodesOf(graph), Receipt(n)
  PROVE  IInv'
<1>1. PICK id \in Answers(n) :
        /\ Record(Event("engine-attempt-recorded", Current(n), id))
        /\ wrote' = CASE n \notin Writers -> wrote
                      [] n \in Writers /\ id = Unknown -> wrote \cup graph.targets[n]
                      [] OTHER -> wrote \cup {id}
  BY DEF Receipt
<1>2. At(n, "in-flight") /\ graph.targets[n] # {} /\ UNCHANGED <<graph, report>>
  BY <1>1 DEF Receipt, Record
<1>3. state' = RecordEngine(graph, state, n, id)
  BY <1>1, <1>2 DEF Record, Event, Current, ConvergenceReduce, IsCurrent, At
<1>4. Keeps(state, state')
  BY <1>2, <1>3, ReceiptKeeps DEF IInv
<1>5. ASSUME NEW w \in wrote' \ wrote
      PROVE  /\ w.provider \in state'.providers \cup {NoName}
             /\ w.family \in state'.families \cup {NoName}
  <2>1. n \in Writers
    BY <1>1, <1>5
  <2>2. /\ state'.providers = state.providers \cup
             (IF id.provider = NoName THEN {a.provider : a \in graph.targets[n]} ELSE {id.provider})
        /\ state'.families = state.families \cup
             (IF id.family = NoName THEN {a.family : a \in graph.targets[n]} ELSE {id.family})
    BY <1>2, <1>3, <2>1, ReceiptKeeps DEF IInv
  <2>3. CASE id = Unknown
    <3>1. w \in graph.targets[n] /\ id.provider = NoName /\ id.family = NoName
      BY <1>1, <1>5, <2>1, <2>3 DEF Unknown
    <3>2. QED
      BY <2>2, <3>1
  <2>4. CASE id # Unknown
    <3>1. w = id
      BY <1>1, <1>5, <2>1, <2>4
    <3>2. QED
      BY <2>2, <3>1
  <2>5. QED
    BY <2>3, <2>4
<1>6. report' = [i \in SeatsOf(graph) |-> report'[i]]
  BY <1>2 DEF IInv, Typed
<1>7. QED
  BY <1>2, <1>4, <1>5, <1>6, KeptInv

(* An attempt fails.                                                        *)
LEMMA FailKeeps ==
  ASSUME Typed, NEW n \in NodesOf(graph), NEW code
  PROVE  LET t == FailNode(graph, state, n, code) IN
         /\ Keeps(state, t) /\ SameBut(graph, state, t, n) /\ t.nodes[n].status = "failed"
         /\ \A i \in SeatsOf(graph) :
              /\ t.seats[i].stale = state.seats[i].stale
              /\ t.seats[i] = state.seats[i] \/ (i = n /\ t.seats[i].outcome # "valid")
<1> DEFINE t == FailNode(graph, state, n, code)
<1>1. PICK f : f = Settle(state, n, "failed")
  OBVIOUS
<1>2. /\ SameBut(graph, state, f, n) /\ SameWriters(state, f) /\ f.seats = state.seats
      /\ f.nodes[n].status = "failed"
  BY <1>1, Settled DEF Typed, NodeStatus
<1> HIDE DEF t
<1>3. /\ t.nodes = f.nodes /\ t.phase = f.phase /\ t.evidence = f.evidence /\ SameWriters(f, t)
      /\ t.iteration = f.iteration /\ t.restarts = f.restarts
      /\ t.seats = f.seats \/ (n \in SeatsOf(graph) /\ \E x : t.seats = [f.seats EXCEPT ![n] = x]
                               /\ IsSeat(x) /\ x.outcome # "valid" /\ x.stale = f.seats[n].stale)
      /\ t \in [phase : {"body", "review", "settled"}, iteration : {t.iteration},
            restarts : {t.restarts}, pauseReason : {t.pauseReason}, nodes : {t.nodes},
            seats : {t.seats}, providers : {t.providers}, families : {t.families},
            evidence : {t.evidence}, rounds : {t.rounds}]
  <2>1. /\ f \in [phase : {"body", "review", "settled"}, iteration : {f.iteration},
            restarts : {f.restarts}, pauseReason : {f.pauseReason}, nodes : {f.nodes},
            seats : {f.seats}, providers : {f.providers}, families : {f.families},
            evidence : {f.evidence}, rounds : {f.rounds}]
        /\ f.seats = [i \in SeatsOf(graph) |-> f.seats[i]]
        /\ n \in SeatsOf(graph) => IsSeat(f.seats[n])
    BY <1>2 DEF SameBut, IsState
  <2>2. /\ t.nodes = f.nodes /\ t.phase = f.phase /\ t.evidence = f.evidence /\ SameWriters(f, t)
        /\ t.iteration = f.iteration /\ t.restarts = f.restarts
        /\ t \in [phase : {"body", "review", "settled"}, iteration : {t.iteration},
              restarts : {t.restarts}, pauseReason : {t.pauseReason}, nodes : {t.nodes},
              seats : {t.seats}, providers : {t.providers}, families : {t.families},
              evidence : {t.evidence}, rounds : {t.rounds}]
    BY <1>1, <2>1 DEF t, FailNode, SameWriters
  <2>3. CASE code = "ABORTED" \/ n \notin SeatsOf(graph)
    <3>1. t.seats = f.seats
      BY <1>1, <2>1, <2>3 DEF t, FailNode
    <3>2. QED
      BY <2>2, <3>1
  <2>4. CASE code # "ABORTED" /\ n \in SeatsOf(graph) /\ code = "ENGINE_UNAVAILABLE" /\ n \in graph.skippable
    <3>1. PICK x : x = [f.seats[n] EXCEPT !.outcome = "skipped", !.verdict = "none", !.findings = {}]
      OBVIOUS
    <3>2. IsSeat(x) /\ x.outcome # "valid" /\ x.stale = f.seats[n].stale
      BY <2>1, <2>4, <3>1 DEF IsSeat, Outcomes
    <3>3. t.seats = [f.seats EXCEPT ![n] = x]
      BY <1>1, <2>1, <2>4, <3>1 DEF t, FailNode
    <3>4. QED
      BY <2>2, <2>4, <3>2, <3>3
  <2>5. CASE code # "ABORTED" /\ n \in SeatsOf(graph) /\ ~(code = "ENGINE_UNAVAILABLE" /\ n \in graph.skippable)
    <3>1. PICK x : x = [f.seats[n] EXCEPT !.outcome = "non-verdict"]
      OBVIOUS
    <3>2. IsSeat(x) /\ x.outcome # "valid" /\ x.stale = f.seats[n].stale
      BY <2>1, <2>5, <3>1 DEF IsSeat, Outcomes
    <3>3. t.seats = [f.seats EXCEPT ![n] = x]
      BY <1>1, <2>1, <2>5, <3>1 DEF t, FailNode
    <3>4. QED
      BY <2>2, <2>5, <3>2, <3>3
  <2>6. QED
    BY <2>3, <2>4, <2>5
<1>4. /\ IsState(graph, t)
      /\ \A i \in SeatsOf(graph) : t.seats[i].outcome = "valid" => t.seats[i] = f.seats[i]
      /\ \A i \in SeatsOf(graph) :
           /\ t.seats[i].stale = f.seats[i].stale
           /\ t.seats[i] = f.seats[i] \/ (i = n /\ t.seats[i].outcome # "valid")
  <2>1. CASE t.seats = f.seats
    BY <1>2, <1>3, <2>1 DEF SameBut, IsState
  <2>2. CASE n \in SeatsOf(graph) /\ \E x : t.seats = [f.seats EXCEPT ![n] = x]
                               /\ IsSeat(x) /\ x.outcome # "valid" /\ x.stale = f.seats[n].stale
    BY <1>2, <1>3, <2>2 DEF SameBut, IsState
  <2>3. QED
    BY <1>3, <2>1, <2>2
<1>5. \A m \in NodesOf(graph) : m # n => t.nodes[m] = state.nodes[m]
  BY <1>2, <1>3 DEF SameBut
<1>6. Keeps(state, t) /\ SameBut(graph, state, t, n)
  <2>1. SameBut(graph, state, t, n)
    <3>1. \A i \in SeatsOf(graph) : i # n => t.seats[i] = f.seats[i]
      BY <1>2, <1>3 DEF SameBut, IsState
    <3>2. SameCounts(graph, state, t)
      BY <1>2, <1>3 DEF SameBut, SameCounts
    <3>3. QED
      BY <1>2, <1>3, <1>4, <1>5, <3>1, <3>2 DEF SameBut
  <2>2. ~IsOpen(t, n) /\ t.nodes[n].status # "passed"
    BY <1>2, <1>3 DEF IsOpen
  <2>3. QED
    BY <1>2, <1>3, <1>4, <2>1, <2>2, OneNodeKeeps DEF SameWriters
<1>7. QED
  BY <1>2, <1>3, <1>4, <1>6 DEF t

(* A failure keeps the invariant, whatever its code asks for.               *)
LEMMA FailInv ==
  ASSUME IInv, NEW n \in NodesOf(graph), Fail(n)
  PROVE  IInv'
<1>1. PICK code \in Failures : Record(Event("node-failed", Current(n), code))
  BY DEF Fail
<1>2. At(n, "in-flight") /\ UNCHANGED <<graph, report, wrote>>
  BY <1>1 DEF Fail, Record
<1>3. state' = FailNode(graph, state, n, code)
  BY <1>1, <1>2 DEF Record, Event, Current, ConvergenceReduce, IsCurrent, At
<1>4. Keeps(state, state')
  BY <1>3, FailKeeps DEF IInv
<1>5. report' = [i \in SeatsOf(graph) |-> report'[i]] /\ wrote' \ wrote = {}
  BY <1>2 DEF IInv, Typed
<1>6. QED
  BY <1>2, <1>4, <1>5, KeptInv

(* An attempt waits for an answer, or goes on.                              *)
LEMMA WaitKeeps ==
  ASSUME Typed, NEW n \in NodesOf(graph), IsOpen(state, n), NEW status \in {"in-flight", "paused"}
  PROVE  Keeps(state, SetStatus(state, n, status))
<1>1. PICK t : t = SetStatus(state, n, status)
  OBVIOUS
<1>2. /\ SameBut(graph, state, t, n) /\ SameWriters(state, t) /\ t.seats = state.seats
      /\ t.nodes[n].status = status
  BY <1>1, StatusSet DEF Typed, NodeStatus
<1>3. Keeps(state, t)
  BY <1>2, OneNodeKeeps DEF SameWriters, IsOpen
<1>4. QED
  BY <1>1, <1>3

(* A pause and its resume keep the invariant.                               *)
LEMMA WaitInv ==
  ASSUME IInv, NEW n \in NodesOf(graph), Pause(n) \/ Resume(n)
  PROVE  IInv'
<1>1. /\ UNCHANGED <<graph, report, wrote>>
      /\ \/ At(n, "in-flight") /\ state' = SetStatus(state, n, "paused")
         \/ At(n, "paused") /\ state' = SetStatus(state, n, "in-flight")
  BY DEF Pause, Resume, Record, Event, Current, ConvergenceReduce, IsCurrent, At
<1>2. Keeps(state, state')
  BY <1>1, WaitKeeps DEF IInv, IsOpen, At
<1>3. report' = [i \in SeatsOf(graph) |-> report'[i]] /\ wrote' \ wrote = {}
  BY <1>1 DEF IInv, Typed
<1>4. QED
  BY <1>1, <1>2, <1>3, KeptInv

(* A producer takes back what a seat said, or is about to say.              *)
LEMMA InvalidateKeeps ==
  ASSUME Typed, NEW i \in SeatsOf(graph), At(i, "in-flight") \/ state.seats[i].outcome = "valid",
         SeatsOf(graph) \cap LoopNodes = {}
  PROVE  LET t == InvalidateSeat(state, i) IN
         Keeps(state, t) /\ t.seats[i].outcome # "valid"
<1>1. PICK t : t = InvalidateSeat(state, i)
  OBVIOUS
<1>2. i \in NodesOf(graph) /\ IsSeat(state.seats[i]) /\ i # "evaluator"
  BY DEF Typed, IsState, NodesOf, LoopNodes
<1>3. CASE At(i, "in-flight")
  <2>1. PICK x : x = [state.seats[i] EXCEPT !.outcome = "invalid", !.stale = TRUE]
    OBVIOUS
  <2>2. IsSeat(x) /\ x.outcome = "invalid"
    BY <1>2, <2>1 DEF IsSeat, Outcomes
  <2>3. t = [state EXCEPT !.seats[i] = x]
    BY <1>1, <1>3, <2>1 DEF InvalidateSeat, At, Typed, IsState
  <2>4. /\ SameBut(graph, state, t, i) /\ SameWriters(state, t)
        /\ t.nodes = state.nodes /\ t.seats[i] = x
    BY <2>2, <2>3, SeatSet DEF Typed
  <2>5. Keeps(state, t)
    BY <1>2, <2>2, <2>4, OneNodeKeeps DEF SameWriters, IsOpen
  <2>6. QED
    BY <1>1, <2>2, <2>4, <2>5
<1>4. CASE ~At(i, "in-flight")
  <2>1. PICK u : u = SetStatus(state, i, "pending")
    OBVIOUS
  <2>2. /\ SameBut(graph, state, u, i) /\ SameWriters(state, u) /\ u.seats = state.seats
        /\ u.nodes[i].status = "pending"
    BY <1>2, <2>1, StatusSet DEF Typed, NodeStatus
  <2>3. PICK x : x = Outdate(u.seats[i])
    OBVIOUS
  <2>4. IsSeat(x) /\ x.outcome = "invalid"
    BY <1>2, <2>2, <2>3 DEF IsSeat, Outcomes, Outdate
  <2>5. t = [u EXCEPT !.seats[i] = x]
    BY <1>1, <1>4, <2>1, <2>3 DEF InvalidateSeat, At
  <2>6. /\ SameBut(graph, u, t, i) /\ SameWriters(u, t)
        /\ t.nodes = u.nodes /\ t.seats[i] = x
    BY <2>2, <2>4, <2>5, SeatSet DEF SameBut
  <2>7. Keeps(state, t)
    <3>1. SameBut(graph, state, t, i) /\ SameWriters(state, t)
      BY <2>2, <2>6 DEF SameBut, SameWriters, SameCounts
    <3>2. ~IsOpen(t, i)
      BY <2>2, <2>6 DEF IsOpen
    <3>3. QED
      BY <1>2, <2>4, <2>6, <3>1, <3>2, OneNodeKeeps DEF SameWriters
  <2>8. QED
    BY <1>1, <2>4, <2>6, <2>7
<1>5. QED
  BY <1>3, <1>4

(* A reviewer that gives no verdict in time takes its pass with it.         *)
LEMMA InvalidateInv ==
  ASSUME IInv, NEW n \in NodesOf(graph), Invalidate(n)
  PROVE  IInv'
<1>1. /\ n \in SeatsOf(graph)
      /\ At(n, "in-flight") \/ state.seats[n].outcome = "valid"
      /\ UNCHANGED <<graph, wrote>> /\ report' = [report EXCEPT ![n] = NoReport]
      /\ state' = InvalidateSeat(state, n)
  BY DEF Invalidate, Record, Event, Current, ConvergenceReduce
<1>2. Typed /\ SeatsOf(graph) \cap LoopNodes = {}
  BY SeatsAreNoLoopNodes DEF IInv, Typed
<1>5. Keeps(state, state') /\ state'.seats[n].outcome # "valid"
  BY <1>1, <1>2, InvalidateKeeps
<1>3. /\ report' = [i \in SeatsOf(graph) |-> report'[i]] /\ wrote' \ wrote = {}
      /\ \A i \in SeatsOf(graph) : i # n => report'[i] = report[i]
  BY <1>1 DEF IInv, Typed
<1>4. QED
  BY <1>1, <1>3, <1>5, KeptInv

(* A limit that is reached changes no pass.                                 *)
LEMMA LimitInv ==
  ASSUME IInv, Limit
  PROVE  IInv'
<1>1. /\ UNCHANGED <<graph, report, wrote>>
      /\ state' = [state EXCEPT !.pauseReason = "limit"]
  BY DEF Limit, Record, Event, ConvergenceReduce
<1>2. Keeps(state, state')
  BY <1>1, PauseSet DEF IInv, Typed, SameWriters, Keeps, IsOpen
<1>3. report' = [i \in SeatsOf(graph) |-> report'[i]] /\ wrote' \ wrote = {}
  BY <1>1 DEF IInv, Typed
<1>4. QED
  BY <1>1, <1>2, <1>3, KeptInv

-----------------------------------------------------------------------------
(* An attempt of the body or of the repair completes.                       *)

(* No seat was at work, and none is: what is left is the new phase.         *)
LEMMA AfterLoop ==
  ASSUME IInv, UNCHANGED <<graph, report, wrote>>,
         NEW n \in LoopNodes, IsOpen(state, n),
         IsState(graph, state'), SameWriters(state, state'),
         \A i \in SeatsOf(graph) : state'.seats[i].outcome = "valid" => state'.seats[i] = state.seats[i],
         \A m \in NodesOf(graph) : IsOpen(state', m) => IsOpen(state, m),
         state'.phase = "body" => state'.nodes["evaluator"].status # "passed",
         state'.phase = "review" =>
           \A i \in SeatsOf(graph) : state'.seats[i].outcome = "valid" => StillSeen(graph, state', i)
  PROVE  IInv'
<1> USE DEF IInv
<1>1. Typed'
  BY DEF Typed
<1>2. PassesBacked'
  BY DEF PassesBacked, Backed
<1>3. PassesSeen'
  BY DEF PassesSeen, StillSeen
<1>4. WritersNoted'
  BY DEF WritersNoted, SameWriters
<1>5. BodyGoesOn'
  BY DEF BodyGoesOn
<1>6. ReviewersAlone'
  <2>1. SeatsOf(graph) \subseteq NodesOf(graph)
    BY DEF NodesOf
  <2>2. \A i \in SeatsOf(graph) : ~IsOpen(state', i)
    BY <2>1 DEF ReviewersAlone
  <2>3. QED
    BY <2>2 DEF ReviewersAlone, IsOpen
<1>7. QED
  BY <1>1, <1>2, <1>3, <1>4, <1>5, <1>6

(* The seats that stay valid saw what is under review now.                  *)
LEMMA ReviewEntered ==
  ASSUME NEW g, NEW s, IsState(g, s), NEW e
  PROVE  LET t == EnterReview(g, s, e) IN
         /\ IsState(g, t) /\ SameWriters(s, t) /\ t.phase = "review"
         /\ \A i \in SeatsOf(g) : t.seats[i].outcome = "valid" =>
              t.seats[i] = s.seats[i] /\ StillSeen(g, t, i)
         /\ \A m \in NodesOf(g) : t.nodes[m].status \in {s.nodes[m].status, "pending"}
         /\ SameCounts(g, s, t)
         /\ \A m \in NodesOf(g) \ SeatsOf(g) : t.nodes[m] = s.nodes[m]
         /\ \A i \in SeatsOf(g) :
              /\ t.seats[i].stale = s.seats[i].stale
              /\ \/ t.seats[i] = s.seats[i] /\ t.nodes[i] = s.nodes[i]
                 \/ /\ s.seats[i].outcome = "valid" /\ t.seats[i].outcome = "invalid"
                    /\ t.nodes[i].status = "pending"
<1> DEFINE t == EnterReview(g, s, e)
<1>1. PICK out : out = Outdated(g, s, e)
  OBVIOUS
<1>2. /\ t.seats = [i \in SeatsOf(g) |-> IF i \in out THEN Outdate(s.seats[i]) ELSE s.seats[i]]
      /\ t.nodes = [n \in NodesOf(g) |-> IF n \in out THEN [s.nodes[n] EXCEPT !.status = "pending"]
                                         ELSE s.nodes[n]]
      /\ SameWriters(s, t) /\ t.phase = "review" /\ t.evidence = e
      /\ t.iteration = s.iteration /\ t.restarts = s.restarts
      /\ t \in [phase : {"body", "review", "settled"}, iteration : {t.iteration},
            restarts : {t.restarts}, pauseReason : {t.pauseReason}, nodes : {t.nodes},
            seats : {t.seats}, providers : {t.providers}, families : {t.families},
            evidence : {t.evidence}, rounds : {t.rounds}]
  BY <1>1 DEF EnterReview, IsState, SameWriters
<1> HIDE DEF t
<1>3. ASSUME NEW i \in SeatsOf(g)
      PROVE  /\ IsSeat(t.seats[i])
             /\ t.seats[i].outcome = "valid" => i \notin out /\ t.seats[i] = s.seats[i]
             /\ t.seats[i].stale = s.seats[i].stale
             /\ i \notin out => t.seats[i] = s.seats[i]
             /\ i \in out => t.seats[i].outcome = "invalid"
  <2>1. IsSeat(s.seats[i])
    BY DEF IsState
  <2>2. /\ IsSeat(Outdate(s.seats[i])) /\ Outdate(s.seats[i]).outcome = "invalid"
        /\ Outdate(s.seats[i]).stale = s.seats[i].stale
    BY <2>1 DEF IsSeat, Outdate, Outcomes
  <2>3. t.seats[i] = IF i \in out THEN Outdate(s.seats[i]) ELSE s.seats[i]
    BY <1>2
  <2>4. QED
    BY <2>1, <2>2, <2>3
<1>4. ASSUME NEW n \in NodesOf(g)
      PROVE  /\ IsNode(t.nodes[n]) /\ t.nodes[n].status \in {s.nodes[n].status, "pending"}
             /\ t.nodes[n].attempts = s.nodes[n].attempts
             /\ n \notin out => t.nodes[n] = s.nodes[n]
             /\ n \in out => t.nodes[n].status = "pending"
  <2>1. IsNode(s.nodes[n])
    BY DEF IsState
  <2>2. t.nodes[n] = IF n \in out THEN [s.nodes[n] EXCEPT !.status = "pending"] ELSE s.nodes[n]
    BY <1>2
  <2>3. QED
    BY <2>1, <2>2 DEF IsNode, NodeStatus
<1>5. IsState(g, t)
  <2>1. /\ t.seats = [i \in SeatsOf(g) |-> t.seats[i]]
        /\ t.nodes = [n \in NodesOf(g) |-> t.nodes[n]]
    BY <1>2
  <2>2. QED
    BY <1>2, <1>3, <1>4, <2>1 DEF IsState
<1>6. ASSUME NEW i \in SeatsOf(g), t.seats[i].outcome = "valid"
      PROVE  StillSeen(g, t, i)
  <2>1. i \notin Outdated(g, s, e) /\ t.seats[i] = s.seats[i]
    BY <1>1, <1>3, <1>6
  <2>2. QED
    BY <1>2, <1>6, <2>1 DEF Outdated, StillSeen
<1>7. SameCounts(g, s, t)
  BY <1>2, <1>4 DEF SameCounts
<1>8. \A i \in out : i \in SeatsOf(g) /\ s.seats[i].outcome = "valid"
  BY <1>1 DEF Outdated
<1>9. SeatsOf(g) \subseteq NodesOf(g)
  BY DEF NodesOf
<1>10. ASSUME NEW i \in SeatsOf(g)
       PROVE  /\ t.seats[i].stale = s.seats[i].stale
              /\ \/ t.seats[i] = s.seats[i] /\ t.nodes[i] = s.nodes[i]
                 \/ /\ s.seats[i].outcome = "valid" /\ t.seats[i].outcome = "invalid"
                    /\ t.nodes[i].status = "pending"
  BY <1>3, <1>4, <1>8, <1>9
<1>11. \A m \in NodesOf(g) \ SeatsOf(g) : t.nodes[m] = s.nodes[m]
  BY <1>4, <1>8
<1>12. QED
  BY <1>2, <1>3, <1>4, <1>5, <1>6, <1>7, <1>10, <1>11 DEF t

(* The body goes round again.                                               *)
LEMMA RoundAgain ==
  ASSUME NEW g, NEW s, IsState(g, s), NEW ns
  PROVE  LET t == Again(s, ns) IN
         /\ IsState(g, t) /\ SameWriters(s, t) /\ t.seats = s.seats /\ t.phase = "body"
         /\ SameCounts(g, s, t)
         /\ \A m \in NodesOf(g) :
              t.nodes[m].status = IF m \in ns THEN "pending" ELSE s.nodes[m].status
<1> DEFINE t == Again(s, ns)
<1>1. /\ t.nodes = [n \in NodesOf(g) |-> IF n \in ns THEN [s.nodes[n] EXCEPT !.status = "pending"]
                                         ELSE s.nodes[n]]
      /\ SameWriters(s, t) /\ t.seats = s.seats /\ t.phase = "body"
      /\ t.iteration = s.iteration /\ t.restarts = s.restarts
      /\ t \in [phase : {"body", "review", "settled"}, iteration : {t.iteration},
            restarts : {t.restarts}, pauseReason : {t.pauseReason}, nodes : {t.nodes},
            seats : {t.seats}, providers : {t.providers}, families : {t.families},
            evidence : {t.evidence}, rounds : {t.rounds}]
  BY DEF Again, IsState, SameWriters
<1> HIDE DEF t
<1>2. ASSUME NEW n \in NodesOf(g)
      PROVE  /\ IsNode(t.nodes[n]) /\ t.nodes[n].attempts = s.nodes[n].attempts
             /\ t.nodes[n].status = IF n \in ns THEN "pending" ELSE s.nodes[n].status
  <2>1. IsNode(s.nodes[n])
    BY DEF IsState
  <2>2. t.nodes[n] = IF n \in ns THEN [s.nodes[n] EXCEPT !.status = "pending"] ELSE s.nodes[n]
    BY <1>1
  <2>3. QED
    BY <2>1, <2>2 DEF IsNode, NodeStatus
<1>3. t.nodes = [n \in NodesOf(g) |-> t.nodes[n]]
  BY <1>1
<1>4. IsState(g, t)
  BY <1>1, <1>2, <1>3 DEF IsState
<1>5. QED
  BY <1>1, <1>2, <1>4 DEF t, SameCounts

(* Fields that are not looked into.                                         *)
LEMMA PhaseSettled ==
  ASSUME NEW g, NEW s, IsState(g, s)
  PROVE  LET t == [s EXCEPT !.phase = "settled"] IN
         /\ IsState(g, t) /\ SameWriters(s, t) /\ t.nodes = s.nodes /\ t.seats = s.seats
         /\ t.phase = "settled" /\ SameCounts(g, s, t)
  BY DEF IsState, SameWriters, SameCounts

(* Where a completed attempt of the body or of the repair leads.            *)
LoopDone(s, t) ==
  /\ IsState(graph, t) /\ SameWriters(s, t)
  /\ \A i \in SeatsOf(graph) : t.seats[i].outcome = "valid" =>
       t.seats[i] = s.seats[i] /\ (t.phase = "review" => StillSeen(graph, t, i))
  /\ \A m \in NodesOf(graph) : IsOpen(t, m) => IsOpen(s, m)
  /\ t.phase = "body" => t.nodes["evaluator"].status # "passed"

(* The evaluator sends the run to review, once more through the body, or to *)
(* its end.                                                                 *)
LEMMA EvaluatorDone ==
  ASSUME NEW s, IsState(graph, s), NEW r \in Gates
  PROVE  LoopDone(s, CompleteEvaluator(graph, s, r))
<1>1. PICK t : t = CompleteEvaluator(graph, s, r)
  OBVIOUS
<1>2. "evaluator" \in NodesOf(graph)
  BY DEF NodesOf, LoopNodes
<1>3. CASE r.gateMet
  <2>1. t = EnterReview(graph, s, r.evidence)
    BY <1>1, <1>3 DEF CompleteEvaluator
  <2>2. /\ IsState(graph, t) /\ SameWriters(s, t) /\ t.phase = "review"
        /\ \A i \in SeatsOf(graph) : t.seats[i].outcome = "valid" =>
             t.seats[i] = s.seats[i] /\ StillSeen(graph, t, i)
        /\ \A m \in NodesOf(graph) : t.nodes[m].status \in {s.nodes[m].status, "pending"}
    BY <2>1, ReviewEntered
  <2>3. QED
    BY <1>1, <2>2 DEF LoopDone, IsOpen
<1>4. CASE ~r.gateMet /\ s.iteration >= graph.maxIterations
  <2>1. t = [s EXCEPT !.phase = "settled"]
    BY <1>1, <1>4 DEF CompleteEvaluator
  <2>2. /\ IsState(graph, t) /\ SameWriters(s, t) /\ t.nodes = s.nodes /\ t.seats = s.seats
        /\ t.phase = "settled"
    BY <2>1, PhaseSettled
  <2>3. QED
    BY <1>1, <2>2 DEF LoopDone, IsOpen
<1>5. CASE ~r.gateMet /\ ~(s.iteration >= graph.maxIterations)
  <2>1. PICK a : a = Again(s, {"generator", "evaluator"})
    OBVIOUS
  <2>2. /\ IsState(graph, a) /\ SameWriters(s, a) /\ a.seats = s.seats /\ a.phase = "body"
        /\ \A m \in NodesOf(graph) :
             a.nodes[m].status = IF m \in {"generator", "evaluator"} THEN "pending" ELSE s.nodes[m].status
    BY <2>1, RoundAgain
  <2>3. t = [a EXCEPT !.evidence = r.evidence, !.iteration = @ + 1]
    BY <1>1, <1>5, <2>1 DEF CompleteEvaluator
  <2>4. /\ IsState(graph, t) /\ SameWriters(a, t) /\ t.nodes = a.nodes /\ t.seats = a.seats
        /\ t.phase = a.phase
    BY <2>2, <2>3 DEF IsState, SameWriters
  <2>5. t.phase = "body"
    BY <2>2, <2>4
  <2>6. QED
    BY <1>1, <1>2, <2>2, <2>4, <2>5 DEF LoopDone, IsOpen, SameWriters
<1>6. QED
  BY <1>3, <1>4, <1>5, GatesAreDecisions

(* A repair sends the run to the evaluator again.                           *)
LEMMA RepairDone ==
  ASSUME NEW s, IsState(graph, s)
  PROVE  LoopDone(s, CompleteRepair(graph, s))
<1>1. PICK t : t = CompleteRepair(graph, s)
  OBVIOUS
<1>2. "evaluator" \in NodesOf(graph) /\ "evaluator" \in LoopNodes
  BY DEF NodesOf, LoopNodes
<1>3. CASE s.restarts >= graph.maxReviewRestarts
  <2>1. t = [s EXCEPT !.phase = "settled"]
    BY <1>1, <1>3 DEF CompleteRepair
  <2>2. /\ IsState(graph, t) /\ SameWriters(s, t) /\ t.nodes = s.nodes /\ t.seats = s.seats
        /\ t.phase = "settled"
    BY <2>1, PhaseSettled
  <2>3. QED
    BY <1>1, <2>2 DEF LoopDone, IsOpen
<1>4. CASE ~(s.restarts >= graph.maxReviewRestarts)
  <2>1. PICK ns : ns = LoopNodes \cup {i \in SeatsOf(graph) : s.seats[i].outcome # "valid"}
    OBVIOUS
  <2>2. PICK a : a = Again(s, ns)
    OBVIOUS
  <2>3. /\ IsState(graph, a) /\ SameWriters(s, a) /\ a.seats = s.seats /\ a.phase = "body"
        /\ \A m \in NodesOf(graph) :
             a.nodes[m].status = IF m \in ns THEN "pending" ELSE s.nodes[m].status
    BY <2>2, RoundAgain
  <2>4. t = [a EXCEPT !.restarts = @ + 1,
                      !.iteration = IF @ + 1 > graph.maxIterations THEN @ ELSE @ + 1]
    BY <1>1, <1>4, <2>1, <2>2 DEF CompleteRepair
  <2>6. /\ IsState(graph, t) /\ SameWriters(a, t) /\ t.nodes = a.nodes /\ t.seats = a.seats
        /\ t.phase = a.phase
    BY <2>3, <2>4 DEF IsState, SameWriters
  <2>7. t.phase = "body"
    BY <2>3, <2>6
  <2>8. QED
    BY <1>1, <1>2, <2>1, <2>3, <2>6, <2>7 DEF LoopDone, IsOpen, SameWriters
<1>5. QED
  BY <1>3, <1>4

(* The result of a node of the loop keeps the invariant.                    *)
LEMMA LoopInv ==
  ASSUME IInv, NEW n \in NodesOf(graph), CompleteLoop(n)
  PROVE  IInv'
<1>1. PICK r \in Gates : Record(Event("node-completed", Current(n), r))
  BY DEF CompleteLoop
<1>2. n \in LoopNodes /\ At(n, "in-flight") /\ UNCHANGED <<graph, report, wrote>>
  BY <1>1 DEF CompleteLoop, Record
<1>3. state' = CompleteNode(graph, state, n, r)
  BY <1>1, <1>2 DEF Record, Event, Current, ConvergenceReduce, IsCurrent, At
<1>4. IsOpen(state, n) /\ n \notin SeatsOf(graph)
  BY <1>2, SeatsAreNoLoopNodes DEF IInv, Typed, IsOpen, At
<1>5. PICK p : p = Settle(state, n, "passed")
  OBVIOUS
<1>6. /\ SameBut(graph, state, p, n) /\ SameWriters(state, p) /\ p.seats = state.seats
      /\ p.nodes[n].status = "passed"
  BY <1>5, Settled DEF IInv, Typed, NodeStatus
<1>7. /\ IsState(graph, p) /\ p.phase = state.phase
      /\ \A m \in NodesOf(graph) : IsOpen(p, m) => IsOpen(state, m)
  BY <1>6 DEF SameBut, IsOpen
<1>8. CASE n = "generator"
  <2>1. state' = p
    BY <1>3, <1>4, <1>5, <1>8 DEF CompleteNode
  <2>2. Keeps(state, p)
    BY <1>4, <1>6, <1>8, OneNodeKeeps DEF SameWriters, IsOpen
  <2>3. report' = [i \in SeatsOf(graph) |-> report'[i]] /\ wrote' \ wrote = {}
    BY <1>2 DEF IInv, Typed
  <2>4. QED
    BY <1>2, <2>1, <2>2, <2>3, KeptInv
<1>9. CASE n # "generator"
  <2>1. LoopDone(p, state')
    <3>1. CASE n = "evaluator"
      BY <1>3, <1>4, <1>5, <1>7, <3>1, EvaluatorDone DEF CompleteNode
    <3>2. CASE n = "repair"
      BY <1>3, <1>4, <1>5, <1>7, <3>2, RepairDone DEF CompleteNode
    <3>3. QED
      BY <1>2, <1>9, <3>1, <3>2 DEF LoopNodes, Writers
  <2>2. /\ IsState(graph, state') /\ SameWriters(state, state')
        /\ \A i \in SeatsOf(graph) : state'.seats[i].outcome = "valid" => state'.seats[i] = state.seats[i]
        /\ \A m \in NodesOf(graph) : IsOpen(state', m) => IsOpen(state, m)
        /\ state'.phase = "body" => state'.nodes["evaluator"].status # "passed"
        /\ state'.phase = "review" =>
             \A i \in SeatsOf(graph) : state'.seats[i].outcome = "valid" => StillSeen(graph, state', i)
    BY <1>6, <1>7, <2>1 DEF LoopDone, SameWriters
  <2>3. QED
    BY <1>2, <1>4, <2>2, AfterLoop
<1>10. QED
  BY <1>8, <1>9

-----------------------------------------------------------------------------
(* A seat answers.                                                          *)

(* A verdict counts only as a confident pass on what is under review.       *)
LEMMA VerdictRead ==
  ASSUME NEW g, NEW s, NEW i, NEW r \in Reviews
  PROVE  LET x == ReadVerdict(g, s, i, r) IN
         /\ IsSeat(x) /\ x.by = s.nodes[i].by /\ x.evidence = View(g, i, r.evidence)
         /\ ~x.stale
         /\ x.outcome = "valid" =>
              /\ r.verdict = "pass" /\ r.confident
              /\ Same(View(g, i, r.evidence), View(g, i, s.evidence))
<1> DEFINE current == Same(View(g, i, r.evidence), View(g, i, s.evidence))
           outcome == CASE r.verdict = "pass" /\ r.confident /\ current -> "valid"
                        [] r.verdict = "none"                           -> "none"
                        [] OTHER                                        -> "invalid"
           x == ReadVerdict(g, s, i, r)
<1>1. /\ outcome \in Outcomes
      /\ outcome = "valid" => r.verdict = "pass" /\ r.confident /\ current
  BY ReviewsAreVerdicts DEF Outcomes, Same
<1> HIDE DEF outcome
<1>2. x = [outcome |-> outcome, verdict |-> r.verdict, by |-> s.nodes[i].by,
           evidence |-> View(g, i, r.evidence),
           findings |-> IF current THEN r.findings ELSE {}, stale |-> FALSE]
  BY DEF ReadVerdict, outcome
<1>3. QED
  BY <1>1, <1>2 DEF IsSeat

(* A reviewer's result changes its own seat and node only.                  *)
LEMMA SeatCompleted ==
  ASSUME Typed, NEW i \in SeatsOf(graph), NEW r \in Reviews
  PROVE  LET t == CompleteSeat(graph, state, i, r) IN
         /\ SameBut(graph, state, t, i) /\ SameWriters(state, t)
         /\ ~IsOpen(t, i)
         /\ ~t.seats[i].stale
         /\ t.nodes[i].status = "passed" \/
              /\ t.nodes[i].status = "pending" /\ t.seats[i].outcome # "valid"
              /\ state.seats[i].stale \/ ~(state.nodes[i].attempts > graph.retryCap)
         /\ t.seats[i].outcome = "valid" =>
              /\ r.verdict = "pass" /\ r.confident
              /\ Same(View(graph, i, r.evidence), View(graph, i, state.evidence))
              /\ t.seats[i].evidence = View(graph, i, r.evidence)
              /\ t.seats[i].by = state.nodes[i].by
<1> DEFINE stale     == state.seats[i].stale
           read      == IF stale THEN [NoVerdict EXCEPT !.outcome = "invalid"]
                                 ELSE ReadVerdict(graph, state, i, r)
           untrusted == read.verdict = "pass" /\ read.outcome # "valid"
           exhausted == untrusted /\ state.nodes[i].attempts > graph.retryCap
           status    == IF stale \/ (untrusted /\ ~exhausted) THEN "pending" ELSE "passed"
           given     == IF exhausted THEN [read EXCEPT !.outcome = "non-verdict"] ELSE read
           t         == CompleteSeat(graph, state, i, r)
<1>1. /\ IsSeat(read) /\ ~read.stale
      /\ stale => read.outcome = "invalid"
      /\ read.outcome = "valid" =>
           /\ r.verdict = "pass" /\ r.confident
           /\ Same(View(graph, i, r.evidence), View(graph, i, state.evidence))
           /\ read.evidence = View(graph, i, r.evidence)
           /\ read.by = state.nodes[i].by
  <2>1. CASE stale
    BY <2>1 DEF NoVerdict, IsSeat, Outcomes
  <2>2. CASE ~stale
    <3>1. PICK x : x = ReadVerdict(graph, state, i, r)
      OBVIOUS
    <3>2. /\ IsSeat(x) /\ x.by = state.nodes[i].by /\ x.evidence = View(graph, i, r.evidence)
          /\ ~x.stale
          /\ x.outcome = "valid" =>
               /\ r.verdict = "pass" /\ r.confident
               /\ Same(View(graph, i, r.evidence), View(graph, i, state.evidence))
      BY <3>1, VerdictRead
    <3>3. QED
      BY <2>2, <3>1, <3>2
  <2>3. QED
    BY <2>1, <2>2
<1>2. status \in {"pending", "passed"}
  OBVIOUS
<1> HIDE DEF read
<1>3. IsSeat(given) /\ (given.outcome = "valid" => given = read) /\ ~given.stale
  BY <1>1 DEF IsSeat, Outcomes
<1>4. ASSUME status = "pending"
       PROVE  given.outcome # "valid" /\ (stale \/ ~(state.nodes[i].attempts > graph.retryCap))
  <2>1. (stale \/ (untrusted /\ ~exhausted)) /\ read.outcome # "valid"
    BY <1>1, <1>4
  <2>2. QED
    BY <1>3, <2>1
<1>5. PICK p : p = Settle(state, i, status)
  OBVIOUS
<1>6. PICK m : t = [p EXCEPT !.seats[i] = given, !.rounds = m]
  BY <1>5 DEF CompleteSeat, read
<1> HIDE DEF status, given, t
<1>7. /\ SameBut(graph, state, p, i) /\ SameWriters(state, p) /\ p.seats = state.seats
      /\ p.nodes[i].status = status
  <2>1. i \in NodesOf(graph) /\ status \in NodeStatus
    BY <1>2 DEF NodesOf, NodeStatus
  <2>2. QED
    BY <1>5, <2>1, Settled DEF Typed
<1>8. /\ t.nodes = p.nodes /\ t.phase = p.phase /\ t.evidence = p.evidence /\ SameWriters(p, t)
      /\ t.iteration = p.iteration /\ t.restarts = p.restarts
      /\ t.seats = [p.seats EXCEPT ![i] = given]
      /\ t \in [phase : {"body", "review", "settled"}, iteration : {t.iteration},
            restarts : {t.restarts}, pauseReason : {t.pauseReason}, nodes : {t.nodes},
            seats : {t.seats}, providers : {t.providers}, families : {t.families},
            evidence : {t.evidence}, rounds : {t.rounds}]
  BY <1>6, <1>7 DEF SameBut, IsState, SameWriters
<1>9. /\ t.seats[i] = given /\ \A j \in SeatsOf(graph) : j # i => t.seats[j] = state.seats[j]
      /\ t.seats = [j \in SeatsOf(graph) |-> t.seats[j]]
  BY <1>7, <1>8 DEF SameBut, IsState
<1>10. IsState(graph, t)
  BY <1>3, <1>7, <1>8, <1>9 DEF SameBut, IsState
<1>11. SameBut(graph, state, t, i) /\ SameWriters(state, t) /\ ~IsOpen(t, i)
  BY <1>2, <1>7, <1>8, <1>9, <1>10 DEF SameBut, SameWriters, SameCounts, IsOpen
<1>12. t.nodes[i].status = status
  BY <1>7, <1>8
<1>13. /\ t.nodes[i].status = "passed" \/
            /\ t.nodes[i].status = "pending" /\ t.seats[i].outcome # "valid"
            /\ state.seats[i].stale \/ ~(state.nodes[i].attempts > graph.retryCap)
       /\ ~t.seats[i].stale
  BY <1>2, <1>3, <1>9, <1>4, <1>12
<1>14. t.seats[i].outcome = "valid" =>
         /\ r.verdict = "pass" /\ r.confident
         /\ Same(View(graph, i, r.evidence), View(graph, i, state.evidence))
         /\ t.seats[i].evidence = View(graph, i, r.evidence)
         /\ t.seats[i].by = state.nodes[i].by
  BY <1>1, <1>3, <1>9
<1>15. QED
  BY <1>11, <1>13, <1>14 DEF t

(* The result of a reviewer keeps the invariant.                            *)
LEMMA ReviewInv ==
  ASSUME IInv, NEW n \in NodesOf(graph), CompleteReview(n)
  PROVE  IInv'
<1> USE DEF IInv
<1>1. PICK r \in Reviews :
       /\ Record(Event("node-completed", Current(n), r))
       /\ report' = [report EXCEPT ![n] =
            [verdict |-> r.verdict, confident |-> r.confident, evidence |-> r.evidence,
             findings |-> r.findings, by |-> state.nodes[n].by, restarts |-> state.restarts]]
  BY DEF CompleteReview
<1>2. n \in SeatsOf(graph) /\ At(n, "in-flight") /\ UNCHANGED <<graph, wrote>>
  BY <1>1 DEF CompleteReview, Record
<1>3. state' = CompleteSeat(graph, state, n, r)
  <2>1. state' = CompleteNode(graph, state, n, r)
    BY <1>1, <1>2 DEF Record, Event, Current, ConvergenceReduce, IsCurrent, At
  <2>2. n \notin {"generator", "evaluator", "repair"}
    BY <1>2, SeatsAreNoLoopNodes DEF Typed, LoopNodes, Writers
  <2>3. QED
    BY <1>2, <2>1, <2>2 DEF CompleteNode
<1>4. /\ SameBut(graph, state, state', n) /\ SameWriters(state, state')
      /\ ~IsOpen(state', n)
      /\ state'.seats[n].outcome = "valid" =>
           /\ r.verdict = "pass" /\ r.confident
           /\ Same(View(graph, n, r.evidence), View(graph, n, state.evidence))
           /\ state'.seats[n].evidence = View(graph, n, r.evidence)
           /\ state'.seats[n].by = state.nodes[n].by
  BY <1>2, <1>3, SeatCompleted
<1>5. /\ report' = [i \in SeatsOf(graph) |-> report'[i]]
      /\ \A i \in SeatsOf(graph) : i # n => report'[i] = report[i]
      /\ report'[n].verdict = r.verdict /\ report'[n].confident = r.confident
      /\ report'[n].evidence = r.evidence /\ report'[n].by = state.nodes[n].by
  BY <1>1, <1>2 DEF Typed
<1>6. Typed'
  BY <1>2, <1>4, <1>5 DEF Typed, SameBut
<1>7. PassesBacked'
  BY <1>2, <1>4, <1>5 DEF PassesBacked, Backed, SameBut, Same
<1>8. PassesSeen'
  BY <1>2, <1>4 DEF PassesSeen, StillSeen, SameBut, Same
<1>9. WritersNoted'
  BY <1>2, <1>4 DEF WritersNoted, SameWriters
<1>10. n # "evaluator" /\ "evaluator" \in NodesOf(graph)
  BY <1>2, SeatsAreNoLoopNodes DEF Typed, LoopNodes, NodesOf
<1>11. BodyGoesOn'
  BY <1>4, <1>10 DEF BodyGoesOn, SameBut
<1>12. ReviewersAlone'
  <2>1. \A m \in NodesOf(graph) : IsOpen(state', m) => IsOpen(state, m)
    BY <1>4 DEF SameBut, IsOpen
  <2>2. SeatsOf(graph) \cup LoopNodes = NodesOf(graph) /\ state'.phase = state.phase
    BY <1>4 DEF NodesOf, SameBut
  <2>3. QED
    BY <1>2, <2>1, <2>2 DEF ReviewersAlone, IsOpen
<1>13. QED
  BY <1>6, <1>7, <1>8, <1>9, <1>11, <1>12

-----------------------------------------------------------------------------
(* What is asked for is begun.                                              *)

(* The graph asks for something only once nothing is open: one node of the  *)
(* body, a panel of seats, or the repair.                                   *)
LEMMA AskedInPhase ==
  ASSUME Typed, Decision.kind = "dispatch", Decision.positions # {}
  PROVE  /\ \A m \in NodesOf(graph) : ~IsOpen(state, m)
         /\ \E ns : /\ Decision = Dispatch(state, ns)
                    /\ \/ ns \subseteq LoopNodes
                       \/ ns \subseteq SeatsOf(graph) /\ state.phase = "review"
<1>1. /\ \A ns : Dispatch(state, ns).kind = "dispatch"
      /\ Dispatch(state, {}).positions = {}
      /\ \A kind, code : Finish(kind, code).kind = kind
  BY DEF Dispatch, Finish
<1>2. state.phase \in {"body", "review", "settled"} /\ DOMAIN state.nodes = NodesOf(graph)
  BY DEF Typed, IsState
<1>3. /\ InStatus(state, "in-flight") = {} /\ InStatus(state, "paused") = {}
      /\ \/ state.phase = "body" /\ Decision = DecideBody(state)
         \/ state.phase = "review" /\ Decision = DecideReview(graph, state)
  BY <1>1, <1>2 DEF Decision, ConvergenceDecide
<1>4. \A m \in NodesOf(graph) : ~IsOpen(state, m)
  BY <1>2, <1>3 DEF InStatus, IsOpen
<1>5. CASE state.phase = "body"
  <2>1. Decision = DecideBody(state)
    BY <1>3, <1>5
  <2>2. \E ns \in {{"generator"}, {"evaluator"}, {}} : Decision = Dispatch(state, ns)
    BY <2>1 DEF DecideBody
  <2>3. QED
    BY <1>4, <2>2 DEF LoopNodes, Writers
<1>6. CASE state.phase = "review"
  <2>1. Decision = DecideReview(graph, state)
    BY <1>3, <1>6
  <2>2. \/ Decision = Dispatch(state, Panel(graph, state))
        \/ Decision = Conclude(graph, state)
    BY <1>1, <2>1 DEF DecideReview
  <2>3. Panel(graph, state) \subseteq SeatsOf(graph)
    BY DEF Panel, SeatsOf, Range
  <2>4. ASSUME Decision = Conclude(graph, state)
        PROVE  Decision = Dispatch(state, {"repair"})
    BY <1>1, <2>4 DEF Conclude
  <2>5. {"repair"} \subseteq LoopNodes
    BY DEF LoopNodes, Writers
  <2>6. QED
    BY <1>4, <1>6, <2>2, <2>3, <2>4, <2>5
<1>7. QED
  BY <1>3, <1>5, <1>6

(* What is dispatched is of the loop, or of the review when the run is in   *)
(* it, and nothing else is open.                                            *)
LEMMA DispatchInv ==
  ASSUME IInv, RecordDispatch
  PROVE  IInv'
<1> USE DEF IInv
<1>1. UNCHANGED <<graph, report, wrote>>
  BY DEF RecordDispatch
<1>2. \A m \in NodesOf(graph) : ~IsOpen(state, m)
  BY AskedInPhase DEF RecordDispatch
<1>3. PICK ns : /\ Decision = Dispatch(state, ns)
                /\ \/ ns \subseteq LoopNodes
                   \/ ns \subseteq SeatsOf(graph) /\ state.phase = "review"
  BY AskedInPhase DEF RecordDispatch
<1>4. \A n : (\E p \in Decision.positions : p[1] = n) => n \in ns
  BY <1>3 DEF Dispatch
<1>5. /\ state'.phase = state.phase /\ state'.evidence = state.evidence
      /\ state'.seats = state.seats /\ SameWriters(state, state')
      /\ state'.nodes = [n \in NodesOf(graph) |->
           IF \E p \in Decision.positions : p[1] = n
           THEN DispatchNode(state, n, state.nodes[n].attempts + 1).nodes[n] ELSE state.nodes[n]]
      /\ state' \in [phase : {"body", "review", "settled"}, iteration : {state'.iteration},
            restarts : {state'.restarts}, pauseReason : {state'.pauseReason}, nodes : {state'.nodes},
            seats : {state'.seats}, providers : {state'.providers}, families : {state'.families},
            evidence : {state'.evidence}, rounds : {state'.rounds}]
  BY DEF RecordDispatch, Typed, IsState, SameWriters
<1>6. ASSUME NEW n \in NodesOf(graph)
      PROVE  LET x == DispatchNode(state, n, state.nodes[n].attempts + 1).nodes[n] IN
             IsNode(x) /\ (x = state.nodes[n] \/ x.status = "in-flight")
  <2>1. IsNode(state.nodes[n]) /\ n \in DOMAIN state.nodes
    BY DEF Typed, IsState
  <2>2. PICK y : y = [status |-> "in-flight", attempts |-> state.nodes[n].attempts + 1, by |-> Unknown]
    OBVIOUS
  <2>3. DispatchNode(state, n, state.nodes[n].attempts + 1).nodes[n] \in {state.nodes[n], y}
    BY <2>1, <2>2 DEF DispatchNode, Typed, IsState
  <2>4. IsNode(y) /\ y.status = "in-flight"
    BY <2>2 DEF IsNode, NodeStatus
  <2>5. QED
    BY <2>1, <2>3, <2>4
<1>7. \A n \in NodesOf(graph) :
        /\ IsNode(state'.nodes[n])
        /\ state'.nodes[n] # state.nodes[n] => n \in ns /\ state'.nodes[n].status = "in-flight"
  <2> SUFFICES ASSUME NEW n \in NodesOf(graph)
               PROVE  /\ IsNode(state'.nodes[n])
                      /\ state'.nodes[n] # state.nodes[n] =>
                           n \in ns /\ state'.nodes[n].status = "in-flight"
    OBVIOUS
  <2>1. PICK x : x = DispatchNode(state, n, state.nodes[n].attempts + 1).nodes[n]
    OBVIOUS
  <2>2. IsNode(x) /\ (x = state.nodes[n] \/ x.status = "in-flight")
    BY <1>6, <2>1
  <2>3. state'.nodes[n] = IF \E p \in Decision.positions : p[1] = n THEN x ELSE state.nodes[n]
    BY <1>5, <2>1
  <2>4. IsNode(state.nodes[n])
    BY DEF Typed, IsState
  <2>5. QED
    BY <1>4, <2>2, <2>3, <2>4
<1>8. Typed'
  <2>1. state'.nodes = [n \in NodesOf(graph) |-> state'.nodes[n]]
    BY <1>5
  <2>2. IsState(graph, state')
    BY <1>5, <1>7, <2>1 DEF Typed, IsState
  <2>3. QED
    BY <1>1, <2>2 DEF Typed
<1>9. PassesBacked' /\ PassesSeen' /\ WritersNoted'
  BY <1>1, <1>5 DEF PassesBacked, Backed, PassesSeen, StillSeen, WritersNoted, SameWriters
<1>10. BodyGoesOn'
  <2>1. "evaluator" \in NodesOf(graph)
    BY DEF NodesOf, LoopNodes
  <2>2. QED
    BY <1>5, <1>7, <2>1 DEF BodyGoesOn
<1>11. ReviewersAlone'
  <2>1. \A m \in NodesOf(graph) : IsOpen(state', m) => m \in ns
    BY <1>2, <1>7 DEF IsOpen
  <2>2. SeatsOf(graph) \cup LoopNodes = NodesOf(graph) /\ SeatsOf(graph) \cap LoopNodes = {}
    BY SeatsAreNoLoopNodes DEF NodesOf, Typed
  <2>3. QED
    BY <1>1, <1>3, <1>5, <2>1, <2>2 DEF ReviewersAlone, IsOpen
<1>12. QED
  BY <1>8, <1>9, <1>10, <1>11

-----------------------------------------------------------------------------
(* Facts about finite sets.                                                 *)

(* A set of subsets of a finite set has a smallest member: the form in      *)
(* which the proofs below use induction over a finite set.                  *)
LEMMA MinimalExists ==
  ASSUME NEW S, IsFiniteSet(S), NEW T, T # {}, \A D \in T : D \subseteq S
  PROVE  \E D \in T : \A E \in T : E \subseteq D => E = D
<1>1. IsWellFoundedOn(StrictSubsetOrdering(S), SUBSET S)
  BY FS_StrictSubsetOrderingWellFounded, FS_FiniteSubsetsOfFinite
<1>2. PICK D \in T : \A E \in T : <<E, D>> \notin StrictSubsetOrdering(S)
  <2>1. T \in SUBSET SUBSET S
    OBVIOUS
  <2>2. QED
    BY <1>1, <2>1, WFMin
<1>3. \A E \in T : E \subseteq D => E = D
  BY <1>2 DEF StrictSubsetOrdering
<1>4. QED
  BY <1>3

(* A finite set of numbers has a greatest element.                          *)
LEMMA MaximumExists ==
  ASSUME NEW S \in SUBSET Nat, IsFiniteSet(S), S # {}
  PROVE  \E m \in S : \A n \in S : n <= m
<1> DEFINE Top(D) == \E m \in D : \A n \in D : n <= m
           T == {D \in SUBSET S : D # {} /\ ~Top(D)}
<1>1. ASSUME T # {} PROVE FALSE
  <2>1. PICK D \in T : \A E \in T : E \subseteq D => E = D
    <3>1. PICK U : U = T
      OBVIOUS
    <3>2. U # {} /\ \A D \in U : D \subseteq S
      BY <1>1, <3>1
    <3>3. \E D \in U : \A E \in U : E \subseteq D => E = D
      BY <3>2, MinimalExists
    <3>4. QED
      BY <3>1, <3>3
  <2>2. PICK x \in D : TRUE
    BY <2>1
  <2>3. D \ {x} \notin T
    BY <2>1, <2>2
  <2>4. CASE D \ {x} = {}
    BY <2>1, <2>2, <2>4
  <2>5. CASE D \ {x} # {}
    <3>1. Top(D \ {x})
      BY <2>1, <2>3, <2>5
    <3>2. PICK m \in D \ {x} : \A n \in D \ {x} : n <= m
      BY <3>1
    <3>3. \A n \in D : n <= IF m <= x THEN x ELSE m
      BY <2>1, <2>2, <3>2
    <3>4. Top(D)
      BY <2>2, <3>2, <3>3
    <3>5. QED
      BY <2>1, <3>4
  <2>6. QED
    BY <2>4, <2>5
<1>2. QED
  BY <1>1

-----------------------------------------------------------------------------
(* Sums over finite sets.  g gives every subset of S its sum of f.          *)
Adds(f, S, g) ==
  g = [s \in SUBSET S |-> IF s = {} THEN 0
                          ELSE LET x == CHOOSE x \in s : TRUE IN f[x] + g[s \ {x}]]

(* The sum of the values f has on S.                                        *)
Sum(f, S) == SumFunctionOnSet(f, S)

(* It is the value such a g has for S.                                      *)
LEMMA SumIs ==
  ASSUME NEW f, NEW S
  PROVE  Sum(f, S) = (CHOOSE g : Adds(f, S, g))[S]
  BY DEF Sum, SumFunctionOnSet, FoldFunctionOnSet, MapThenFoldSet, Adds

(* A set of subsets of E none of which is in it is empty, if a member would *)
(* be the smallest: induction over a finite set.                            *)
LEMMA NoneMinimal ==
  ASSUME NEW E, IsFiniteSet(E), NEW W, W \subseteq SUBSET E,
         \A D \in W : \E C \in W : C \subseteq D /\ C # D
  PROVE  W = {}
<1>1. SUFFICES ASSUME W # {} PROVE FALSE
  OBVIOUS
<1>2. PICK U : U = W
  OBVIOUS
<1>3. U # {} /\ \A D \in U : D \subseteq E
  BY <1>1, <1>2
<1>4. \E D \in U : \A C \in U : C \subseteq D => C = D
  BY <1>3, MinimalExists
<1>5. QED
  BY <1>2, <1>4

(* Two such functions agree where both have a value.                        *)
LEMMA SumUnique ==
  ASSUME NEW f, NEW S, NEW g, Adds(f, S, g), NEW T, NEW h, Adds(f, T, h),
         NEW E, IsFiniteSet(E), E \subseteq S, E \subseteq T
  PROVE  g[E] = h[E]
<1> DEFINE W == {D \in SUBSET E : g[D] # h[D]}
<1>1. ASSUME NEW D \in W, \A C \in W : C \subseteq D => C = D
      PROVE  FALSE
  <2> DEFINE x == CHOOSE x \in D : TRUE
  <2>1. D \in SUBSET S /\ D \in SUBSET T
    OBVIOUS
  <2>2. g[D] = IF D = {} THEN 0 ELSE f[x] + g[D \ {x}]
    BY <2>1 DEF Adds
  <2>3. h[D] = IF D = {} THEN 0 ELSE f[x] + h[D \ {x}]
    BY <2>1 DEF Adds
  <2>4. D # {} /\ x \in D
    BY <2>2, <2>3
  <2> HIDE DEF x
  <2>5. D \ {x} \notin W
    BY <1>1, <2>4
  <2>6. g[D \ {x}] = h[D \ {x}]
    BY <2>1, <2>5
  <2>7. QED
    BY <2>2, <2>3, <2>6
<1>2. W = {}
  <2>1. W \subseteq SUBSET E
    OBVIOUS
  <2> HIDE DEF W
  <2>2. QED
    BY <1>1, <2>1, NoneMinimal
<1>3. QED
  BY <1>2

(* There is such a function: the one for S is made of those for the subsets *)
(* of S.                                                                    *)
LEMMA SumExists ==
  ASSUME NEW f, NEW S, IsFiniteSet(S)
  PROVE  \E g : Adds(f, S, g)
<1> DEFINE W == {D \in SUBSET S : ~ \E g : Adds(f, D, g)}
<1>1. ASSUME NEW D \in W, \A C \in W : C \subseteq D => C = D
      PROVE  FALSE
  <2> DEFINE sum(C) == CHOOSE g : Adds(f, C, g)
             x == CHOOSE x \in D : TRUE
             g == [s \in SUBSET D |-> IF s = D THEN (IF D = {} THEN 0 ELSE f[x] + sum(D \ {x})[D \ {x}])
                                               ELSE sum(s)[s]]
  <2>1. ASSUME NEW C \in SUBSET D, C # D
        PROVE  Adds(f, C, sum(C)) /\ IsFiniteSet(C)
    <3>1. \E h : Adds(f, C, h)
      BY <1>1, <2>1
    <3>2. Adds(f, C, sum(C))
      BY <3>1
    <3>3. QED
      BY <3>2, FS_Subset
  <2> HIDE DEF sum
  <2>2. ASSUME NEW s \in SUBSET D
        PROVE  g[s] = IF s = {} THEN 0 ELSE LET y == CHOOSE y \in s : TRUE IN f[y] + g[s \ {y}]
    <3> DEFINE y == CHOOSE y \in s : TRUE
    <3>1. s # {} => y \in s /\ s \ {y} \in SUBSET D /\ s \ {y} # D /\ g[s \ {y}] = sum(s \ {y})[s \ {y}]
      OBVIOUS
    <3>2. CASE s = D
      BY <3>1, <3>2
    <3>3. CASE s # D
      <4>1. g[s] = sum(s)[s] /\ s \in SUBSET s
        BY <3>3
      <4>2. sum(s)[s] = IF s = {} THEN 0 ELSE f[y] + sum(s)[s \ {y}]
        BY <2>1, <3>3, <4>1 DEF Adds
      <4>3. s # {} => sum(s)[s \ {y}] = sum(s \ {y})[s \ {y}]
        <5>1. SUFFICES ASSUME s # {} PROVE sum(s)[s \ {y}] = sum(s \ {y})[s \ {y}]
          OBVIOUS
        <5>2. Adds(f, s, sum(s)) /\ Adds(f, s \ {y}, sum(s \ {y})) /\ IsFiniteSet(s \ {y})
          BY <2>1, <3>1, <3>3, <5>1
        <5>3. s \ {y} \subseteq s /\ s \ {y} \subseteq s \ {y}
          OBVIOUS
        <5> HIDE DEF y
        <5>4. QED
          BY <5>2, <5>3, SumUnique
      <4>4. QED
        BY <3>1, <4>1, <4>2, <4>3
    <3>4. QED
      BY <3>2, <3>3
  <2>3. g = [s \in SUBSET D |-> g[s]]
    OBVIOUS
  <2> HIDE DEF g
  <2>4. Adds(f, D, g)
    BY <2>2, <2>3 DEF Adds
  <2>5. QED
    BY <2>4
<1>2. W = {}
  <2>1. W \subseteq SUBSET S
    OBVIOUS
  <2> HIDE DEF W
  <2>2. QED
    BY <1>1, <2>1, NoneMinimal
<1>3. QED
  BY <1>2

(* The sum over nothing is 0, and one member can be summed apart.           *)
LEMMA SumChoice ==
  ASSUME NEW f, NEW S, IsFiniteSet(S)
  PROVE  Sum(f, S) = IF S = {} THEN 0
                     ELSE LET x == CHOOSE x \in S : TRUE IN f[x] + Sum(f, S \ {x})
<1> DEFINE sum(C) == CHOOSE g : Adds(f, C, g)
           x == CHOOSE x \in S : TRUE
<1>1. ASSUME NEW C, C \subseteq S
      PROVE  Adds(f, C, sum(C)) /\ Sum(f, C) = sum(C)[C] /\ IsFiniteSet(C)
  <2>1. IsFiniteSet(C)
    BY <1>1, FS_Subset
  <2>2. \E g : Adds(f, C, g)
    BY <2>1, SumExists
  <2>3. QED
    BY <2>1, <2>2, SumIs
<1> HIDE DEF sum
<1>2. sum(S)[S] = IF S = {} THEN 0 ELSE f[x] + sum(S)[S \ {x}]
  <2>1. S \in SUBSET S /\ Adds(f, S, sum(S))
    BY <1>1
  <2>2. QED
    BY <2>1 DEF Adds
<1> HIDE DEF x
<1>3. sum(S)[S \ {x}] = sum(S \ {x})[S \ {x}]
  <2>1. S \ {x} \subseteq S /\ S \ {x} \subseteq S \ {x} /\ S \subseteq S
    OBVIOUS
  <2>2. Adds(f, S, sum(S)) /\ Adds(f, S \ {x}, sum(S \ {x})) /\ IsFiniteSet(S \ {x})
    BY <1>1, <2>1
  <2>3. QED
    BY <2>1, <2>2, SumUnique
<1>4. Sum(f, S) = sum(S)[S] /\ Sum(f, S \ {x}) = sum(S \ {x})[S \ {x}]
  BY <1>1
<1>5. QED
  BY <1>2, <1>3, <1>4 DEF x

(* The sum of numbers is a number.                                          *)
LEMMA SumIsNat ==
  ASSUME NEW S, IsFiniteSet(S), NEW f, \A x \in S : f[x] \in Nat
  PROVE  Sum(f, S) \in Nat
<1> DEFINE W == {D \in SUBSET S : Sum(f, D) \notin Nat}
<1>1. ASSUME NEW D \in W
      PROVE  \E C \in W : C \subseteq D /\ C # D
  <2> DEFINE x == CHOOSE x \in D : TRUE
  <2>1. IsFiniteSet(D)
    BY FS_Subset
  <2>2. Sum(f, D) = IF D = {} THEN 0 ELSE f[x] + Sum(f, D \ {x})
    BY <2>1, SumChoice
  <2>3. D # {} /\ x \in D
    BY <2>2
  <2> HIDE DEF x
  <2>4. f[x] \in Nat /\ D \ {x} \in SUBSET S
    BY <2>3
  <2>5. Sum(f, D \ {x}) \notin Nat
    BY <2>2, <2>3, <2>4
  <2>6. QED
    BY <2>3, <2>4, <2>5
<1>2. W = {}
  <2>1. W \subseteq SUBSET S
    OBVIOUS
  <2> HIDE DEF W
  <2>2. QED
    BY <1>1, <2>1, NoneMinimal
<1>3. QED
  BY <1>2

(* Any member can be summed apart from the others.                          *)
LEMMA SumApart ==
  ASSUME NEW S, IsFiniteSet(S), NEW f, \A x \in S : f[x] \in Nat, NEW y \in S
  PROVE  Sum(f, S) = f[y] + Sum(f, S \ {y})
<1> DEFINE Apart(D) == \A z \in D : Sum(f, D) = f[z] + Sum(f, D \ {z})
           W == {D \in SUBSET S : ~Apart(D)}
<1>1. ASSUME NEW D \in W
      PROVE  \E C \in W : C \subseteq D /\ C # D
  <2> DEFINE x == CHOOSE x \in D : TRUE
  <2>1. PICK z \in D : Sum(f, D) # f[z] + Sum(f, D \ {z})
    OBVIOUS
  <2>2. ASSUME NEW C \in SUBSET S
        PROVE  IsFiniteSet(C) /\ Sum(f, C) \in Nat
    <3>1. IsFiniteSet(C) /\ \A w \in C : f[w] \in Nat
      BY FS_Subset
    <3>2. QED
      BY <3>1, SumIsNat
  <2>3. Sum(f, D) = f[x] + Sum(f, D \ {x}) /\ x \in D
    <3>1. Sum(f, D) = IF D = {} THEN 0 ELSE f[x] + Sum(f, D \ {x})
      BY <2>2, SumChoice
    <3>2. QED
      BY <2>1, <3>1
  <2> HIDE DEF x
  <2>4. x # z
    BY <2>1, <2>3
  <2>5. ASSUME Apart(D \ {x}), Apart(D \ {z})
        PROVE  FALSE
    <3>1. Sum(f, D \ {x}) = f[z] + Sum(f, (D \ {x}) \ {z})
      BY <2>4, <2>5
    <3>2. Sum(f, D \ {z}) = f[x] + Sum(f, (D \ {z}) \ {x})
      BY <2>3, <2>4, <2>5
    <3>3. (D \ {x}) \ {z} = (D \ {z}) \ {x}
      OBVIOUS
    <3>4. f[x] \in Nat /\ f[z] \in Nat /\ Sum(f, (D \ {x}) \ {z}) \in Nat
      BY <2>2, <2>3
    <3>5. PICK t \in Nat : t = Sum(f, (D \ {x}) \ {z})
      BY <3>4
    <3>6. Sum(f, D) = f[x] + (f[z] + t) /\ Sum(f, D \ {z}) = f[x] + t
      BY <2>3, <3>1, <3>2, <3>3, <3>5
    <3>7. f[x] + (f[z] + t) = f[z] + (f[x] + t)
      BY <3>4, <3>5
    <3>8. QED
      BY <2>1, <3>6, <3>7
  <2> HIDE DEF Apart
  <2>6. D \ {x} \in W \/ D \ {z} \in W
    BY <2>5
  <2>7. QED
    BY <2>1, <2>3, <2>6
<1>2. W = {}
  <2>1. W \subseteq SUBSET S
    OBVIOUS
  <2> HIDE DEF W
  <2>2. QED
    BY <1>1, <2>1, NoneMinimal
<1>3. QED
  BY <1>2

(* A sum is at most that of greater numbers.                                *)
LEMMA SumGrows ==
  ASSUME NEW S, IsFiniteSet(S), NEW f, NEW h,
         \A x \in S : f[x] \in Nat /\ h[x] \in Nat /\ f[x] <= h[x]
  PROVE  Sum(f, S) <= Sum(h, S)
<1> DEFINE W == {D \in SUBSET S : ~(Sum(f, D) <= Sum(h, D))}
<1>1. ASSUME NEW D \in W
      PROVE  \E C \in W : C \subseteq D /\ C # D
  <2>1. ASSUME NEW C \in SUBSET S
        PROVE  IsFiniteSet(C) /\ Sum(f, C) \in Nat /\ Sum(h, C) \in Nat
    <3>1. IsFiniteSet(C) /\ \A w \in C : f[w] \in Nat /\ h[w] \in Nat
      BY FS_Subset
    <3>2. QED
      BY <3>1, SumIsNat
  <2>2. D # {}
    <3>1. IsFiniteSet({})
      BY FS_EmptySet
    <3>2. Sum(f, {}) = 0 /\ Sum(h, {}) = 0
      BY <3>1, SumChoice
    <3>3. QED
      BY <3>2
  <2>3. PICK x : x \in D
    BY <2>2
  <2>4. Sum(f, D) = f[x] + Sum(f, D \ {x}) /\ Sum(h, D) = h[x] + Sum(h, D \ {x})
    <3>1. IsFiniteSet(D) /\ \A w \in D : f[w] \in Nat /\ h[w] \in Nat
      BY <2>1
    <3>2. QED
      BY <2>3, <3>1, SumApart
  <2>5. D \ {x} \in SUBSET S /\ x \in S
    BY <2>3
  <2>6. /\ Sum(f, D \ {x}) \in Nat /\ Sum(h, D \ {x}) \in Nat
        /\ f[x] \in Nat /\ h[x] \in Nat /\ f[x] <= h[x]
    BY <2>1, <2>5
  <2>7. ~(Sum(f, D \ {x}) <= Sum(h, D \ {x}))
    BY <2>4, <2>6
  <2>8. QED
    BY <2>3, <2>5, <2>7
<1>2. W = {}
  <2>1. W \subseteq SUBSET S
    OBVIOUS
  <2> HIDE DEF W
  <2>2. QED
    BY <1>1, <2>1, NoneMinimal
<1>3. QED
  BY <1>2

(* The sum of numbers that are each k more than those of f.                 *)
LEMMA SumPlus ==
  ASSUME NEW S, IsFiniteSet(S), NEW k \in Nat, NEW f, NEW h,
         \A x \in S : f[x] \in Nat /\ h[x] = k + f[x]
  PROVE  Sum(h, S) = Cardinality(S) * k + Sum(f, S)
<1> DEFINE Plus(D) == Sum(h, D) = Cardinality(D) * k + Sum(f, D)
           W == {D \in SUBSET S : ~Plus(D)}
<1>1. ASSUME NEW D \in W
      PROVE  \E C \in W : C \subseteq D /\ C # D
  <2>1. IsFiniteSet(D) /\ \A w \in D : f[w] \in Nat /\ h[w] \in Nat
    BY FS_Subset
  <2>2. D # {}
    <3>1. IsFiniteSet({}) /\ Cardinality({}) = 0
      BY FS_EmptySet
    <3>2. Sum(f, {}) = 0 /\ Sum(h, {}) = 0
      BY <3>1, SumChoice
    <3>3. 0 * k + 0 = 0
      OBVIOUS
    <3>4. Plus({})
      BY <3>1, <3>2, <3>3
    <3>5. QED
      BY <3>4
  <2>3. PICK x : x \in D
    BY <2>2
  <2> DEFINE E == D \ {x}
             m == Cardinality(E)
  <2>4. Sum(f, D) = f[x] + Sum(f, E) /\ Sum(h, D) = h[x] + Sum(h, E)
    BY <2>1, <2>3, SumApart
  <2>5. IsFiniteSet(E) /\ m \in Nat /\ Sum(f, E) \in Nat
    BY <2>1, FS_Subset, FS_CardinalityType, SumIsNat
  <2>6. Cardinality(D) = m + 1
    <3>1. D = E \cup {x} /\ x \notin E
      BY <2>3
    <3>2. QED
      BY <2>5, <3>1, FS_AddElement
  <2>7. f[x] \in Nat /\ h[x] = k + f[x]
    BY <2>3
  <2>8. ~Plus(E)
    <3>1. SUFFICES ASSUME Sum(h, E) = m * k + Sum(f, E) PROVE FALSE
      OBVIOUS
    <3>2. Sum(h, D) # Cardinality(D) * k + Sum(f, D)
      OBVIOUS
    <3> HIDE DEF m, E
    <3>3. (m + 1) * k = m * k + k /\ m * k \in Nat
      BY <2>5
    <3>4. QED
      BY <2>4, <2>5, <2>6, <2>7, <3>1, <3>2, <3>3
  <2> HIDE DEF Plus
  <2>9. QED
    BY <2>3, <2>8
<1>2. W = {}
  <2>1. W \subseteq SUBSET S
    OBVIOUS
  <2> HIDE DEF W
  <2>2. QED
    BY <1>1, <2>1, NoneMinimal
<1>3. QED
  BY <1>2

(* One more for one member is one more for the sum.                         *)
LEMMA SumOneMore ==
  ASSUME NEW S, IsFiniteSet(S), NEW f \in [S -> Nat], NEW y \in S
  PROVE  Sum([f EXCEPT ![y] = @ + 1], S) = Sum(f, S) + 1
<1> DEFINE h == [f EXCEPT ![y] = @ + 1]
           E == S \ {y}
<1>1. /\ \A x \in S : f[x] \in Nat /\ h[x] \in Nat
      /\ h[y] = f[y] + 1 /\ \A x \in E : h[x] = f[x]
  OBVIOUS
<1> HIDE DEF h
<1>2. Sum(f, S) = f[y] + Sum(f, E) /\ Sum(h, S) = h[y] + Sum(h, E)
  BY <1>1, SumApart
<1>3. IsFiniteSet(E) /\ Sum(f, E) \in Nat /\ Sum(h, E) \in Nat
  BY <1>1, FS_Subset, SumIsNat
<1>4. Sum(h, E) <= Sum(f, E) /\ Sum(f, E) <= Sum(h, E)
  <2>1. \A x \in E : /\ f[x] \in Nat /\ h[x] \in Nat
                     /\ f[x] <= h[x] /\ h[x] <= f[x]
    BY <1>1
  <2>2. QED
    BY <1>3, <2>1, SumGrows
<1>5. QED
  BY <1>1, <1>2, <1>3, <1>4 DEF h

(* The sum of nothing but zeros.                                            *)
LEMMA SumIsZero ==
  ASSUME NEW S, IsFiniteSet(S), NEW f, \A x \in S : f[x] = 0
  PROVE  Sum(f, S) = 0
<1> DEFINE W == {D \in SUBSET S : Sum(f, D) # 0}
<1>1. ASSUME NEW D \in W
      PROVE  \E C \in W : C \subseteq D /\ C # D
  <2>1. IsFiniteSet(D)
    BY FS_Subset
  <2>2. PICK x : Sum(f, D) = (IF D = {} THEN 0 ELSE f[x] + Sum(f, D \ {x})) /\ (D # {} => x \in D)
    BY <2>1, SumChoice
  <2>3. D # {} /\ x \in D /\ f[x] = 0
    BY <2>2
  <2>4. Sum(f, D \ {x}) # 0
    BY <2>2, <2>3
  <2>5. QED
    BY <2>3, <2>4
<1>2. W = {}
  <2>1. W \subseteq SUBSET S
    OBVIOUS
  <2> HIDE DEF W
  <2>2. QED
    BY <1>1, <2>1, NoneMinimal
<1>3. QED
  BY <1>2

-----------------------------------------------------------------------------
(* The bounds of the plan.                                                  *)

(* What an attempt of node n has cost, with the one it is about to make.    *)
Cost(s, n) == s.nodes[n].attempts + (IF s.nodes[n].status = "pending" THEN 1 ELSE 0)

(* A seat that passed has one more review coming when the body is done, and *)
(* one that was told of while it worked has one coming for that.            *)
SeatCost(s, i) ==
  Cost(s, i) + (IF s.phase = "body" /\ s.seats[i].outcome = "valid" THEN 1 ELSE 0)
             + (IF s.seats[i].stale THEN 1 ELSE 0)

(* The counters of the state are numbers within their limits.               *)
Numbered(g, s) ==
  /\ s.iteration \in 1..g.maxIterations /\ s.restarts \in 0..g.maxReviewRestarts
  /\ \A n \in NodesOf(g) : s.nodes[n].attempts \in Nat

(* A node that was never dispatched is pending, and its seat unasked.       *)
Fresh(g, s) ==
  /\ \A n \in NodesOf(g) : s.nodes[n].attempts = 0 => s.nodes[n].status = "pending"
  /\ \A i \in SeatsOf(g) : s.nodes[i].attempts = 0 => s.seats[i].outcome = "none"

(* The evaluator works in the body and the repair in the review, what       *)
(* passed is not asked again, and nothing is reviewed before it was made.   *)
InOrder(g, s) ==
  /\ IsOpen(s, "evaluator") => s.phase = "body"
  /\ IsOpen(s, "repair") => s.phase = "review"
  /\ \A i \in SeatsOf(g) : s.seats[i].outcome = "valid" => s.nodes[i].status = "passed"
  /\ s.phase = "review" => s.nodes["evaluator"].attempts > 0
  /\ s.nodes["evaluator"].attempts > 0 => s.nodes["generator"].attempts > 0

(* The body is asked once per round and for the retries, the repair once    *)
(* per restart and for the retries.                                         *)
LoopPaid(g, s) ==
  /\ \A n \in {"generator", "evaluator"} : Cost(s, n) <= g.retryCap + s.iteration + s.restarts
  /\ Cost(s, "repair") <= g.retryCap + 1 + s.restarts
  /\ s.nodes["repair"].attempts <= (IF g.maxReviewRestarts = 0 THEN 0 ELSE g.retryCap + g.maxReviewRestarts)

(* A seat is asked once per review, for the retries, and once more for each *)
(* time that something outside the run had it asked again.                  *)
SeatPaid(g, s, i, more) ==
  /\ SeatCost(s, i) <= g.retryCap + 1 + s.restarts + more
  /\ s.seats[i].stale => more > 0

(* o shares what was added from outside out among the seats.                *)
SeatsPaid(g, s, out) ==
  \E o \in [SeatsOf(g) -> Nat] :
    /\ Sum(o, SeatsOf(g)) <= out
    /\ \A i \in SeatsOf(g) : SeatPaid(g, s, i, o[i])

(* What the bounds need of a state.                                         *)
Budget(g, s, out) ==
  /\ Numbered(g, s) /\ Fresh(g, s) /\ InOrder(g, s)
  /\ LoopPaid(g, s) /\ SeatsPaid(g, s, out)

(* What a valid definition gives the arithmetic below.                      *)
LEMMA GraphIs ==
  ASSUME NEW g, ValidConvergence(g)
  PROVE  /\ g.retryCap \in Nat /\ g.maxReviewRestarts \in Nat
         /\ g.maxIterations \in Nat /\ g.maxIterations >= 1
         /\ g.seatConcurrency \in Nat /\ g.seatConcurrency >= 1
         /\ SeatsOf(g) \subseteq NodesOf(g) /\ {"generator", "evaluator", "repair"} \subseteq NodesOf(g)
         /\ SeatsOf(g) \cap {"generator", "evaluator", "repair"} = {}
         /\ IsFiniteSet(SeatsOf(g)) /\ Cardinality(SeatsOf(g)) = Len(g.seats) /\ Len(g.seats) \in Nat
<1>1. /\ g.retryCap \in Nat /\ g.maxReviewRestarts \in Nat
      /\ g.maxIterations \in Nat /\ g.maxIterations >= 1
      /\ g.seatConcurrency \in Nat /\ g.seatConcurrency >= 1
  BY DEF ValidConvergence
<1>2. /\ SeatsOf(g) \subseteq NodesOf(g) /\ {"generator", "evaluator", "repair"} \subseteq NodesOf(g)
      /\ SeatsOf(g) \cap {"generator", "evaluator", "repair"} = {}
  BY DEF ValidConvergence, NodesOf, LoopNodes, Writers
<1>3. PICK k \in Nat : DOMAIN g.seats = 1..k /\ Len(g.seats) = k
  BY DEF ValidConvergence
<1>4. IsFiniteSet(1..k) /\ Cardinality(1..k) = k
  <2>1. 1 \in Int /\ k \in Int
    BY <1>3
  <2>2. QED
    BY <1>3, <2>1, FS_Interval
<1>5. PICK f : f = g.seats
  OBVIOUS
<1>6. f = [j \in 1..k |-> f[j]] /\ IsInjective(f) /\ SeatsOf(g) = {f[j] : j \in 1..k}
  BY <1>3, <1>5 DEF ValidConvergence, SeatsOf, Range
<1>7. f \in Surjection(1..k, SeatsOf(g)) /\ f \in Injection(1..k, SeatsOf(g))
  <2>1. f \in [1..k -> SeatsOf(g)]
    BY <1>6
  <2>2. \A t \in SeatsOf(g) : \E j \in 1..k : f[j] = t
    BY <1>6
  <2>3. QED
    BY <1>6, <2>1, <2>2 DEF Surjection, Injection
<1>8. IsFiniteSet(SeatsOf(g)) /\ Cardinality(SeatsOf(g)) = k
  BY <1>4, <1>7, FS_Surjection
<1>9. QED
  BY <1>1, <1>2, <1>3, <1>8

(* A step that costs no seat more than it had is paid.                      *)
LEMMA SeatsKept ==
  ASSUME NEW g, NEW s, NEW t, NEW out \in Nat, NEW more \in Nat, out <= more,
         ValidConvergence(g), SeatsPaid(g, s, out),
         \A i \in SeatsOf(g), m \in Nat : SeatPaid(g, s, i, m) => SeatPaid(g, t, i, m)
  PROVE  SeatsPaid(g, t, more)
<1>1. PICK o \in [SeatsOf(g) -> Nat] :
        /\ Sum(o, SeatsOf(g)) <= out
        /\ \A i \in SeatsOf(g) : SeatPaid(g, s, i, o[i])
  BY DEF SeatsPaid
<1>2. Sum(o, SeatsOf(g)) \in Nat
  BY GraphIs, SumIsNat
<1>3. Sum(o, SeatsOf(g)) <= more
  BY <1>1, <1>2
<1>4. \A i \in SeatsOf(g) : SeatPaid(g, t, i, o[i])
  BY <1>1
<1>5. QED
  BY <1>3, <1>4 DEF SeatsPaid

(* What one seat costs more is paid from outside.                           *)
LEMMA SeatTold ==
  ASSUME NEW g, NEW s, NEW t, NEW out \in Nat, NEW j \in SeatsOf(g),
         ValidConvergence(g), SeatsPaid(g, s, out),
         \A m \in Nat : SeatPaid(g, s, j, m) => SeatPaid(g, t, j, m + 1),
         \A i \in SeatsOf(g), m \in Nat : i # j /\ SeatPaid(g, s, i, m) => SeatPaid(g, t, i, m)
  PROVE  SeatsPaid(g, t, out + 1)
<1>1. PICK o \in [SeatsOf(g) -> Nat] :
        /\ Sum(o, SeatsOf(g)) <= out
        /\ \A i \in SeatsOf(g) : SeatPaid(g, s, i, o[i])
  BY DEF SeatsPaid
<1>2. PICK p : p = [o EXCEPT ![j] = @ + 1]
  OBVIOUS
<1>3. p \in [SeatsOf(g) -> Nat] /\ p[j] = o[j] + 1 /\ \A i \in SeatsOf(g) : i # j => p[i] = o[i]
  BY <1>2
<1>4. Sum(o, SeatsOf(g)) \in Nat
  BY GraphIs, SumIsNat
<1>5. Sum(p, SeatsOf(g)) = Sum(o, SeatsOf(g)) + 1
  BY <1>2, GraphIs, SumOneMore
<1>6. Sum(p, SeatsOf(g)) <= out + 1
  BY <1>1, <1>4, <1>5
<1>7. \A i \in SeatsOf(g) : SeatPaid(g, t, i, p[i])
  BY <1>1, <1>3
<1>8. QED
  BY <1>3, <1>6, <1>7 DEF SeatsPaid

(* Attempts go on, wait or end, and nothing else changes.                   *)
Milder(g, s, t) ==
  /\ SameCounts(g, s, t) /\ t.phase = s.phase
  /\ \A n \in NodesOf(g) :
       \/ t.nodes[n].status = s.nodes[n].status
       \/ IsOpen(s, n) /\ t.nodes[n].status # "pending"
  /\ \A i \in SeatsOf(g) :
       /\ t.seats[i].stale = s.seats[i].stale
       /\ \/ t.seats[i].outcome = s.seats[i].outcome
          \/ IsOpen(s, i) /\ t.seats[i].outcome # "valid"

(* That costs nothing.                                                      *)
LEMMA MilderKeeps ==
  ASSUME NEW g, NEW s, NEW t, NEW out \in Nat, NEW more \in Nat, out <= more,
         ValidConvergence(g), Budget(g, s, out), Milder(g, s, t)
  PROVE  Budget(g, t, more)
<1> USE DEF Budget
<1>1. /\ g.retryCap \in Nat /\ g.maxReviewRestarts \in Nat /\ g.maxIterations \in Nat
      /\ SeatsOf(g) \subseteq NodesOf(g) /\ {"generator", "evaluator", "repair"} \subseteq NodesOf(g)
      /\ SeatsOf(g) \cap {"generator", "evaluator", "repair"} = {}
  BY GraphIs
<1>2. t.iteration = s.iteration /\ t.restarts = s.restarts /\ s.iteration \in Nat /\ s.restarts \in Nat
  BY <1>1 DEF Milder, SameCounts, Numbered
<1>3. ASSUME NEW n \in NodesOf(g)
      PROVE  /\ s.nodes[n].attempts \in Nat /\ t.nodes[n].attempts = s.nodes[n].attempts
             /\ Cost(t, n) \in Nat /\ Cost(s, n) \in Nat /\ Cost(t, n) <= Cost(s, n)
             /\ IsOpen(t, n) => IsOpen(s, n)
             /\ s.nodes[n].attempts = 0 => ~IsOpen(s, n) /\ t.nodes[n].status = "pending"
             /\ s.nodes[n].status = "passed" => t.nodes[n].status = "passed"
  BY DEF Milder, SameCounts, Numbered, Cost, IsOpen, Fresh
<1>4. Numbered(g, t)
  BY <1>3 DEF Milder, SameCounts, Numbered
<1>5. Fresh(g, t)
  BY <1>1, <1>3 DEF Fresh, Milder
<1>6. InOrder(g, t)
  <2>1. IsOpen(t, "evaluator") => t.phase = "body"
    BY <1>1, <1>3 DEF InOrder, Milder
  <2>2. IsOpen(t, "repair") => t.phase = "review"
    BY <1>1, <1>3 DEF InOrder, Milder
  <2>3. ASSUME NEW i \in SeatsOf(g), t.seats[i].outcome = "valid" PROVE t.nodes[i].status = "passed"
    BY <1>1, <1>3, <2>3 DEF InOrder, Milder
  <2>4. /\ t.phase = "review" => t.nodes["evaluator"].attempts > 0
        /\ t.nodes["evaluator"].attempts > 0 => t.nodes["generator"].attempts > 0
    BY <1>1, <1>3 DEF InOrder, Milder
  <2>5. QED
    BY <2>1, <2>2, <2>3, <2>4 DEF InOrder
<1>7. LoopPaid(g, t)
  <2>1. \A n \in {"generator", "evaluator"} : Cost(t, n) <= g.retryCap + t.iteration + t.restarts
    BY <1>1, <1>2, <1>3 DEF LoopPaid
  <2>2. Cost(t, "repair") <= g.retryCap + 1 + t.restarts
    BY <1>1, <1>2, <1>3 DEF LoopPaid
  <2>3. t.nodes["repair"].attempts = s.nodes["repair"].attempts
    BY <1>1, <1>3
  <2>4. QED
    BY <2>1, <2>2, <2>3 DEF LoopPaid
<1>8. SeatsPaid(g, t, more)
  <2>1. ASSUME NEW i \in SeatsOf(g), NEW m \in Nat, SeatPaid(g, s, i, m)
        PROVE  SeatPaid(g, t, i, m)
    <3>1. Cost(t, i) \in Nat /\ Cost(s, i) \in Nat /\ Cost(t, i) <= Cost(s, i)
      BY <1>1, <1>3
    <3>2. t.phase = s.phase /\ t.seats[i].stale = s.seats[i].stale
          /\ (t.seats[i].outcome = "valid" => s.seats[i].outcome = "valid")
      BY DEF Milder
    <3>3. SeatCost(t, i) <= SeatCost(s, i) /\ SeatCost(t, i) \in Nat /\ SeatCost(s, i) \in Nat
      BY <3>1, <3>2 DEF SeatCost
    <3>4. QED
      BY <1>1, <1>2, <2>1, <3>2, <3>3 DEF SeatPaid
  <2>2. QED
    BY <2>1, SeatsKept
<1>9. QED
  BY <1>4, <1>5, <1>6, <1>7, <1>8

(* The bounds of the plan are kept by what this says of the state.          *)
BInv == outside \in Nat /\ Budget(graph, state, outside)

(* A definition of a run is valid.                                          *)
LEMMA GraphIsValid ==
  ASSUME Typed
  PROVE  ValidConvergence(graph)
  BY GraphsAreValid DEF Typed

(* The receipt of a call changes no status and counts nothing.              *)
LEMMA ReceiptPaid ==
  ASSUME IInv, BInv, NEW n \in NodesOf(graph), Receipt(n)
  PROVE  BInv'
<1>1. PICK id \in Answers(n) : Record(Event("engine-attempt-recorded", Current(n), id))
  BY DEF Receipt
<1>2. At(n, "in-flight") /\ UNCHANGED <<graph, outside>>
  BY <1>1 DEF Receipt, Record
<1>3. state' = RecordEngine(graph, state, n, id)
  BY <1>1, <1>2 DEF Record, Event, Current, ConvergenceReduce, IsCurrent, At
<1>4. /\ SameCounts(graph, state, state') /\ state'.seats = state.seats /\ state'.phase = state.phase
      /\ \A m \in NodesOf(graph) : state'.nodes[m].status = state.nodes[m].status
  BY <1>2, <1>3, ReceiptKeeps DEF IInv, Keeps
<1>5. Milder(graph, state, state')
  BY <1>4 DEF Milder
<1>6. QED
  BY <1>2, <1>5, GraphIsValid, MilderKeeps DEF IInv, BInv

(* A failure ends an attempt that is counted already.                       *)
LEMMA FailPaid ==
  ASSUME IInv, BInv, NEW n \in NodesOf(graph), Fail(n)
  PROVE  BInv'
<1>1. PICK code \in Failures : Record(Event("node-failed", Current(n), code))
  BY DEF Fail
<1>2. At(n, "in-flight") /\ UNCHANGED <<graph, outside>>
  BY <1>1 DEF Fail, Record
<1>3. state' = FailNode(graph, state, n, code)
  BY <1>1, <1>2 DEF Record, Event, Current, ConvergenceReduce, IsCurrent, At
<1>4. /\ SameBut(graph, state, state', n) /\ state'.nodes[n].status = "failed"
      /\ \A i \in SeatsOf(graph) :
           /\ state'.seats[i].stale = state.seats[i].stale
           /\ state'.seats[i] = state.seats[i] \/ (i = n /\ state'.seats[i].outcome # "valid")
  BY <1>3, FailKeeps DEF IInv
<1>5. Milder(graph, state, state')
  BY <1>2, <1>4 DEF Milder, SameBut, IsOpen, At
<1>6. QED
  BY <1>2, <1>5, GraphIsValid, MilderKeeps DEF IInv, BInv

(* Nor does waiting cost anything.                                          *)
LEMMA WaitPaid ==
  ASSUME IInv, BInv, NEW n \in NodesOf(graph), Pause(n) \/ Resume(n)
  PROVE  BInv'
<1>1. /\ UNCHANGED <<graph, outside>> /\ IsOpen(state, n)
      /\ \E status \in {"in-flight", "paused"} : state' = SetStatus(state, n, status)
  BY DEF Pause, Resume, Record, Event, Current, ConvergenceReduce, IsCurrent, At, IsOpen
<1>2. PICK status \in {"in-flight", "paused"} : state' = SetStatus(state, n, status)
  BY <1>1
<1>3. /\ SameBut(graph, state, state', n) /\ state'.seats = state.seats
      /\ state'.nodes[n].status = status
  BY <1>2, StatusSet DEF IInv, Typed, NodeStatus
<1>4. Milder(graph, state, state')
  BY <1>1, <1>3 DEF Milder, SameBut
<1>5. QED
  BY <1>1, <1>4, GraphIsValid, MilderKeeps DEF IInv, BInv

(* A limit only asks the run to pause.                                      *)
LEMMA LimitPaid ==
  ASSUME IInv, BInv, Limit
  PROVE  BInv'
<1>1. /\ graph' = graph /\ outside' = outside + 1
      /\ state' = [state EXCEPT !.pauseReason = "limit"]
  BY DEF Limit, Record, Event, ConvergenceReduce
<1>2. /\ SameCounts(graph, state, state') /\ state'.nodes = state.nodes /\ state'.seats = state.seats
      /\ state'.phase = state.phase
  BY <1>1, PauseSet DEF IInv, Typed
<1>3. Milder(graph, state, state')
  BY <1>2 DEF Milder
<1>4. outside \in Nat /\ outside' \in Nat /\ outside <= outside'
  BY <1>1 DEF BInv
<1>5. QED
  BY <1>1, <1>3, <1>4, GraphIsValid, MilderKeeps DEF IInv, BInv

(* What changes of the loop is one seat that is not counted there.          *)
LEMMA LoopKept ==
  ASSUME NEW g, NEW s, NEW t, NEW j \in SeatsOf(g), ValidConvergence(g), LoopPaid(g, s), SameBut(g, s, t, j)
  PROVE  LoopPaid(g, t)
<1>1. \A n \in {"generator", "evaluator", "repair"} : n \in NodesOf(g) /\ n # j /\ t.nodes[n] = s.nodes[n]
  BY GraphIs DEF SameBut
<1>2. t.iteration = s.iteration /\ t.restarts = s.restarts
  BY DEF SameBut, SameCounts
<1>3. QED
  BY <1>1, <1>2 DEF LoopPaid, Cost

(* One seat is told that its report is out of date: it is asked once more,  *)
(* at the expense of who told it.                                           *)
LEMMA InvalidatePaid ==
  ASSUME IInv, BInv, NEW j \in NodesOf(graph), Invalidate(j)
  PROVE  BInv'
<1>1. /\ j \in SeatsOf(graph) /\ graph' = graph /\ outside' = outside + 1 /\ outside \in Nat
      /\ At(j, "in-flight") \/ state.seats[j].outcome = "valid"
      /\ state' = InvalidateSeat(state, j)
  BY DEF Invalidate, Record, Event, Current, ConvergenceReduce, BInv
<1>2. Typed /\ ValidConvergence(graph) /\ Budget(graph, state, outside)
  BY GraphIsValid DEF IInv, BInv
<1>3. PICK t : t = state'
  OBVIOUS
<1>4. /\ SameBut(graph, state, t, j)
      /\ t.seats[j].outcome = "invalid"
      /\ \/ /\ t.nodes = state.nodes /\ state.nodes[j].status = "in-flight"
            /\ t.seats[j].stale
         \/ /\ state.nodes[j].status = "passed" /\ state.seats[j].outcome = "valid"
            /\ t.nodes[j].status = "pending" /\ t.seats[j].stale = state.seats[j].stale
  <2>1. IsSeat(state.seats[j])
    BY <1>1, <1>2 DEF Typed, IsState, Budget, Numbered
  <2>2. CASE At(j, "in-flight")
    <3>1. PICK x : x = [state.seats[j] EXCEPT !.outcome = "invalid", !.stale = TRUE]
      OBVIOUS
    <3>2. IsSeat(x) /\ x.outcome = "invalid" /\ x.stale = TRUE
      BY <2>1, <3>1 DEF IsSeat, Outcomes
    <3>3. t = [state EXCEPT !.seats[j] = x]
      BY <1>1, <1>3, <1>2, <2>2, <3>1 DEF InvalidateSeat, At, Typed, IsState
    <3>4. SameBut(graph, state, t, j) /\ t.nodes = state.nodes /\ t.seats[j] = x
      <4>1. IsState(graph, state) /\ j \in SeatsOf(graph) /\ IsSeat(x)
        BY <1>1, <1>2, <3>2 DEF Typed
      <4>2. QED
        BY <3>3, <4>1, SeatSet
    <3>5. QED
      BY <2>2, <3>2, <3>4 DEF At
  <2>3. CASE ~At(j, "in-flight")
    <3>1. PICK u : u = SetStatus(state, j, "pending")
      OBVIOUS
    <3>2. /\ SameBut(graph, state, u, j) /\ u.seats = state.seats /\ u.nodes[j].status = "pending"
      BY <1>2, <3>1, StatusSet DEF Typed, NodeStatus
    <3>3. PICK x : x = Outdate(u.seats[j])
      OBVIOUS
    <3>4. IsSeat(x) /\ x.outcome = "invalid" /\ x.stale = state.seats[j].stale
      BY <2>1, <3>2, <3>3 DEF IsSeat, Outcomes, Outdate
    <3>5. t = [u EXCEPT !.seats[j] = x]
      BY <1>1, <1>3, <2>3, <3>1, <3>3 DEF InvalidateSeat, At
    <3>6. SameBut(graph, u, t, j) /\ t.nodes = u.nodes /\ t.seats[j] = x
      <4>1. IsState(graph, u) /\ j \in SeatsOf(graph) /\ IsSeat(x)
        BY <1>1, <3>2, <3>4 DEF SameBut
      <4>2. QED
        <5>1. PICK y : y = [u EXCEPT !.seats[j] = x]
          OBVIOUS
        <5>2. SameBut(graph, u, y, j) /\ y.nodes = u.nodes /\ y.seats[j] = x
          BY <4>1, <5>1, SeatSet
        <5>3. y = t
          BY <3>5, <5>1
        <5>4. QED
          BY <5>2, <5>3
    <3>7. SameBut(graph, state, t, j)
      BY <3>2, <3>6 DEF SameBut, SameCounts
    <3>8. state.seats[j].outcome = "valid" /\ state.nodes[j].status = "passed"
      BY <1>1, <1>2, <2>3 DEF Budget, InOrder
    <3>9. QED
      BY <2>1, <3>2, <3>4, <3>6, <3>7, <3>8
  <2>4. QED
    BY <2>2, <2>3
<1>5. /\ SameBut(graph, state, state', j)
      /\ state'.seats[j].outcome = "invalid"
      /\ \/ /\ state'.nodes = state.nodes /\ state.nodes[j].status = "in-flight"
            /\ state'.seats[j].stale
         \/ /\ state.nodes[j].status = "passed" /\ state.seats[j].outcome = "valid"
            /\ state'.nodes[j].status = "pending" /\ state'.seats[j].stale = state.seats[j].stale
  BY <1>3, <1>4
<1>6. /\ SeatsOf(graph) \subseteq NodesOf(graph)
      /\ SeatsOf(graph) \cap {"generator", "evaluator", "repair"} = {}
      /\ {"generator", "evaluator", "repair"} \subseteq NodesOf(graph)
      /\ graph.retryCap \in Nat /\ state.restarts \in Nat
  BY <1>2, GraphIs DEF Budget, Numbered
<1>7. /\ \A n \in NodesOf(graph) : state'.nodes[n].attempts = state.nodes[n].attempts
      /\ \A n \in NodesOf(graph) : n # j => state'.nodes[n] = state.nodes[n]
      /\ \A i \in SeatsOf(graph) : i # j => state'.seats[i] = state.seats[i]
      /\ state'.iteration = state.iteration /\ state'.restarts = state.restarts
      /\ state'.phase = state.phase
  BY <1>5 DEF SameBut, SameCounts
<1>8. Numbered(graph, state')
  BY <1>2, <1>5, <1>7 DEF Budget, Numbered
<1>9. Fresh(graph, state')
  <2>1. state.nodes[j].attempts # 0
    BY <1>1, <1>2, <1>5, <1>6 DEF Budget, Fresh
  <2>2. QED
    BY <1>2, <1>6, <1>7, <2>1 DEF Budget, Fresh
<1>10. InOrder(graph, state')
  BY <1>1, <1>2, <1>5, <1>6, <1>7 DEF Budget, InOrder, IsOpen
<1>11. LoopPaid(graph, state')
  BY <1>1, <1>2, <1>5, LoopKept DEF Budget
<1>12. ASSUME NEW m \in Nat, SeatPaid(graph, state, j, m)
       PROVE  SeatPaid(graph, state', j, m + 1)
  <2>1. state.nodes[j].attempts \in Nat
    BY <1>2 DEF Budget, Numbered
  <2>2. SeatCost(state, j) \in Nat /\ SeatCost(state', j) <= SeatCost(state, j) + 1 /\ SeatCost(state', j) \in Nat
    BY <1>5, <1>7, <2>1 DEF SeatCost, Cost
  <2>3. SeatCost(state, j) <= graph.retryCap + 1 + state.restarts + m
    BY <1>12 DEF SeatPaid
  <2>4. SeatCost(state', j) <= graph.retryCap + 1 + state'.restarts + (m + 1)
    BY <1>6, <1>7, <2>2, <2>3
  <2>5. QED
    BY <2>4 DEF SeatPaid
<1>13. ASSUME NEW i \in SeatsOf(graph), NEW m \in Nat, i # j, SeatPaid(graph, state, i, m)
       PROVE  SeatPaid(graph, state', i, m)
  BY <1>6, <1>7, <1>13 DEF SeatPaid, SeatCost, Cost
<1>14. SeatsPaid(graph, state', outside + 1)
  BY <1>1, <1>2, <1>12, <1>13, SeatTold DEF Budget
<1>15. Budget(graph, state', outside + 1)
  BY <1>8, <1>9, <1>10, <1>11, <1>14 DEF Budget
<1>16. QED
  BY <1>1, <1>15 DEF BInv

(* A seat that answers has paid for being asked again.                      *)
LEMMA SeatDone ==
  ASSUME NEW g, NEW s, NEW t, NEW out \in Nat, NEW i \in SeatsOf(g),
         ValidConvergence(g), Budget(g, s, out), SameBut(g, s, t, i),
         s.phase = "review", IsOpen(s, i), ~t.seats[i].stale,
         t.nodes[i].status = "passed" \/
           /\ t.nodes[i].status = "pending" /\ t.seats[i].outcome # "valid"
           /\ s.seats[i].stale \/ ~(s.nodes[i].attempts > g.retryCap)
  PROVE  Budget(g, t, out)
<1>1. /\ SeatsOf(g) \subseteq NodesOf(g) /\ {"generator", "evaluator", "repair"} \subseteq NodesOf(g)
      /\ SeatsOf(g) \cap {"generator", "evaluator", "repair"} = {}
      /\ g.retryCap \in Nat /\ s.restarts \in Nat
  BY GraphIs DEF Budget, Numbered
<1>2. /\ \A n \in NodesOf(g) : t.nodes[n].attempts = s.nodes[n].attempts
      /\ \A n \in NodesOf(g) : n # i => t.nodes[n] = s.nodes[n]
      /\ \A j \in SeatsOf(g) : j # i => t.seats[j] = s.seats[j]
      /\ t.iteration = s.iteration /\ t.restarts = s.restarts /\ t.phase = s.phase
  BY DEF SameBut, SameCounts
<1>3. Numbered(g, t)
  BY <1>2 DEF Budget, Numbered
<1>4. s.nodes[i].status # "pending" /\ s.nodes[i].attempts # 0 /\ s.nodes[i].attempts \in Nat
  BY <1>1 DEF Budget, Fresh, IsOpen, Numbered
<1>5. Fresh(g, t)
  BY <1>1, <1>2, <1>4 DEF Budget, Fresh
<1>6. InOrder(g, t)
  BY <1>1, <1>2 DEF Budget, InOrder, IsOpen
<1>7. LoopPaid(g, t)
  BY LoopKept DEF Budget
<1>8. ASSUME NEW m \in Nat, SeatPaid(g, s, i, m)
      PROVE  SeatPaid(g, t, i, m)
  <2>1. PICK a \in Nat : a = s.nodes[i].attempts
    BY <1>4
  <2>2. Cost(s, i) = a /\ t.nodes[i].attempts = a
    BY <1>1, <1>2, <1>4, <2>1 DEF Cost
  <2>3. SeatCost(s, i) = a + (IF s.seats[i].stale THEN 1 ELSE 0)
    BY <2>2 DEF SeatCost
  <2>4. a + (IF s.seats[i].stale THEN 1 ELSE 0) <= g.retryCap + 1 + s.restarts + m
    BY <1>8, <2>3 DEF SeatPaid
  <2>5. SeatCost(t, i) = a + (IF t.nodes[i].status = "pending" THEN 1 ELSE 0)
    BY <1>2, <2>2 DEF SeatCost, Cost
  <2>6. a + (IF t.nodes[i].status = "pending" THEN 1 ELSE 0) <= g.retryCap + 1 + s.restarts + m
    <3>1. CASE t.nodes[i].status = "passed"
      BY <1>1, <2>4, <3>1
    <3>2. CASE s.seats[i].stale
      BY <1>1, <2>4, <3>2
    <3>3. CASE ~(a > g.retryCap)
      BY <1>1, <3>3
    <3>4. QED
      BY <2>1, <3>1, <3>2, <3>3
  <2>7. QED
    BY <1>2, <2>5, <2>6 DEF SeatPaid
<1>9. \A j \in SeatsOf(g), m \in Nat : SeatPaid(g, s, j, m) => SeatPaid(g, t, j, m)
  <2>1. ASSUME NEW j \in SeatsOf(g), NEW m \in Nat, j # i, SeatPaid(g, s, j, m)
        PROVE  SeatPaid(g, t, j, m)
    BY <1>1, <1>2, <2>1 DEF SeatPaid, SeatCost, Cost
  <2>2. QED
    BY <1>8, <2>1
<1>10. SeatsPaid(g, t, out)
  <2>1. out <= out
    OBVIOUS
  <2>2. QED
    BY <1>9, <2>1, SeatsKept DEF Budget
<1>11. QED
  BY <1>3, <1>5, <1>6, <1>7, <1>10 DEF Budget

(* The result of a reviewer is paid.                                        *)
LEMMA ReviewPaid ==
  ASSUME IInv, BInv, NEW n \in NodesOf(graph), CompleteReview(n)
  PROVE  BInv'
<1>1. PICK r \in Reviews : Record(Event("node-completed", Current(n), r))
  BY DEF CompleteReview
<1>2. n \in SeatsOf(graph) /\ At(n, "in-flight") /\ UNCHANGED <<graph, outside>>
  BY <1>1 DEF CompleteReview, Record
<1>3. PICK t : t = state'
  OBVIOUS
<1>4. t = CompleteSeat(graph, state, n, r)
  <2>1. state' = CompleteNode(graph, state, n, r)
    BY <1>1, <1>2 DEF Record, Event, Current, ConvergenceReduce, IsCurrent, At
  <2>2. n \notin {"generator", "evaluator", "repair"}
    BY <1>2, GraphIsValid, GraphIs DEF IInv
  <2>3. QED
    BY <1>2, <1>3, <2>1, <2>2 DEF CompleteNode
<1>5. /\ SameBut(graph, state, t, n) /\ ~t.seats[n].stale
      /\ t.nodes[n].status = "passed" \/
           /\ t.nodes[n].status = "pending" /\ t.seats[n].outcome # "valid"
           /\ state.seats[n].stale \/ ~(state.nodes[n].attempts > graph.retryCap)
  BY <1>2, <1>4, SeatCompleted DEF IInv
<1>6. state.phase = "review" /\ IsOpen(state, n)
  BY <1>2 DEF IInv, ReviewersAlone, IsOpen, At
<1>7. Budget(graph, t, outside)
  BY <1>2, <1>5, <1>6, GraphIsValid, SeatDone DEF IInv, BInv
<1>8. QED
  BY <1>2, <1>3, <1>7 DEF BInv

(* A round of the body or of the repair is over: what is begun again is     *)
(* paid by the rounds.                                                      *)
Rounds(g, s, t) ==
  /\ \A n \in NodesOf(g) : /\ t.nodes[n].attempts = s.nodes[n].attempts
                           /\ t.nodes[n].status \in {s.nodes[n].status, "pending"}
  /\ t.iteration \in s.iteration..g.maxIterations /\ t.restarts \in s.restarts..g.maxReviewRestarts
  /\ ~IsOpen(t, "evaluator") /\ ~IsOpen(t, "repair")
  /\ t.phase = "review" => s.nodes["evaluator"].attempts > 0
  /\ \A n \in {"generator", "evaluator"} :
       Cost(t, n) + s.iteration + s.restarts <= Cost(s, n) + t.iteration + t.restarts
  /\ Cost(t, "repair") + s.restarts <= Cost(s, "repair") + t.restarts
  /\ \A i \in SeatsOf(g) :
       /\ SeatCost(t, i) + s.restarts <= SeatCost(s, i) + t.restarts
       /\ t.seats[i].stale = s.seats[i].stale
       /\ t.seats[i].outcome = "valid" => t.nodes[i].status = "passed"
       /\ s.seats[i].outcome = "none" => t.seats[i].outcome = "none"

(* That keeps the budget.                                                   *)
LEMMA RoundsPaid ==
  ASSUME NEW g, NEW s, NEW t, NEW out \in Nat, ValidConvergence(g), Budget(g, s, out), Rounds(g, s, t)
  PROVE  Budget(g, t, out)
<1>1. /\ SeatsOf(g) \subseteq NodesOf(g) /\ {"generator", "evaluator", "repair"} \subseteq NodesOf(g)
      /\ g.retryCap \in Nat /\ g.maxIterations \in Nat /\ g.maxReviewRestarts \in Nat
  BY GraphIs
<1>2. /\ s.iteration \in Nat /\ s.restarts \in Nat /\ s.iteration >= 1
      /\ \A n \in NodesOf(g) : s.nodes[n].attempts \in Nat
  BY <1>1 DEF Budget, Numbered
<1>3. /\ t.iteration \in Nat /\ t.restarts \in Nat
      /\ s.iteration <= t.iteration /\ s.restarts <= t.restarts
      /\ t.iteration <= g.maxIterations /\ t.restarts <= g.maxReviewRestarts
      /\ \A n \in NodesOf(g) : t.nodes[n].attempts = s.nodes[n].attempts
  BY <1>1, <1>2 DEF Rounds
<1>4. Numbered(g, t)
  BY <1>1, <1>2, <1>3 DEF Numbered
<1>5. Fresh(g, t)
  BY <1>1, <1>3 DEF Budget, Fresh, Rounds
<1>6. InOrder(g, t)
  BY <1>1, <1>3 DEF Budget, InOrder, Rounds
<1>7. \A n \in NodesOf(g) : Cost(s, n) \in Nat /\ Cost(t, n) \in Nat
  BY <1>2, <1>3 DEF Cost
<1>8. LoopPaid(g, t)
  <2>1. ASSUME NEW n \in {"generator", "evaluator"}
        PROVE  Cost(t, n) <= g.retryCap + t.iteration + t.restarts
    <3>1. /\ Cost(t, n) + s.iteration + s.restarts <= Cost(s, n) + t.iteration + t.restarts
          /\ Cost(s, n) <= g.retryCap + s.iteration + s.restarts
      BY DEF Budget, LoopPaid, Rounds
    <3>2. n \in NodesOf(g)
      BY <1>1
    <3>3. QED
      BY <1>1, <1>2, <1>3, <1>7, <3>1, <3>2
  <2>2. Cost(t, "repair") <= g.retryCap + 1 + t.restarts
    <3>1. /\ Cost(t, "repair") + s.restarts <= Cost(s, "repair") + t.restarts
          /\ Cost(s, "repair") <= g.retryCap + 1 + s.restarts
      BY DEF Budget, LoopPaid, Rounds
    <3>2. QED
      BY <1>1, <1>2, <1>3, <1>7, <3>1
  <2>3. t.nodes["repair"].attempts = s.nodes["repair"].attempts
    BY <1>1, <1>3
  <2>4. QED
    BY <2>1, <2>2, <2>3 DEF Budget, LoopPaid
<1>9. ASSUME NEW i \in SeatsOf(g), NEW m \in Nat, SeatPaid(g, s, i, m)
      PROVE  SeatPaid(g, t, i, m)
  <2>1. SeatCost(s, i) \in Nat /\ SeatCost(t, i) \in Nat
    BY <1>1, <1>7 DEF SeatCost
  <2>2. /\ SeatCost(t, i) + s.restarts <= SeatCost(s, i) + t.restarts
        /\ t.seats[i].stale = s.seats[i].stale
    BY DEF Rounds
  <2>3. SeatCost(s, i) <= g.retryCap + 1 + s.restarts + m
    BY <1>9 DEF SeatPaid
  <2>4. SeatCost(t, i) <= g.retryCap + 1 + t.restarts + m
    BY <1>1, <1>2, <1>3, <2>1, <2>2, <2>3
  <2>5. QED
    BY <1>9, <2>2, <2>4 DEF SeatPaid
<1>10. SeatsPaid(g, t, out)
  <2>1. out <= out
    OBVIOUS
  <2>2. QED
    BY <1>9, <2>1, SeatsKept DEF Budget
<1>11. QED
  BY <1>4, <1>5, <1>6, <1>8, <1>10 DEF Budget

(* A run that is settled asks for nothing more.                             *)
LEMMA SettlingPaid ==
  ASSUME NEW g, NEW s, IsState(g, s), NEW out \in Nat, ValidConvergence(g), Budget(g, s, out),
         ~IsOpen(s, "evaluator"), ~IsOpen(s, "repair")
  PROVE  Budget(g, [s EXCEPT !.phase = "settled"], out)
<1>1. PICK t : t = [s EXCEPT !.phase = "settled"]
  OBVIOUS
<1>2. /\ t.nodes = s.nodes /\ t.seats = s.seats /\ t.phase = "settled" /\ SameCounts(g, s, t)
  BY <1>1, PhaseSettled
<1>3. /\ SeatsOf(g) \subseteq NodesOf(g) /\ {"generator", "evaluator", "repair"} \subseteq NodesOf(g)
      /\ g.maxIterations \in Nat /\ g.maxReviewRestarts \in Nat
  BY GraphIs
<1>4. /\ s.iteration \in 1..g.maxIterations /\ s.restarts \in 0..g.maxReviewRestarts
      /\ s.iteration \in Nat /\ s.restarts \in Nat
      /\ t.iteration = s.iteration /\ t.restarts = s.restarts
      /\ \A n \in NodesOf(g) : s.nodes[n].attempts \in Nat
  BY <1>2, <1>3 DEF Budget, Numbered, SameCounts
<1>5. \A n \in NodesOf(g) : Cost(t, n) = Cost(s, n) /\ Cost(s, n) \in Nat
  BY <1>2, <1>4 DEF Cost
<1>6. ASSUME NEW i \in SeatsOf(g)
      PROVE  SeatCost(t, i) + s.restarts <= SeatCost(s, i) + t.restarts
  <2>1. PICK c \in Nat : c = Cost(s, i) /\ c = Cost(t, i)
    BY <1>3, <1>5
  <2>2. PICK x \in {0, 1} : x = (IF s.seats[i].stale THEN 1 ELSE 0)
    OBVIOUS
  <2>3. SeatCost(t, i) = c + x /\ (SeatCost(s, i) = c + x \/ SeatCost(s, i) = c + 1 + x)
    BY <1>2, <2>1, <2>2 DEF SeatCost
  <2>4. QED
    BY <1>4, <2>3
<1>7. ~IsOpen(t, "evaluator") /\ ~IsOpen(t, "repair")
  BY <1>2 DEF IsOpen
<1>8. /\ t.iteration \in s.iteration..g.maxIterations /\ t.restarts \in s.restarts..g.maxReviewRestarts
      /\ \A n \in {"generator", "evaluator"} :
           Cost(t, n) + s.iteration + s.restarts <= Cost(s, n) + t.iteration + t.restarts
      /\ Cost(t, "repair") + s.restarts <= Cost(s, "repair") + t.restarts
  BY <1>3, <1>4, <1>5
<1>9. \A i \in SeatsOf(g) : s.seats[i].outcome = "valid" => s.nodes[i].status = "passed"
  BY DEF Budget, InOrder
<1>10. Rounds(g, s, t)
  BY <1>2, <1>6, <1>7, <1>8, <1>9 DEF Rounds, SameCounts
<1>11. QED
  BY <1>1, <1>10, RoundsPaid

(* What the evaluator begins again is paid by the iteration, and the seats  *)
(* whose pass it withdraws by the round of reviews they kept it for.        *)
LEMMA EvaluatorPaid ==
  ASSUME NEW s, IsState(graph, s), NEW out \in Nat, NEW r \in Gates,
         ValidConvergence(graph), Budget(graph, s, out),
         s.phase = "body", s.nodes["evaluator"].status = "passed", s.nodes["evaluator"].attempts > 0
  PROVE  Budget(graph, CompleteEvaluator(graph, s, r), out)
<1>1. PICK t : t = CompleteEvaluator(graph, s, r)
  OBVIOUS
<1>2. /\ SeatsOf(graph) \subseteq NodesOf(graph)
      /\ {"generator", "evaluator", "repair"} \subseteq NodesOf(graph)
      /\ SeatsOf(graph) \cap {"generator", "evaluator", "repair"} = {}
      /\ graph.maxIterations \in Nat /\ graph.maxReviewRestarts \in Nat
  BY GraphIs
<1>3. /\ s.iteration \in Nat /\ s.iteration <= graph.maxIterations
      /\ s.restarts \in Nat /\ s.restarts <= graph.maxReviewRestarts
      /\ \A n \in NodesOf(graph) : s.nodes[n].attempts \in Nat
      /\ \A i \in SeatsOf(graph) : s.seats[i].outcome = "valid" => s.nodes[i].status = "passed"
      /\ ~IsOpen(s, "evaluator") /\ ~IsOpen(s, "repair")
  BY <1>2 DEF Budget, Numbered, InOrder, IsOpen
<1>4. CASE r.gateMet
  <2>1. t = EnterReview(graph, s, r.evidence)
    BY <1>1, <1>4 DEF CompleteEvaluator
  <2>2. /\ t.phase = "review" /\ SameCounts(graph, s, t)
        /\ \A m \in NodesOf(graph) : t.nodes[m].status \in {s.nodes[m].status, "pending"}
        /\ \A m \in NodesOf(graph) \ SeatsOf(graph) : t.nodes[m] = s.nodes[m]
        /\ \A i \in SeatsOf(graph) :
             /\ t.seats[i].stale = s.seats[i].stale
             /\ \/ t.seats[i] = s.seats[i] /\ t.nodes[i] = s.nodes[i]
                \/ /\ s.seats[i].outcome = "valid" /\ t.seats[i].outcome = "invalid"
                   /\ t.nodes[i].status = "pending"
    BY <2>1, ReviewEntered
  <2>3. /\ t.iteration = s.iteration /\ t.restarts = s.restarts
        /\ \A m \in NodesOf(graph) : t.nodes[m].attempts = s.nodes[m].attempts
        /\ \A m \in {"generator", "evaluator", "repair"} : t.nodes[m] = s.nodes[m]
    BY <1>2, <2>2 DEF SameCounts
  <2>4. /\ \A m \in {"generator", "evaluator", "repair"} : Cost(t, m) = Cost(s, m) /\ Cost(s, m) \in Nat
        /\ ~IsOpen(t, "evaluator") /\ ~IsOpen(t, "repair")
    BY <1>2, <1>3, <2>3 DEF Cost, IsOpen
  <2>5. ASSUME NEW i \in SeatsOf(graph)
        PROVE  /\ SeatCost(t, i) + s.restarts <= SeatCost(s, i) + t.restarts
               /\ t.seats[i].stale = s.seats[i].stale
               /\ t.seats[i].outcome = "valid" => t.nodes[i].status = "passed"
               /\ s.seats[i].outcome = "none" => t.seats[i].outcome = "none"
    <3>1. PICK a \in Nat : s.nodes[i].attempts = a /\ t.nodes[i].attempts = a
      BY <1>2, <1>3, <2>3
    <3>2. PICK x \in {0, 1} : x = (IF s.seats[i].stale THEN 1 ELSE 0) /\ t.seats[i].stale = s.seats[i].stale
      BY <2>2
    <3>3. CASE t.seats[i] = s.seats[i] /\ t.nodes[i] = s.nodes[i]
      <4>1. PICK c \in Nat : c = Cost(s, i) /\ c = Cost(t, i)
        BY <3>1, <3>3 DEF Cost
      <4>2. SeatCost(t, i) = c + x
        BY <2>2, <3>2, <4>1 DEF SeatCost
      <4>3. SeatCost(s, i) = c + x \/ SeatCost(s, i) = c + 1 + x
        BY <3>2, <4>1 DEF SeatCost
      <4>4. QED
        BY <1>3, <2>3, <3>2, <3>3, <4>2, <4>3
    <3>4. CASE /\ s.seats[i].outcome = "valid" /\ t.seats[i].outcome = "invalid"
               /\ t.nodes[i].status = "pending"
      <4>1. Cost(s, i) = a /\ Cost(t, i) = a + 1
        BY <1>3, <3>1, <3>4 DEF Cost
      <4>2. SeatCost(t, i) = a + 1 + x /\ SeatCost(s, i) = a + 1 + x
        BY <2>2, <3>2, <3>4, <4>1 DEF SeatCost
      <4>3. QED
        BY <1>3, <2>3, <3>2, <3>4, <4>2
    <3>5. QED
      BY <2>2, <3>3, <3>4
  <2>6. /\ t.iteration \in s.iteration..graph.maxIterations
        /\ t.restarts \in s.restarts..graph.maxReviewRestarts
    BY <1>2, <1>3, <2>3
  <2>7. Rounds(graph, s, t)
    BY <2>2, <2>3, <2>4, <2>5, <2>6 DEF Rounds
  <2>8. QED
    BY <1>1, <2>7, RoundsPaid
<1>5. CASE ~r.gateMet /\ s.iteration >= graph.maxIterations
  <2>1. t = [s EXCEPT !.phase = "settled"]
    BY <1>1, <1>5 DEF CompleteEvaluator
  <2>2. QED
    BY <1>1, <1>2, <1>3, <2>1, SettlingPaid
<1>6. CASE ~r.gateMet /\ ~(s.iteration >= graph.maxIterations)
  <2>1. PICK a : a = Again(s, {"generator", "evaluator"})
    OBVIOUS
  <2>2. /\ IsState(graph, a) /\ a.seats = s.seats /\ a.phase = "body" /\ SameCounts(graph, s, a)
        /\ \A m \in NodesOf(graph) :
             a.nodes[m].status = IF m \in {"generator", "evaluator"} THEN "pending" ELSE s.nodes[m].status
    BY <2>1, RoundAgain
  <2>3. t = [a EXCEPT !.evidence = r.evidence, !.iteration = @ + 1]
    BY <1>1, <1>6, <2>1 DEF CompleteEvaluator
  <2>4. /\ t.nodes = a.nodes /\ t.seats = s.seats /\ t.phase = "body"
        /\ t.iteration = s.iteration + 1 /\ t.restarts = s.restarts
        /\ \A m \in NodesOf(graph) : t.nodes[m].attempts = s.nodes[m].attempts
    BY <2>2, <2>3 DEF IsState, SameCounts
  <2>5. /\ t.iteration \in s.iteration..graph.maxIterations
        /\ t.restarts \in s.restarts..graph.maxReviewRestarts
    BY <1>2, <1>3, <1>6, <2>4
  <2>6. /\ \A m \in {"generator", "evaluator"} : t.nodes[m].status = "pending"
        /\ \A m \in NodesOf(graph) \ {"generator", "evaluator"} : t.nodes[m].status = s.nodes[m].status
    BY <1>2, <2>2, <2>4
  <2>7. ASSUME NEW m \in {"generator", "evaluator"}
        PROVE  Cost(t, m) + s.iteration + s.restarts <= Cost(s, m) + t.iteration + t.restarts
    <3>1. PICK b \in Nat : s.nodes[m].attempts = b /\ t.nodes[m].attempts = b
      BY <1>2, <1>3, <2>4
    <3>2. Cost(t, m) = b + 1 /\ (Cost(s, m) = b \/ Cost(s, m) = b + 1)
      BY <2>6, <3>1 DEF Cost
    <3>3. QED
      BY <1>3, <2>4, <3>2
  <2>8. ASSUME NEW m \in NodesOf(graph) \ {"generator", "evaluator"}
        PROVE  Cost(t, m) = Cost(s, m) /\ Cost(s, m) \in Nat
    BY <1>3, <2>4, <2>6 DEF Cost
  <2>9. Cost(t, "repair") + s.restarts <= Cost(s, "repair") + t.restarts
    BY <1>2, <1>3, <2>4, <2>8
  <2>10. ASSUME NEW i \in SeatsOf(graph)
         PROVE  /\ SeatCost(t, i) + s.restarts <= SeatCost(s, i) + t.restarts
                /\ t.seats[i].stale = s.seats[i].stale
                /\ t.seats[i].outcome = "valid" => t.nodes[i].status = "passed"
                /\ s.seats[i].outcome = "none" => t.seats[i].outcome = "none"
    <3>1. i \in NodesOf(graph) \ {"generator", "evaluator"}
      BY <1>2
    <3>2. PICK c \in Nat : c = Cost(s, i) /\ c = Cost(t, i)
      BY <2>8, <3>1
    <3>3. SeatCost(t, i) = SeatCost(s, i) /\ SeatCost(s, i) \in Nat
      BY <2>4, <3>2 DEF SeatCost
    <3>4. QED
      BY <1>3, <2>4, <2>6, <3>1, <3>3
  <2>11. ~IsOpen(t, "evaluator") /\ ~IsOpen(t, "repair")
    BY <1>2, <1>3, <2>6 DEF IsOpen
  <2>12. Rounds(graph, s, t)
    BY <1>2, <1>3, <2>2, <2>4, <2>5, <2>6, <2>7, <2>9, <2>10, <2>11 DEF Rounds
  <2>13. QED
    BY <1>1, <2>12, RoundsPaid
<1>7. QED
  BY <1>4, <1>5, <1>6, GatesAreDecisions

(* What a repair begins again is paid by the restart.                       *)
LEMMA RepairPaid ==
  ASSUME NEW s, IsState(graph, s), NEW out \in Nat,
         ValidConvergence(graph), Budget(graph, s, out),
         s.phase = "review", s.nodes["repair"].status = "passed"
  PROVE  Budget(graph, CompleteRepair(graph, s), out)
<1>1. PICK t : t = CompleteRepair(graph, s)
  OBVIOUS
<1>2. /\ SeatsOf(graph) \subseteq NodesOf(graph)
      /\ {"generator", "evaluator", "repair"} \subseteq NodesOf(graph)
      /\ SeatsOf(graph) \cap {"generator", "evaluator", "repair"} = {}
      /\ graph.maxIterations \in Nat /\ graph.maxReviewRestarts \in Nat
  BY GraphIs
<1>3. /\ s.iteration \in Nat /\ s.iteration <= graph.maxIterations
      /\ s.restarts \in Nat /\ s.restarts <= graph.maxReviewRestarts
      /\ \A n \in NodesOf(graph) : s.nodes[n].attempts \in Nat
      /\ \A i \in SeatsOf(graph) : s.seats[i].outcome = "valid" => s.nodes[i].status = "passed"
      /\ ~IsOpen(s, "evaluator") /\ ~IsOpen(s, "repair")
  BY <1>2 DEF Budget, Numbered, InOrder, IsOpen
<1>4. CASE s.restarts >= graph.maxReviewRestarts
  <2>1. t = [s EXCEPT !.phase = "settled"]
    BY <1>1, <1>4 DEF CompleteRepair
  <2>2. QED
    BY <1>1, <1>2, <1>3, <2>1, SettlingPaid
<1>5. CASE ~(s.restarts >= graph.maxReviewRestarts)
  <2>1. PICK ns : ns = LoopNodes \cup {i \in SeatsOf(graph) : s.seats[i].outcome # "valid"}
    OBVIOUS
  <2>2. PICK a : a = Again(s, ns)
    OBVIOUS
  <2>3. /\ IsState(graph, a) /\ a.seats = s.seats /\ a.phase = "body" /\ SameCounts(graph, s, a)
        /\ \A m \in NodesOf(graph) :
             a.nodes[m].status = IF m \in ns THEN "pending" ELSE s.nodes[m].status
    BY <2>2, RoundAgain
  <2>4. PICK next : next = IF s.iteration + 1 > graph.maxIterations THEN s.iteration ELSE s.iteration + 1
    OBVIOUS
  <2>5. t = [a EXCEPT !.restarts = s.restarts + 1, !.iteration = next]
    BY <1>1, <1>5, <2>1, <2>2, <2>3, <2>4 DEF CompleteRepair, IsState, SameCounts
  <2>6. /\ t.nodes = a.nodes /\ t.seats = s.seats /\ t.phase = "body"
        /\ t.iteration = next /\ t.restarts = s.restarts + 1
        /\ \A m \in NodesOf(graph) : t.nodes[m].attempts = s.nodes[m].attempts
    BY <2>3, <2>5 DEF IsState, SameCounts
  <2>7. /\ t.iteration \in s.iteration..graph.maxIterations
        /\ t.restarts \in s.restarts..graph.maxReviewRestarts
        /\ t.iteration \in Nat /\ s.iteration <= t.iteration
    BY <1>2, <1>3, <1>5, <2>4, <2>6
  <2>8. /\ \A m \in {"generator", "evaluator", "repair"} : t.nodes[m].status = "pending"
        /\ \A m \in NodesOf(graph) : t.nodes[m].status \in {s.nodes[m].status, "pending"}
        /\ \A i \in SeatsOf(graph) :
             s.seats[i].outcome = "valid" => t.nodes[i].status = s.nodes[i].status
    BY <1>2, <2>1, <2>3, <2>6 DEF LoopNodes, Writers
  <2>9. ASSUME NEW m \in NodesOf(graph)
        PROVE  /\ Cost(t, m) \in Nat /\ Cost(s, m) \in Nat /\ Cost(t, m) <= Cost(s, m) + 1
    BY <1>3, <2>6 DEF Cost
  <2>10. /\ \A m \in {"generator", "evaluator"} :
              Cost(t, m) + s.iteration + s.restarts <= Cost(s, m) + t.iteration + t.restarts
         /\ Cost(t, "repair") + s.restarts <= Cost(s, "repair") + t.restarts
    BY <1>2, <1>3, <2>6, <2>7, <2>9
  <2>11. ASSUME NEW i \in SeatsOf(graph)
         PROVE  /\ SeatCost(t, i) + s.restarts <= SeatCost(s, i) + t.restarts
                /\ t.seats[i].stale = s.seats[i].stale
                /\ t.seats[i].outcome = "valid" => t.nodes[i].status = "passed"
                /\ s.seats[i].outcome = "none" => t.seats[i].outcome = "none"
    <3>1. PICK x \in {0, 1} : x = (IF s.seats[i].stale THEN 1 ELSE 0)
      OBVIOUS
    <3>2. PICK c \in Nat : c = Cost(s, i)
      BY <1>2, <2>9
    <3>3. SeatCost(s, i) = c + x
      BY <3>1, <3>2 DEF SeatCost
    <3>4. SeatCost(t, i) <= c + x + 1 /\ SeatCost(t, i) \in Nat
      <4>1. CASE s.seats[i].outcome = "valid"
        <5>1. Cost(t, i) = c
          BY <1>2, <2>6, <2>8, <3>2, <4>1 DEF Cost
        <5>2. SeatCost(t, i) = c + 1 + x
          BY <2>6, <3>1, <4>1, <5>1 DEF SeatCost
        <5>3. QED
          BY <5>2
      <4>2. CASE s.seats[i].outcome # "valid"
        <5>1. PICK d \in Nat : d = Cost(t, i) /\ d <= c + 1
          BY <1>2, <2>9, <3>2
        <5>2. SeatCost(t, i) = d + x
          BY <2>6, <3>1, <4>2, <5>1 DEF SeatCost
        <5>3. QED
          BY <5>1, <5>2
      <4>3. QED
        BY <4>1, <4>2
    <3>5. QED
      BY <1>3, <2>6, <2>8, <3>3, <3>4
  <2>12. ~IsOpen(t, "evaluator") /\ ~IsOpen(t, "repair")
    BY <2>8 DEF IsOpen
  <2>13. Rounds(graph, s, t)
    BY <2>6, <2>7, <2>8, <2>10, <2>11, <2>12 DEF Rounds
  <2>14. QED
    BY <1>1, <2>13, RoundsPaid
<1>6. QED
  BY <1>4, <1>5

(* The result of a node of the loop is paid.                                *)
LEMMA LoopDonePaid ==
  ASSUME IInv, BInv, NEW n \in NodesOf(graph), CompleteLoop(n)
  PROVE  BInv'
<1>1. PICK r \in Gates : Record(Event("node-completed", Current(n), r))
  BY DEF CompleteLoop
<1>2. n \in LoopNodes /\ At(n, "in-flight") /\ UNCHANGED <<graph, outside>>
  BY <1>1 DEF CompleteLoop, Record
<1>3. PICK t : t = state'
  OBVIOUS
<1>4. t = CompleteNode(graph, state, n, r)
  BY <1>1, <1>2, <1>3 DEF Record, Event, Current, ConvergenceReduce, IsCurrent, At
<1>5. IsOpen(state, n) /\ n \notin SeatsOf(graph) /\ n \in {"generator", "evaluator", "repair"}
  BY <1>2, SeatsAreNoLoopNodes DEF IInv, Typed, IsOpen, At, LoopNodes, Writers
<1>6. PICK p : p = Settle(state, n, "passed")
  OBVIOUS
<1>7. /\ SameBut(graph, state, p, n) /\ p.seats = state.seats /\ p.nodes[n].status = "passed"
  BY <1>6, Settled DEF IInv, Typed, NodeStatus
<1>8. /\ IsState(graph, p) /\ p.phase = state.phase
      /\ p.nodes["evaluator"].attempts = state.nodes["evaluator"].attempts
      /\ ValidConvergence(graph) /\ outside \in Nat /\ outside <= outside /\ Budget(graph, state, outside)
  BY <1>7, GraphIsValid, GraphIs DEF SameBut, SameCounts, IInv, BInv
<1>9. Budget(graph, p, outside)
  <2>1. Milder(graph, state, p)
    BY <1>5, <1>7 DEF Milder, SameBut
  <2>2. QED
    BY <1>8, <2>1, MilderKeeps
<1>10. Budget(graph, t, outside)
  <2>1. CASE n = "generator"
    BY <1>4, <1>5, <1>6, <1>9, <2>1 DEF CompleteNode
  <2>2. CASE n = "evaluator"
    <3>1. t = CompleteEvaluator(graph, p, r)
      BY <1>4, <1>5, <1>6, <2>2 DEF CompleteNode
    <3>2. /\ state.phase = "body" /\ state.nodes["evaluator"].attempts \in Nat
          /\ state.nodes["evaluator"].attempts # 0
      BY <1>5, <1>8, <2>2 DEF Budget, InOrder, Fresh, IsOpen, Numbered
    <3>3. p.phase = "body" /\ p.nodes["evaluator"].attempts > 0
      BY <1>8, <3>2
    <3>4. p.nodes["evaluator"].status = "passed"
      BY <1>7, <2>2
    <3>5. QED
      BY <1>8, <1>9, <3>1, <3>3, <3>4, EvaluatorPaid
  <2>3. CASE n = "repair"
    <3>1. t = CompleteRepair(graph, p)
      BY <1>4, <1>5, <1>6, <2>3 DEF CompleteNode
    <3>2. state.phase = "review"
      BY <1>5, <1>8, <2>3 DEF Budget, InOrder
    <3>3. p.phase = "review" /\ p.nodes["repair"].status = "passed"
      BY <1>7, <1>8, <2>3, <3>2
    <3>4. QED
      BY <1>8, <1>9, <3>1, <3>3, RepairPaid
  <2>4. QED
    BY <1>5, <2>1, <2>2, <2>3
<1>11. QED
  BY <1>2, <1>3, <1>8, <1>10 DEF BInv

(* What may be asked for: nodes that have an attempt left, in their phase,  *)
(* while nothing is open.                                                   *)
MayAsk(g, s, ns) ==
  /\ \A m \in NodesOf(g) : ~IsOpen(s, m)
  /\ \A n \in ns : Ready(s, n) /\ ~Spent(g, s, n)
  /\ \/ s.phase = "body" /\ ns = {"generator"}
     \/ s.phase = "body" /\ ns = {"evaluator"} /\ ~Ready(s, "generator")
     \/ /\ s.phase = "review" /\ ns \subseteq SeatsOf(g)
        /\ \A i \in ns : s.seats[i].outcome # "valid"
     \/ s.phase = "review" /\ ns = {"repair"} /\ s.restarts < g.maxReviewRestarts

(* What is asked for may be asked for, and is no more than a panel.         *)
LEMMA Asked ==
  ASSUME Typed, Decision.kind = "dispatch", Decision.positions # {},
         state.restarts \in Nat, graph.maxReviewRestarts \in Nat
  PROVE  \E ns : /\ Decision = Dispatch(state, ns) /\ MayAsk(graph, state, ns)
                 /\ ns = Panel(graph, state) \/ \E n : ns = {n}
<1>1. /\ \A ns : Dispatch(state, ns).kind = "dispatch"
      /\ Dispatch(state, {}).positions = {}
      /\ \A kind, code : Finish(kind, code).kind = kind
  BY DEF Dispatch, Finish
<1>2. state.phase \in {"body", "review", "settled"} /\ DOMAIN state.nodes = NodesOf(graph)
  BY DEF Typed, IsState
<1>3. /\ InStatus(state, "in-flight") = {} /\ InStatus(state, "paused") = {}
      /\ FailedLoop(graph, state) = {}
      /\ \/ state.phase = "body" /\ Decision = DecideBody(state)
         \/ state.phase = "review" /\ Decision = DecideReview(graph, state)
  BY <1>1, <1>2 DEF Decision, ConvergenceDecide
<1>4. \A m \in NodesOf(graph) : ~IsOpen(state, m)
  BY <1>2, <1>3 DEF InStatus, IsOpen
<1>5. /\ \A n \in LoopNodes : ~Spent(graph, state, n)
      /\ {"generator", "evaluator", "repair"} = LoopNodes
  BY <1>3 DEF FailedLoop, LoopNodes, Writers
<1>6. CASE state.phase = "body"
  <2>1. Decision = DecideBody(state)
    BY <1>3, <1>6
  <2>2. \/ Decision = Dispatch(state, {"generator"}) /\ Ready(state, "generator")
        \/ /\ Decision = Dispatch(state, {"evaluator"})
           /\ Ready(state, "evaluator") /\ ~Ready(state, "generator")
    BY <1>1, <2>1 DEF DecideBody
  <2>3. CASE Decision = Dispatch(state, {"generator"}) /\ Ready(state, "generator")
    <3>1. MayAsk(graph, state, {"generator"})
      BY <1>4, <1>5, <1>6, <2>3 DEF MayAsk
    <3>2. QED
      BY <2>3, <3>1
  <2>4. CASE /\ Decision = Dispatch(state, {"evaluator"})
             /\ Ready(state, "evaluator") /\ ~Ready(state, "generator")
    <3>1. MayAsk(graph, state, {"evaluator"})
      BY <1>4, <1>5, <1>6, <2>4 DEF MayAsk
    <3>2. QED
      BY <2>4, <3>1
  <2>5. QED
    BY <2>2, <2>3, <2>4
<1>7. CASE state.phase = "review"
  <2>1. Decision = DecideReview(graph, state)
    BY <1>3, <1>7
  <2>2. \/ Decision = Dispatch(state, Panel(graph, state))
        \/ Decision = Conclude(graph, state)
    BY <1>1, <2>1 DEF DecideReview
  <2>3. CASE Decision = Dispatch(state, Panel(graph, state))
    <3>1. \A i \in Panel(graph, state) :
            /\ i \in SeatsOf(graph) /\ Ready(state, i) /\ ~Spent(graph, state, i)
            /\ state.seats[i].outcome # "valid"
      BY DEF Panel, Fits, SeatsOf, Range
    <3>2. MayAsk(graph, state, Panel(graph, state))
      BY <1>4, <1>7, <3>1 DEF MayAsk
    <3>3. QED
      BY <2>3, <3>2
  <2>4. CASE Decision = Conclude(graph, state)
    <3>1. /\ Decision = Dispatch(state, {"repair"}) /\ Ready(state, "repair")
          /\ ~(state.restarts >= graph.maxReviewRestarts)
      BY <1>1, <2>4 DEF Conclude
    <3>2. MayAsk(graph, state, {"repair"})
      BY <1>4, <1>5, <1>7, <3>1 DEF MayAsk
    <3>3. QED
      BY <3>1, <3>2
  <2>5. QED
    BY <2>2, <2>3, <2>4
<1>8. QED
  BY <1>3, <1>6, <1>7

(* What is begun is begun once.                                             *)
Begins(g, s, t, ns) ==
  /\ \A n \in NodesOf(g) \cap ns :
       t.nodes[n].status = "in-flight" /\ t.nodes[n].attempts = s.nodes[n].attempts + 1
  /\ \A n \in NodesOf(g) \ ns : t.nodes[n] = s.nodes[n]
  /\ t.seats = s.seats /\ t.phase = s.phase
  /\ t.iteration = s.iteration /\ t.restarts = s.restarts

(* A decision that is recorded begins what it asks for.                     *)
LEMMA DispatchBegins ==
  ASSUME Typed, RecordDispatch, NEW ns, Decision = Dispatch(state, ns), MayAsk(graph, state, ns)
  PROVE  Begins(graph, state, state', ns)
<1>1. ASSUME NEW n
      PROVE  (\E p \in Decision.positions : p[1] = n) <=> n \in ns
  <2>1. Decision.positions = {<<m, state.nodes[m].attempts + 1>> : m \in ns}
    BY DEF Dispatch
  <2>2. n \in ns => \E p \in Decision.positions : p[1] = n
    <3>1. SUFFICES ASSUME n \in ns PROVE \E p \in Decision.positions : p[1] = n
      OBVIOUS
    <3>2. <<n, state.nodes[n].attempts + 1>> \in Decision.positions
      BY <2>1, <3>1
    <3>3. <<n, state.nodes[n].attempts + 1>>[1] = n
      OBVIOUS
    <3>4. QED
      BY <3>2, <3>3
  <2>3. \A p \in Decision.positions : p[1] \in ns
    BY <2>1
  <2>4. QED
    BY <2>2, <2>3
<1>2. /\ state'.phase = state.phase /\ state'.seats = state.seats
      /\ state'.iteration = state.iteration /\ state'.restarts = state.restarts
      /\ state'.nodes = [n \in NodesOf(graph) |->
           IF \E p \in Decision.positions : p[1] = n
           THEN DispatchNode(state, n, state.nodes[n].attempts + 1).nodes[n] ELSE state.nodes[n]]
  BY DEF RecordDispatch, Typed, IsState
<1>3. ASSUME NEW n \in NodesOf(graph), n \in ns
      PROVE  /\ state'.nodes[n].status = "in-flight"
             /\ state'.nodes[n].attempts = state.nodes[n].attempts + 1
  <2>1. state.nodes[n].status \in {"pending", "failed"} /\ n \in DOMAIN state.nodes
    BY <1>3 DEF MayAsk, Ready, Typed, IsState
  <2>2. PICK y : y = [status |-> "in-flight", attempts |-> state.nodes[n].attempts + 1, by |-> Unknown]
    OBVIOUS
  <2>3. DispatchNode(state, n, state.nodes[n].attempts + 1).nodes[n] = y
    BY <2>1, <2>2 DEF DispatchNode, Typed, IsState
  <2>4. state'.nodes[n] = DispatchNode(state, n, state.nodes[n].attempts + 1).nodes[n]
    BY <1>1, <1>2, <1>3
  <2>5. y.status = "in-flight" /\ y.attempts = state.nodes[n].attempts + 1
    BY <2>2
  <2>6. QED
    BY <2>3, <2>4, <2>5
<1>4. \A n \in NodesOf(graph) \ ns : state'.nodes[n] = state.nodes[n]
  BY <1>1, <1>2
<1>5. QED
  BY <1>2, <1>3, <1>4 DEF Begins

(* What is begun has been paid for, or is a retry.                          *)
LEMMA BeginningPaid ==
  ASSUME NEW g, NEW s, NEW t, NEW ns, NEW out \in Nat, IsState(g, s),
         ValidConvergence(g), Budget(g, s, out), MayAsk(g, s, ns), Begins(g, s, t, ns)
  PROVE  Budget(g, t, out)
<1>1. /\ SeatsOf(g) \subseteq NodesOf(g) /\ {"generator", "evaluator", "repair"} \subseteq NodesOf(g)
      /\ SeatsOf(g) \cap {"generator", "evaluator", "repair"} = {}
      /\ g.retryCap \in Nat /\ g.maxIterations \in Nat /\ g.maxReviewRestarts \in Nat
  BY GraphIs
<1>2. /\ s.iteration \in Nat /\ s.restarts \in Nat /\ s.iteration >= 1
      /\ \A n \in NodesOf(g) : s.nodes[n].attempts \in Nat
      /\ t.iteration = s.iteration /\ t.restarts = s.restarts /\ t.phase = s.phase
      /\ t.seats = s.seats
  BY <1>1 DEF Budget, Numbered, Begins
<1>3. ns \subseteq NodesOf(g)
  BY <1>1 DEF MayAsk
<1>4. ASSUME NEW n \in NodesOf(g)
      PROVE  /\ t.nodes[n].attempts \in Nat /\ Cost(t, n) \in Nat /\ Cost(s, n) \in Nat
             /\ n \notin ns => t.nodes[n] = s.nodes[n] /\ ~IsOpen(t, n) /\ Cost(t, n) = Cost(s, n)
             /\ n \in ns => /\ t.nodes[n].attempts = s.nodes[n].attempts + 1
                            /\ t.nodes[n].status = "in-flight" /\ Cost(t, n) = t.nodes[n].attempts
                            /\ Cost(t, n) = Cost(s, n) \/ Cost(t, n) <= g.retryCap + 1
  <2>1. PICK a \in Nat : a = s.nodes[n].attempts
    BY <1>2
  <2>2. CASE n \notin ns
    <3>1. t.nodes[n] = s.nodes[n] /\ ~IsOpen(s, n)
      BY <2>2 DEF Begins, MayAsk
    <3>2. QED
      BY <2>1, <2>2, <3>1 DEF Cost, IsOpen
  <2>3. CASE n \in ns
    <3>1. t.nodes[n].attempts = a + 1 /\ t.nodes[n].status = "in-flight"
      BY <2>1, <2>3 DEF Begins
    <3>2. Cost(t, n) = a + 1
      BY <3>1 DEF Cost
    <3>3. s.nodes[n].status = "pending" \/ a <= g.retryCap
      BY <1>1, <2>1, <2>3 DEF MayAsk, Ready, Spent
    <3>4. Cost(s, n) \in Nat /\ (s.nodes[n].status = "pending" => Cost(s, n) = a + 1)
      BY <2>1 DEF Cost
    <3>5. QED
      BY <1>1, <2>1, <2>3, <3>1, <3>2, <3>3, <3>4
  <2>4. QED
    BY <2>2, <2>3
<1>5. Numbered(g, t)
  BY <1>2, <1>4 DEF Budget, Numbered
<1>6. Fresh(g, t)
  <2>1. \A n \in NodesOf(g) : t.nodes[n].attempts = 0 => t.nodes[n] = s.nodes[n]
    BY <1>2, <1>4
  <2>2. QED
    BY <1>1, <1>2, <2>1 DEF Budget, Fresh
<1>7. InOrder(g, t)
  <2>1. /\ IsOpen(t, "evaluator") => t.phase = "body"
        /\ IsOpen(t, "repair") => t.phase = "review"
    BY <1>1, <1>2, <1>4 DEF MayAsk
  <2>2. ASSUME NEW i \in SeatsOf(g), t.seats[i].outcome = "valid"
        PROVE  t.nodes[i].status = "passed"
    <3>1. i \notin ns
      BY <1>1, <1>2, <2>2 DEF MayAsk
    <3>2. QED
      BY <1>1, <1>2, <1>4, <2>2, <3>1 DEF Budget, InOrder
  <2>3. \A n \in NodesOf(g) : s.nodes[n].attempts > 0 => t.nodes[n].attempts > 0
    BY <1>2, <1>4
  <2>4. t.phase = "review" => t.nodes["evaluator"].attempts > 0
    BY <1>1, <1>2, <2>3 DEF Budget, InOrder
  <2>5. t.nodes["evaluator"].attempts > 0 => t.nodes["generator"].attempts > 0
    <3>1. CASE "evaluator" \in ns
      <4>1. ~Ready(s, "generator") /\ ~IsOpen(s, "generator")
        BY <1>1, <3>1 DEF MayAsk
      <4>2. s.nodes["generator"].status # "pending"
        BY <4>1 DEF Ready
      <4>3. s.nodes["generator"].attempts # 0
        BY <1>1, <4>2 DEF Budget, Fresh
      <4>4. s.nodes["generator"].attempts > 0
        BY <1>1, <1>2, <4>3
      <4>5. QED
        BY <1>1, <2>3, <4>4
    <3>2. CASE "evaluator" \notin ns
      BY <1>1, <1>4, <2>3, <3>2 DEF Budget, InOrder
    <3>3. QED
      BY <3>1, <3>2
  <2>6. QED
    BY <2>1, <2>2, <2>4, <2>5 DEF InOrder
<1>8. LoopPaid(g, t)
  <2>1. ASSUME NEW n \in {"generator", "evaluator"}
        PROVE  Cost(t, n) <= g.retryCap + t.iteration + t.restarts
    <3>1. Cost(s, n) <= g.retryCap + s.iteration + s.restarts
      BY DEF Budget, LoopPaid
    <3>2. /\ Cost(t, n) \in Nat /\ Cost(s, n) \in Nat
          /\ Cost(t, n) = Cost(s, n) \/ Cost(t, n) <= g.retryCap + 1
      BY <1>1, <1>4
    <3>3. QED
      BY <1>1, <1>2, <3>1, <3>2
  <2>2. Cost(t, "repair") <= g.retryCap + 1 + t.restarts
    <3>1. Cost(s, "repair") <= g.retryCap + 1 + s.restarts
      BY DEF Budget, LoopPaid
    <3>2. /\ Cost(t, "repair") \in Nat /\ Cost(s, "repair") \in Nat
          /\ Cost(t, "repair") = Cost(s, "repair") \/ Cost(t, "repair") <= g.retryCap + 1
      BY <1>1, <1>4
    <3>3. QED
      BY <1>1, <1>2, <3>1, <3>2
  <2>3. t.nodes["repair"].attempts <=
          (IF g.maxReviewRestarts = 0 THEN 0 ELSE g.retryCap + g.maxReviewRestarts)
    <3>1. CASE "repair" \notin ns
      BY <1>1, <1>4, <3>1 DEF Budget, LoopPaid
    <3>2. CASE "repair" \in ns
      <4>1. s.restarts < g.maxReviewRestarts
        BY <1>1, <3>2 DEF MayAsk
      <4>2. /\ Cost(t, "repair") = t.nodes["repair"].attempts
            /\ Cost(t, "repair") \in Nat /\ Cost(s, "repair") \in Nat
            /\ Cost(t, "repair") = Cost(s, "repair") \/ Cost(t, "repair") <= g.retryCap + 1
        BY <1>1, <1>4, <3>2
      <4>3. Cost(s, "repair") <= g.retryCap + 1 + s.restarts
        BY DEF Budget, LoopPaid
      <4>4. QED
        BY <1>1, <1>2, <4>1, <4>2, <4>3
    <3>3. QED
      BY <3>1, <3>2
  <2>4. QED
    BY <2>1, <2>2, <2>3 DEF LoopPaid
<1>9. ASSUME NEW i \in SeatsOf(g), NEW m \in Nat, SeatPaid(g, s, i, m)
      PROVE  SeatPaid(g, t, i, m)
  <2>1. CASE Cost(t, i) = Cost(s, i)
    BY <1>2, <1>9, <2>1 DEF SeatPaid, SeatCost
  <2>2. CASE Cost(t, i) # Cost(s, i)
    <3>1. i \in ns /\ Cost(t, i) \in Nat /\ Cost(t, i) <= g.retryCap + 1
      BY <1>1, <1>4, <2>2
    <3>2. t.phase = "review"
      BY <1>1, <1>2, <3>1 DEF MayAsk
    <3>3. PICK c \in Nat : c = Cost(t, i)
      BY <3>1
    <3>4. SeatCost(t, i) = c + (IF t.seats[i].stale THEN 1 ELSE 0)
      BY <3>2, <3>3 DEF SeatCost
    <3>5. t.seats[i].stale => m > 0
      BY <1>2, <1>9 DEF SeatPaid
    <3>6. c + (IF t.seats[i].stale THEN 1 ELSE 0) <= g.retryCap + 1 + t.restarts + m
      BY <1>1, <1>2, <3>1, <3>3, <3>5
    <3>7. QED
      BY <3>4, <3>5, <3>6 DEF SeatPaid
  <2>3. QED
    BY <2>1, <2>2
<1>10. SeatsPaid(g, t, out)
  <2>1. out <= out
    OBVIOUS
  <2>2. QED
    BY <1>9, <2>1, SeatsKept DEF Budget
<1>11. QED
  BY <1>5, <1>6, <1>7, <1>8, <1>10 DEF Budget

(* What is dispatched is paid.                                              *)
LEMMA DispatchPaid ==
  ASSUME IInv, BInv, RecordDispatch
  PROVE  BInv'
<1>1. UNCHANGED <<graph, outside>> /\ Decision.kind = "dispatch" /\ Decision.positions # {}
  BY DEF RecordDispatch
<1>2. /\ Typed /\ IsState(graph, state) /\ ValidConvergence(graph)
      /\ outside \in Nat /\ Budget(graph, state, outside)
  BY GraphIsValid DEF IInv, BInv, Typed
<1>3. graph.maxReviewRestarts \in Nat /\ state.restarts \in Nat
  BY <1>2, GraphIs DEF Budget, Numbered
<1>4. PICK ns : Decision = Dispatch(state, ns) /\ MayAsk(graph, state, ns)
  BY <1>1, <1>2, <1>3, Asked
<1>5. PICK t : t = state'
  OBVIOUS
<1>6. Begins(graph, state, t, ns)
  BY <1>2, <1>4, <1>5, DispatchBegins
<1>7. Budget(graph, t, outside)
  BY <1>2, <1>4, <1>6, BeginningPaid
<1>8. QED
  BY <1>1, <1>2, <1>5, <1>7 DEF BInv

(* A run begins with nothing spent.                                         *)
LEMMA InitPaid == Init => BInv
<1> SUFFICES ASSUME Init PROVE BInv
  OBVIOUS
<1>1. ValidConvergence(graph) /\ outside = 0
  BY GraphsAreValid DEF Init
<1>2. /\ SeatsOf(graph) \subseteq NodesOf(graph)
      /\ {"generator", "evaluator", "repair"} \subseteq NodesOf(graph)
      /\ graph.retryCap \in Nat /\ graph.maxIterations \in Nat /\ graph.maxIterations >= 1
      /\ graph.maxReviewRestarts \in Nat /\ IsFiniteSet(SeatsOf(graph))
  BY <1>1, GraphIs
<1>3. /\ state.phase = "body" /\ state.iteration = 1 /\ state.restarts = 0
      /\ \A n \in NodesOf(graph) : state.nodes[n].status = "pending" /\ state.nodes[n].attempts = 0
      /\ \A i \in SeatsOf(graph) : state.seats[i].outcome = "none" /\ ~state.seats[i].stale
  BY DEF Init, ConvergenceInitialState, NoVerdict
<1>4. \A n \in NodesOf(graph) : Cost(state, n) = 1
  BY <1>3 DEF Cost
<1>5. Numbered(graph, state) /\ Fresh(graph, state) /\ InOrder(graph, state)
  BY <1>2, <1>3 DEF Numbered, Fresh, InOrder, IsOpen
<1>6. LoopPaid(graph, state)
  BY <1>2, <1>3, <1>4 DEF LoopPaid
<1>7. SeatsPaid(graph, state, 0)
  <2>1. PICK o : o = [i \in SeatsOf(graph) |-> 0]
    OBVIOUS
  <2>2. o \in [SeatsOf(graph) -> Nat] /\ \A i \in SeatsOf(graph) : o[i] = 0
    BY <2>1
  <2>3. Sum(o, SeatsOf(graph)) = 0
    BY <1>2, <2>2, SumIsZero
  <2>4. \A i \in SeatsOf(graph) : SeatPaid(graph, state, i, o[i])
    BY <1>2, <1>3, <1>4, <2>2 DEF SeatPaid, SeatCost
  <2>5. QED
    BY <2>2, <2>3, <2>4 DEF SeatsPaid
<1>8. QED
  BY <1>1, <1>5, <1>6, <1>7 DEF BInv, Budget

(* Every step is paid.                                                      *)
LEMMA NextPaid == IInv /\ BInv /\ [Next]_vars => BInv'
<1> SUFFICES ASSUME IInv, BInv, [Next]_vars PROVE BInv'
  OBVIOUS
<1>1. CASE RecordDispatch
  BY <1>1, DispatchPaid
<1>2. ASSUME NEW n \in NodesOf(graph),
             \/ Receipt(n) \/ CompleteLoop(n) \/ CompleteReview(n) \/ Fail(n)
             \/ Pause(n) \/ Resume(n) \/ Invalidate(n)
      PROVE  BInv'
  BY <1>2, ReceiptPaid, LoopDonePaid, ReviewPaid, FailPaid, WaitPaid, InvalidatePaid
<1>3. CASE Limit
  BY <1>3, LimitPaid
<1>4. CASE UNCHANGED vars
  BY <1>4 DEF vars, BInv
<1>5. QED
  BY <1>1, <1>2, <1>3, <1>4 DEF Next, Stop

(* All that is asked of the nodes is what is asked of the three of the loop *)
(* and of the seats.                                                        *)
LEMMA DispatchesAre ==
  ASSUME NEW g, ValidConvergence(g), NEW f \in [NodesOf(g) -> Nat]
  PROVE  /\ SumFunction(f) = f["generator"] + (f["evaluator"] + (f["repair"] + Sum(f, SeatsOf(g))))
         /\ Sum(f, SeatsOf(g)) \in Nat
<1>1. /\ SeatsOf(g) \subseteq NodesOf(g) /\ {"generator", "evaluator", "repair"} \subseteq NodesOf(g)
      /\ SeatsOf(g) \cap {"generator", "evaluator", "repair"} = {}
      /\ NodesOf(g) = {"generator", "evaluator", "repair"} \cup SeatsOf(g)
      /\ IsFiniteSet(SeatsOf(g)) /\ \A n \in NodesOf(g) : f[n] \in Nat
  BY GraphIs DEF NodesOf, LoopNodes, Writers
<1>2. PICK R : R = {"repair"} \cup SeatsOf(g)
  OBVIOUS
<1>3. PICK E : E = {"evaluator"} \cup R
  OBVIOUS
<1>4. PICK N : N = {"generator"} \cup E
  OBVIOUS
<1>5. /\ IsFiniteSet(R) /\ IsFiniteSet(E) /\ IsFiniteSet(N)
  BY <1>1, <1>2, <1>3, <1>4, FS_AddElement
<1>6. /\ N = NodesOf(g) /\ N \ {"generator"} = E /\ E \ {"evaluator"} = R /\ R \ {"repair"} = SeatsOf(g)
      /\ "generator" \in N /\ "evaluator" \in E /\ "repair" \in R
  BY <1>1, <1>2, <1>3, <1>4
<1>7. /\ \A n \in N : f[n] \in Nat
      /\ \A n \in E : f[n] \in Nat
      /\ \A n \in R : f[n] \in Nat
      /\ \A n \in SeatsOf(g) : f[n] \in Nat
  BY <1>1, <1>2, <1>3, <1>4
<1>8. Sum(f, N) = f["generator"] + Sum(f, E)
  BY <1>5, <1>6, <1>7, SumApart
<1>9. Sum(f, E) = f["evaluator"] + Sum(f, R)
  BY <1>5, <1>6, <1>7, SumApart
<1>10. Sum(f, R) = f["repair"] + Sum(f, SeatsOf(g))
  BY <1>5, <1>6, <1>7, SumApart
<1>11. SumFunction(f) = Sum(f, N)
  BY <1>6 DEF SumFunction, Sum
<1>12. Sum(f, SeatsOf(g)) \in Nat
  BY <1>1, <1>7, SumIsNat
<1>13. QED
  BY <1>8, <1>9, <1>10, <1>11, <1>12

-----------------------------------------------------------------------------
(* What was paid for is within the plan.                                    *)

(* The least member of a finite set of numbers.                             *)
LEMMA MinimumExists ==
  ASSUME NEW S \in SUBSET Nat, IsFiniteSet(S), S # {}
  PROVE  \E m \in S : \A n \in S : m <= n
<1> DEFINE Bottom(D) == \E m \in D : \A n \in D : m <= n
           W == {D \in SUBSET S : D # {} /\ ~Bottom(D)}
<1>1. ASSUME NEW D \in W
      PROVE  \E C \in W : C \subseteq D /\ C # D
  <2>1. PICK x \in D : TRUE
    OBVIOUS
  <2>2. D \ {x} # {}
    BY <2>1
  <2>3. ASSUME Bottom(D \ {x}) PROVE FALSE
    <3>1. PICK m \in D \ {x} : \A n \in D \ {x} : m <= n
      BY <2>3
    <3>2. \A n \in D : (IF m <= x THEN m ELSE x) <= n
      BY <2>1, <3>1
    <3>3. Bottom(D)
      BY <2>1, <3>1, <3>2
    <3>4. QED
      BY <3>3
  <2> HIDE DEF Bottom
  <2>4. D \ {x} \in W
    BY <2>2, <2>3
  <2>5. QED
    BY <2>1, <2>4
<1>2. W = {}
  <2>1. W \subseteq SUBSET S
    OBVIOUS
  <2> HIDE DEF W
  <2>2. QED
    BY <1>1, <2>1, NoneMinimal
<1>3. QED
  BY <1>2

(* A panel is no larger than the seat concurrency: all its members are      *)
(* among those that fit up to the last of them.                             *)
LEMMA PanelFits ==
  ASSUME NEW g, NEW s, ValidConvergence(g)
  PROVE  IsFiniteSet(Panel(g, s)) /\ Cardinality(Panel(g, s)) <= g.seatConcurrency
<1> DEFINE K == {j \in DOMAIN g.seats : /\ Fits(g, s, g.seats[j])
                                        /\ Cardinality(FittingUpTo(g, s, j)) <= g.seatConcurrency}
<1>1. PICK k \in Nat : DOMAIN g.seats = 1..k
  BY DEF ValidConvergence
<1>2. IsFiniteSet(1..k)
  <2>1. 1 \in Int /\ k \in Int
    BY <1>1
  <2>2. QED
    BY <2>1, FS_Interval
<1>3. /\ K \in SUBSET Nat /\ K \subseteq 1..k /\ IsFiniteSet(K)
  <2>1. K \in SUBSET Nat /\ K \subseteq 1..k
    BY <1>1
  <2>2. QED
    BY <1>2, <2>1, FS_Subset
<1>4. Panel(g, s) = {g.seats[j] : j \in K}
  BY DEF Panel
<1>5. Cardinality(K) \in Nat /\ Cardinality(K) <= g.seatConcurrency
  <2>1. g.seatConcurrency \in Nat /\ Cardinality(K) \in Nat
    BY <1>3, GraphIs, FS_CardinalityType
  <2>2. CASE K = {}
    BY <2>1, <2>2, FS_EmptySet
  <2>3. CASE K # {}
    <3>1. PICK m \in K : \A n \in K : n <= m
      <4>1. PICK L : L = K
        OBVIOUS
      <4>2. L \in SUBSET Nat /\ IsFiniteSet(L) /\ L # {}
        BY <1>3, <2>3, <4>1
      <4>3. \E m \in L : \A n \in L : n <= m
        BY <4>2, MaximumExists
      <4>4. QED
        BY <4>1, <4>3
    <3>2. PICK F : F = FittingUpTo(g, s, m)
      OBVIOUS
    <3>3. K \subseteq F /\ F \subseteq 1..k
      BY <1>1, <3>1, <3>2 DEF FittingUpTo
    <3>4. Cardinality(F) <= g.seatConcurrency
      BY <3>1, <3>2
    <3>5. IsFiniteSet(F) /\ Cardinality(F) \in Nat
      BY <1>2, <3>3, FS_Subset, FS_CardinalityType
    <3> HIDE DEF K
    <3>6. Cardinality(K) <= Cardinality(F)
      BY <3>3, <3>5, FS_Subset
    <3>7. QED
      BY <2>1, <3>4, <3>5, <3>6
  <2>4. QED
    BY <2>2, <2>3
<1> HIDE DEF K
<1>6. IsFiniteSet(Panel(g, s)) /\ Cardinality(Panel(g, s)) <= Cardinality(K)
  <2>1. PICK P : P = Panel(g, s)
    OBVIOUS
  <2>2. PICK f : f = [j \in K |-> g.seats[j]]
    OBVIOUS
  <2>3. f \in Surjection(K, P)
    <3>1. f \in [K -> P] /\ \A t \in P : \E j \in K : f[j] = t
      BY <1>4, <2>1, <2>2
    <3>2. QED
      BY <3>1 DEF Surjection
  <2>4. QED
    BY <1>3, <2>1, <2>3, FS_Surjection
<1>7. Cardinality(Panel(g, s)) \in Nat /\ g.seatConcurrency \in Nat
  BY <1>6, GraphIs, FS_CardinalityType
<1>8. QED
  BY <1>5, <1>6, <1>7

(* If a seat fits, somebody is on the panel: the first that fits.           *)
LEMMA PanelStands ==
  ASSUME NEW g, NEW s, ValidConvergence(g), NEW i \in SeatsOf(g), Fits(g, s, i)
  PROVE  Panel(g, s) # {}
<1> DEFINE K == {j \in DOMAIN g.seats : Fits(g, s, g.seats[j])}
<1>1. PICK k \in Nat : DOMAIN g.seats = 1..k
  BY DEF ValidConvergence
<1>2. PICK L : L = K
  OBVIOUS
<1>3. L \in SUBSET Nat /\ IsFiniteSet(L) /\ L # {}
  <2>1. L \subseteq 1..k /\ L \in SUBSET Nat
    BY <1>1, <1>2
  <2>2. IsFiniteSet(1..k)
    <3>1. 1 \in Int /\ k \in Int
      BY <1>1
    <3>2. QED
      BY <3>1, FS_Interval
  <2>3. L # {}
    BY <1>2 DEF SeatsOf, Range
  <2>4. QED
    BY <2>1, <2>2, <2>3, FS_Subset
<1>4. PICK m \in L : \A n \in L : m <= n
  BY <1>3, MinimumExists
<1>5. FittingUpTo(g, s, m) = {m}
  <2>1. \A j \in L : j <= m <=> j = m
    BY <1>3, <1>4
  <2>2. QED
    BY <1>2, <1>4, <2>1 DEF FittingUpTo
<1>6. Cardinality(FittingUpTo(g, s, m)) <= g.seatConcurrency
  <2>1. Cardinality({m}) = 1
    BY FS_Singleton
  <2>2. QED
    BY <1>5, <2>1, GraphIs
<1>7. g.seats[m] \in Panel(g, s)
  BY <1>2, <1>4, <1>6 DEF Panel
<1>8. QED
  BY <1>7

(* A decision asks for at most one node of the loop, or a panel.            *)
LEMMA FanOut ==
  ASSUME IInv, BInv
  PROVE  Cardinality(Decision.positions) <= MaxFanOut(graph)
<1>1. Typed /\ ValidConvergence(graph) /\ Budget(graph, state, outside)
  BY GraphIsValid DEF IInv, BInv
<1>2. /\ graph.maxReviewRestarts \in Nat /\ state.restarts \in Nat
      /\ graph.seatConcurrency \in Nat /\ graph.seatConcurrency >= 1
  BY <1>1, GraphIs DEF Budget, Numbered
<1>3. CASE Decision.positions = {}
  <2>1. Cardinality(Decision.positions) = 0
    BY <1>3, FS_EmptySet
  <2>2. QED
    BY <1>2, <2>1 DEF MaxFanOut
<1>4. CASE Decision.positions # {}
  <2>1. Decision.kind = "dispatch"
    <3>1. /\ \A ns : Dispatch(state, ns).kind = "dispatch"
          /\ \A kind, code : Finish(kind, code).positions = {}
      BY DEF Dispatch, Finish
    <3>2. state.phase \in {"body", "review", "settled"}
      BY <1>1 DEF Typed, IsState
    <3>3. DecideBody(state).kind = "dispatch"
      BY <3>1 DEF DecideBody
    <3>4. DecideReview(graph, state).kind = "dispatch" \/ DecideReview(graph, state).positions = {}
      BY <3>1 DEF DecideReview, Conclude
    <3>5. QED
      BY <1>4, <3>1, <3>2, <3>3, <3>4 DEF Decision, ConvergenceDecide
  <2>2. PICK ns : /\ Decision = Dispatch(state, ns)
                  /\ ns = Panel(graph, state) \/ \E n : ns = {n}
    BY <1>1, <1>2, <1>4, <2>1, Asked
  <2>3. IsFiniteSet(ns) /\ Cardinality(ns) <= graph.seatConcurrency
    <3>1. CASE ns = Panel(graph, state)
      BY <1>1, <3>1, PanelFits
    <3>2. CASE \E n : ns = {n}
      BY <1>2, <3>2, FS_Singleton
    <3>3. QED
      BY <2>2, <3>1, <3>2
  <2>4. PICK P : P = Decision.positions
    OBVIOUS
  <2>5. PICK f : f = [n \in ns |-> <<n, state.nodes[n].attempts + 1>>]
    OBVIOUS
  <2>6. f \in Surjection(ns, P)
    <3>1. P = {<<n, state.nodes[n].attempts + 1>> : n \in ns}
      BY <2>2, <2>4 DEF Dispatch
    <3>2. f \in [ns -> P] /\ \A t \in P : \E n \in ns : f[n] = t
      BY <2>5, <3>1
    <3>3. QED
      BY <3>2 DEF Surjection
  <2>7. IsFiniteSet(P) /\ Cardinality(P) <= Cardinality(ns)
    BY <2>3, <2>6, FS_Surjection
  <2>8. Cardinality(P) \in Nat /\ Cardinality(ns) \in Nat
    BY <2>3, <2>7, FS_CardinalityType
  <2>9. QED
    BY <1>2, <2>3, <2>4, <2>7, <2>8 DEF MaxFanOut
<1>5. QED
  BY <1>3, <1>4

(* A run that completes has asked every seat, and the body once.            *)
LEMMA CompletesLate ==
  ASSUME IInv, BInv, Decision.kind = "complete"
  PROVE  /\ \A i \in SeatsOf(graph) : state.nodes[i].attempts > 0
         /\ state.nodes["generator"].attempts > 0 /\ state.nodes["evaluator"].attempts > 0
<1>1. Typed /\ ValidConvergence(graph) /\ Budget(graph, state, outside)
  BY GraphIsValid DEF IInv, BInv
<1>2. state.phase = "review"
  BY <1>1, CompletesOnQuorum
<1>3. Panel(graph, state) = {}
  <2>1. /\ \A ns : Dispatch(state, ns).kind = "dispatch"
        /\ \A kind, code : Finish(kind, code).kind = kind
    BY DEF Dispatch, Finish
  <2>2. Decision = DecideReview(graph, state)
    BY <1>2, <2>1 DEF Decision, ConvergenceDecide
  <2>3. QED
    BY <2>1, <2>2 DEF DecideReview
<1>4. ASSUME NEW i \in SeatsOf(graph)
      PROVE  state.nodes[i].attempts > 0
  <2>1. ~Fits(graph, state, i)
    BY <1>1, <1>3, PanelStands
  <2>2. i \in NodesOf(graph)
    BY <1>1, GraphIs
  <2>3. state.nodes[i].attempts \in Nat
    BY <1>1, <2>2 DEF Budget, Numbered
  <2>4. state.nodes[i].attempts # 0
    BY <1>1, <2>1, <2>2 DEF Budget, Fresh, Fits, Ready, Spent
  <2>5. QED
    BY <2>3, <2>4
<1>5. QED
  BY <1>1, <1>2, <1>4 DEF Budget, InOrder

(* The bounds are sums of what was paid.                                    *)
LEMMA Arithmetic ==
  ASSUME NEW I \in Nat, NEW R \in Nat, NEW c \in Nat, NEW L \in Nat, NEW out \in Nat, I >= 1,
         NEW a \in Nat, NEW b \in Nat, NEW d \in Nat, NEW e \in Nat,
         a <= c + I + R, b <= c + I + R, d <= (IF R = 0 THEN 0 ELSE c + R),
         e <= L * (c + 1 + R) + out
  PROVE  a + (b + (d + e)) <= (2 * (I + R) + (R + 1) * L + R) * (1 + c) + out
<1>1. PICK u \in Nat : u = (I + R) * c
  OBVIOUS
<1>2. PICK v \in Nat : v = R * c
  OBVIOUS
<1>3. PICK w \in Nat : w = (R + 1) * c
  OBVIOUS
<1>4. c <= u
  <2>1. PICK h \in Nat : I + R = h + 1
    <3>1. I + R - 1 \in Nat /\ I + R = (I + R - 1) + 1
      OBVIOUS
    <3>2. QED
      BY <3>1
  <2>2. u = h * c + c /\ h * c \in Nat
    BY <1>1, <2>1
  <2>3. QED
    BY <1>1, <2>2
<1>5. c <= w
  <2>1. w = R * c + c /\ R * c \in Nat
    BY <1>3
  <2>2. QED
    BY <2>1
<1>6. a <= (I + R) + u /\ b <= (I + R) + u
  BY <1>1, <1>4
<1>7. d <= R + v
  <2>1. CASE R = 0
    BY <1>2, <2>1
  <2>2. CASE R # 0
    <3>1. PICK h \in Nat : R = h + 1
      <4>1. R - 1 \in Nat /\ R = (R - 1) + 1
        BY <2>2
      <4>2. QED
        BY <4>1
    <3>2. v = h * c + c /\ h * c \in Nat
      BY <1>2, <3>1
    <3>3. QED
      BY <1>2, <2>2, <3>2
  <2>3. QED
    BY <2>1, <2>2
<1>8. e <= L * ((R + 1) + w) + out
  <2>1. PICK h \in Nat : w = c + h
    <3>1. w - c \in Nat /\ w = c + (w - c)
      BY <1>3, <1>5
    <3>2. QED
      BY <3>1
  <2>2. (R + 1) + w = (c + 1 + R) + h
    BY <2>1
  <2>3. L * ((R + 1) + w) = L * (c + 1 + R) + L * h /\ L * h \in Nat /\ L * (c + 1 + R) \in Nat
    BY <2>2, <2>1
  <2>4. QED
    BY <2>3
<1>9. (2 * (I + R) + (R + 1) * L + R) * (1 + c)
        = 2 * ((I + R) + u) + L * ((R + 1) + w) + (R + v)
  <2>1. (I + R) * (1 + c) = (I + R) + u
    BY <1>1
  <2>2. ((R + 1) * L) * (1 + c) = L * ((R + 1) + w)
    <3>1. (R + 1) * (1 + c) = (R + 1) + w
      BY <1>3
    <3>2. ((R + 1) * L) * (1 + c) = L * ((R + 1) * (1 + c))
      OBVIOUS
    <3>3. QED
      BY <3>1, <3>2
  <2>3. R * (1 + c) = R + v
    BY <1>2
  <2>4. (2 * (I + R) + (R + 1) * L + R) * (1 + c)
          = 2 * ((I + R) * (1 + c)) + ((R + 1) * L) * (1 + c) + R * (1 + c)
    OBVIOUS
  <2>5. QED
    BY <2>1, <2>2, <2>3, <2>4
<1>10. PICK z \in Nat : z = L * ((R + 1) + w)
  <2>1. (R + 1) + w \in Nat
    BY <1>3
  <2>2. L * ((R + 1) + w) \in Nat
    BY <2>1
  <2>3. QED
    BY <2>2
<1>11. QED
  BY <1>1, <1>2, <1>6, <1>7, <1>8, <1>9, <1>10

(* What is within the budget is within the plan.                            *)
LEMMA InvImpliesBounds == IInv /\ BInv => BoundsHold
<1> SUFFICES ASSUME IInv, BInv PROVE BoundsHold
  OBVIOUS
<1>1. Typed /\ ValidConvergence(graph) /\ outside \in Nat /\ Budget(graph, state, outside)
  BY GraphIsValid DEF IInv, BInv
<1>2. /\ graph.retryCap \in Nat /\ graph.maxReviewRestarts \in Nat
      /\ graph.maxIterations \in Nat /\ graph.maxIterations >= 1
      /\ SeatsOf(graph) \subseteq NodesOf(graph)
      /\ {"generator", "evaluator", "repair"} \subseteq NodesOf(graph)
      /\ IsFiniteSet(SeatsOf(graph)) /\ Cardinality(SeatsOf(graph)) = Len(graph.seats)
      /\ Len(graph.seats) \in Nat
  BY <1>1, GraphIs
<1>3. /\ state.iteration \in Nat /\ state.restarts \in Nat
      /\ state.iteration <= graph.maxIterations /\ state.restarts <= graph.maxReviewRestarts
      /\ \A n \in NodesOf(graph) : state.nodes[n].attempts \in Nat
  BY <1>1, <1>2 DEF Budget, Numbered
<1>4. PICK f : f = [n \in NodesOf(graph) |-> state.nodes[n].attempts]
  OBVIOUS
<1>5. f \in [NodesOf(graph) -> Nat] /\ \A n \in NodesOf(graph) : f[n] = state.nodes[n].attempts
  BY <1>3, <1>4
<1>6. PICK e \in Nat :
        /\ e = Sum(f, SeatsOf(graph))
        /\ SumFunction(f) = f["generator"] + (f["evaluator"] + (f["repair"] + e))
  BY <1>1, <1>5, DispatchesAre
<1>7. \A n \in NodesOf(graph) : f[n] <= Cost(state, n) /\ Cost(state, n) \in Nat /\ f[n] \in Nat
  BY <1>3, <1>5 DEF Cost
<1>8. /\ f["generator"] <= graph.retryCap + graph.maxIterations + graph.maxReviewRestarts
      /\ f["evaluator"] <= graph.retryCap + graph.maxIterations + graph.maxReviewRestarts
      /\ f["repair"] <= (IF graph.maxReviewRestarts = 0 THEN 0 ELSE graph.retryCap + graph.maxReviewRestarts)
      /\ f["generator"] \in Nat /\ f["evaluator"] \in Nat /\ f["repair"] \in Nat
  <2>1. \A n \in {"generator", "evaluator"} :
          Cost(state, n) <= graph.retryCap + state.iteration + state.restarts
    BY <1>1 DEF Budget, LoopPaid
  <2>2. \A n \in {"generator", "evaluator"} :
          f[n] <= graph.retryCap + graph.maxIterations + graph.maxReviewRestarts
    BY <1>2, <1>3, <1>7, <2>1
  <2>3. QED
    BY <1>1, <1>2, <1>5, <2>2 DEF Budget, LoopPaid
<1>9. PICK each \in Nat : each = graph.retryCap + 1 + graph.maxReviewRestarts
  BY <1>2
<1>10. e <= Len(graph.seats) * each + outside
  <2>1. PICK o \in [SeatsOf(graph) -> Nat] :
          /\ Sum(o, SeatsOf(graph)) <= outside
          /\ \A i \in SeatsOf(graph) : SeatPaid(graph, state, i, o[i])
    BY <1>1 DEF Budget, SeatsPaid
  <2>2. PICK h : h = [i \in SeatsOf(graph) |-> each + o[i]]
    OBVIOUS
  <2>3. \A i \in SeatsOf(graph) : o[i] \in Nat /\ h[i] = each + o[i]
    BY <2>1, <2>2
  <2>4. ASSUME NEW i \in SeatsOf(graph)
        PROVE  f[i] \in Nat /\ h[i] \in Nat /\ f[i] <= h[i]
    <3>1. PICK c \in Nat : c = Cost(state, i) /\ f[i] <= c
      BY <1>2, <1>7
    <3>2. PICK q \in Nat : q = SeatCost(state, i) /\ c <= q
      BY <3>1 DEF SeatCost
    <3>3. q <= graph.retryCap + 1 + state.restarts + o[i]
      BY <2>1, <3>2 DEF SeatPaid
    <3>4. f[i] \in Nat /\ o[i] \in Nat /\ h[i] = each + o[i] /\ each \in Nat
      BY <1>2, <1>7, <1>9, <2>3
    <3>5. q <= each + o[i]
      BY <1>2, <1>3, <1>9, <3>2, <3>3, <3>4
    <3>6. QED
      BY <3>1, <3>2, <3>4, <3>5
  <2>5. e <= Sum(h, SeatsOf(graph))
    BY <1>2, <1>6, <2>4, SumGrows
  <2>6. Sum(h, SeatsOf(graph)) = Len(graph.seats) * each + Sum(o, SeatsOf(graph))
    <3>1. IsFiniteSet(SeatsOf(graph)) /\ each \in Nat
      BY <1>2, <1>9
    <3>2. Sum(h, SeatsOf(graph)) = Cardinality(SeatsOf(graph)) * each + Sum(o, SeatsOf(graph))
      BY <2>3, <3>1, SumPlus
    <3>3. Cardinality(SeatsOf(graph)) = Len(graph.seats)
      BY <1>2
    <3>4. QED
      BY <3>2, <3>3
  <2>7. Sum(o, SeatsOf(graph)) \in Nat
    BY <1>2, <2>3, SumIsNat
  <2>8. Len(graph.seats) * each \in Nat
    BY <1>2
  <2>9. QED
    BY <1>1, <2>1, <2>5, <2>6, <2>7, <2>8
<1>11. SumFunction(f) <= MaxDispatches(graph) + outside
  <2>1. PICK I \in Nat, R \in Nat, c \in Nat, L \in Nat :
          /\ I = graph.maxIterations /\ R = graph.maxReviewRestarts
          /\ c = graph.retryCap /\ L = Len(graph.seats) /\ I >= 1
    BY <1>2
  <2>2. PICK a \in Nat, b \in Nat, d \in Nat :
          a = f["generator"] /\ b = f["evaluator"] /\ d = f["repair"]
    BY <1>8
  <2>3. a <= c + I + R /\ b <= c + I + R /\ d <= (IF R = 0 THEN 0 ELSE c + R)
    BY <1>8, <2>1, <2>2
  <2>4. e <= L * (c + 1 + R) + outside /\ e \in Nat /\ outside \in Nat
    BY <1>1, <1>6, <1>9, <1>10, <2>1
  <2>5. a + (b + (d + e)) <= (2 * (I + R) + (R + 1) * L + R) * (1 + c) + outside
    BY <2>1, <2>2, <2>3, <2>4, Arithmetic
  <2>6. QED
    BY <1>6, <2>1, <2>2, <2>5 DEF MaxDispatches
<1>12. Decision.kind = "complete" => SumFunction(f) >= MinDispatches(graph)
  <2>1. SUFFICES ASSUME Decision.kind = "complete" PROVE SumFunction(f) >= MinDispatches(graph)
    OBVIOUS
  <2>2. /\ \A i \in SeatsOf(graph) : f[i] \in Nat /\ f[i] >= 1
        /\ f["generator"] >= 1 /\ f["evaluator"] >= 1
    BY <1>2, <1>5, <2>1, CompletesLate
  <2>3. PICK z : z = [i \in SeatsOf(graph) |-> 0]
    OBVIOUS
  <2>4. PICK h : h = [i \in SeatsOf(graph) |-> 1]
    OBVIOUS
  <2>5. \A i \in SeatsOf(graph) : /\ z[i] \in Nat /\ z[i] = 0 /\ h[i] = 1 + z[i]
                                  /\ h[i] \in Nat /\ h[i] <= f[i]
    BY <2>2, <2>3, <2>4
  <2>6. Sum(h, SeatsOf(graph)) = Len(graph.seats) * 1 + Sum(z, SeatsOf(graph))
    BY <1>2, <2>5, SumPlus
  <2>7. Sum(z, SeatsOf(graph)) = 0
    BY <1>2, <2>5, SumIsZero
  <2>8. Sum(h, SeatsOf(graph)) <= e
    BY <1>2, <1>6, <2>2, <2>5, SumGrows
  <2>9. Len(graph.seats) <= e
    BY <1>2, <2>6, <2>7, <2>8
  <2>10. QED
    BY <1>2, <1>6, <1>8, <2>2, <2>9 DEF MinDispatches
<1>13. QED
  BY <1>4, <1>11, <1>12, FanOut DEF BoundsHold

-----------------------------------------------------------------------------
(* The theorems.                                                            *)

(* Every step keeps the invariant.                                          *)
LEMMA NextInv == IInv /\ [Next]_vars => IInv'
<1> SUFFICES ASSUME IInv, [Next]_vars PROVE IInv'
  OBVIOUS
<1>1. CASE RecordDispatch
  BY <1>1, DispatchInv
<1>2. ASSUME NEW n \in NodesOf(graph),
             \/ Receipt(n) \/ CompleteLoop(n) \/ CompleteReview(n) \/ Fail(n)
             \/ Pause(n) \/ Resume(n) \/ Invalidate(n)
      PROVE  IInv'
  BY <1>2, ReceiptInv, LoopInv, ReviewInv, FailInv, WaitInv, InvalidateInv
<1>3. CASE Limit
  BY <1>3, LimitInv
<1>4. CASE UNCHANGED vars
  BY <1>4 DEF vars, IInv, Typed, PassesBacked, Backed, PassesSeen, StillSeen, WritersNoted,
              BodyGoesOn, ReviewersAlone, IsOpen
<1>5. QED
  BY <1>1, <1>2, <1>3, <1>4 DEF Next, Stop

(* The invariant holds in every state of a run.                             *)
LEMMA SpecInv == Spec => []IInv
  BY InitInv, NextInv, PTL DEF Spec

(* A converged run was passed by a quorum of independent seats that vouch   *)
(* for the evidence under review.                                           *)
THEOREM AcceptanceAlwaysSound == Spec => []AcceptanceIsSound
  BY SpecInv, InvImpliesAcceptance, PTL

(* In review, every seat that counts as valid vouches for the evidence.     *)
THEOREM PassesAlwaysCurrent == Spec => []PassesStayCurrent
  BY SpecInv, InvImpliesCurrent, PTL

(* Nothing is written while seats are at work.                              *)
THEOREM ReviewsAlwaysStandStill == Spec => []ReviewsStandStill
  BY SpecInv, InvImpliesStandStill, PTL

(* A run that asks for nothing has an attempt in flight.                    *)
THEOREM RunNeverSilent == Spec => []NeverSilent
  BY SpecInv, InvImpliesAsking, PTL

(* The bounds the plan declares hold, but for reviews that a producer       *)
(* outside the run asked for again.                                         *)
THEOREM BoundsAlwaysHold == Spec => []BoundsHold
<1>1. Init => IInv /\ BInv
  BY InitInv, InitPaid
<1>2. IInv /\ BInv /\ [Next]_vars => IInv' /\ BInv'
  BY NextInv, NextPaid
<1>3. QED
  BY <1>1, <1>2, InvImpliesBounds, PTL DEF Spec
=============================================================================
