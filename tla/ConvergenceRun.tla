--------------------------- MODULE ConvergenceRun ---------------------------
(***************************************************************************)
(* A run of the `convergence` graph type under a sequential durable runner: *)
(* the steps are the events a run records, as in DagRun, and those that a   *)
(* producer outside the run may add (a seat invalidated, a limit reached).  *)
(***************************************************************************)
EXTENDS ConvergenceGraph

CONSTANTS
  Graphs,           \* the definitions a run may be started with
  Findings,         \* finding ids
  Answers(_),       \* what the engines of a node may report themselves to be
  Gates,            \* what evaluators return
  Reviews,          \* what seats return
  Failures,         \* how attempts fail
  MaxOutside        \* bound: events a producer outside the run adds

ASSUME GraphsAreValid     == \A g \in Graphs : ValidConvergence(g)
ASSUME GatesAreDecisions  == \A r \in Gates : r.gateMet \in BOOLEAN
ASSUME ReviewsAreVerdicts == \A r \in Reviews : r.confident \in BOOLEAN

VARIABLES
  graph,      \* the definition of this run; it never changes
  state,      \* what the events recorded so far fold to
  report,     \* history: the last report of each seat, by whom and in which round
  wrote,      \* history: every identity a writer may have had
  outside     \* spent from MaxOutside

vars == <<graph, state, report, wrote, outside>>

Decision == ConvergenceDecide(graph, state)

NoReport == [verdict |-> "none", confident |-> FALSE, evidence |-> NoEvidence,
             findings |-> {}, by |-> Unknown, restarts |-> 0]

Event(type, position, result) ==
  [type |-> type, position |-> position, result |-> result]

Init ==
  /\ graph \in Graphs
  /\ state = ConvergenceInitialState(graph, Findings)
  /\ report = [i \in SeatsOf(graph) |-> NoReport]
  /\ wrote = {}
  /\ outside = 0

Record(ev) ==
  /\ state' = ConvergenceReduce(graph, state, ev)
  /\ UNCHANGED graph

Current(n) == <<n, state.nodes[n].attempts>>
At(n, status) == state.nodes[n].status = status

(* The whole decision is recorded in one batch before any of it starts.    *)
RecordDispatch ==
  /\ Decision.kind = "dispatch"
  /\ Decision.positions # {}
  /\ state' = [state EXCEPT !.pauseReason = "none",
                 !.nodes = [n \in DOMAIN @ |->
                    IF \E p \in Decision.positions : p[1] = n
                    THEN DispatchNode(state, n, @[n].attempts + 1).nodes[n] ELSE @[n]]]
  /\ UNCHANGED <<graph, report, wrote, outside>>

(* An engine call made for the attempt: its receipt names who answered.    *)
Receipt(n) ==
  /\ At(n, "in-flight") /\ graph.targets[n] # {}
  /\ \E id \in Answers(n) :
       /\ Record(Event("engine-attempt-recorded", Current(n), id))
       /\ wrote' = CASE n \notin Writers -> wrote
                     [] n \in Writers /\ id = Unknown -> wrote \cup graph.targets[n]
                     [] OTHER -> wrote \cup {id}
  /\ UNCHANGED <<report, outside>>

CompleteLoop(n) ==
  /\ n \in LoopNodes /\ At(n, "in-flight")
  /\ \E r \in Gates : Record(Event("node-completed", Current(n), r))
  /\ UNCHANGED <<report, wrote, outside>>

CompleteReview(n) ==
  /\ n \in SeatsOf(graph) /\ At(n, "in-flight")
  /\ \E r \in Reviews :
       /\ Record(Event("node-completed", Current(n), r))
       /\ report' = [report EXCEPT ![n] =
            [verdict |-> r.verdict, confident |-> r.confident, evidence |-> r.evidence,
             findings |-> r.findings, by |-> state.nodes[n].by, restarts |-> state.restarts]]
  /\ UNCHANGED <<wrote, outside>>

Fail(n) ==
  /\ At(n, "in-flight")
  /\ \E code \in Failures : Record(Event("node-failed", Current(n), code))
  /\ UNCHANGED <<report, wrote, outside>>

Pause(n)  == /\ At(n, "in-flight")
             /\ Record(Event("node-paused", Current(n), "none"))
             /\ UNCHANGED <<report, wrote, outside>>
Resume(n) == /\ At(n, "paused")
             /\ Record(Event("node-resumed", Current(n), "none"))
             /\ UNCHANGED <<report, wrote, outside>>

(* A producer withdraws what a seat said or is about to say, or records     *)
(* that a limit is hit.  (Elsewhere these events change nothing.)          *)
Invalidate(i) ==
  /\ i \in SeatsOf(graph)
  /\ At(i, "in-flight") \/ state.seats[i].outcome = "valid"
  /\ outside < MaxOutside /\ outside' = outside + 1
  /\ Record(Event("seat-invalidated", Current(i), "none"))
  /\ report' = [report EXCEPT ![i] = NoReport]
  /\ UNCHANGED wrote

Limit ==
  /\ state.pauseReason = "none"
  /\ outside < MaxOutside /\ outside' = outside + 1
  /\ Record(Event("limit-paused", <<"evaluator", 0>>, "none"))
  /\ UNCHANGED <<report, wrote>>

Ended == Decision.kind \in {"complete", "fail", "pause"}

(* A run that has ended, or waits to be resumed, records nothing by itself. *)
Stop == Ended /\ UNCHANGED vars

Next ==
  \/ RecordDispatch
  \/ \E n \in NodesOf(graph) :
       \/ Receipt(n) \/ CompleteLoop(n) \/ CompleteReview(n) \/ Fail(n)
       \/ Pause(n) \/ Resume(n) \/ Invalidate(n)
  \/ Limit
  \/ Stop

Spec == Init /\ [][Next]_vars

-----------------------------------------------------------------------------
(* The seat last reported a confident pass on what is under review now, as *)
(* far as it answers for it, and nobody withdrew the report.               *)
Vouches(i) ==
  LET seen == View(graph, i, report[i].evidence)  now == View(graph, i, state.evidence) IN
  /\ report[i].verdict = "pass" /\ report[i].confident
  /\ seen # NoEvidence /\ now # NoEvidence
  /\ seen.hashes = now.hashes /\ seen.proof = now.proof

(* Whoever reported is a known engine that no writer of the run was.       *)
Independent(i) ==
  graph.targets[i] # {} =>
    /\ NoName \notin {report[i].by.provider, report[i].by.family}
    /\ \A w \in wrote : w.provider # report[i].by.provider /\ w.family # report[i].by.family

(* A converged run was passed by a quorum of seats that vouch for the      *)
(* evidence under review, none of them an engine that wrote for the run,   *)
(* then or since, and diverse if it has to be.                             *)
AcceptanceIsSound ==
  Decision.kind = "complete" =>
    \E Q \in SUBSET SeatsOf(graph) :
      /\ Cardinality(Q) >= graph.quorum
      /\ \A i \in Q : Vouches(i) /\ Independent(i)
      /\ graph.requireDiversity =>
           \A i, j \in Q : i # j => /\ report[i].by.provider # report[j].by.provider
                                   /\ report[i].by.family # report[j].by.family

(* A pass that is kept over a repair is kept only for what did not change: *)
(* in review, every seat that counts as valid still vouches.               *)
PassesStayCurrent ==
  state.phase = "review" =>
    \A i \in SeatsOf(graph) : state.seats[i].outcome = "valid" => Vouches(i)

(* Nothing is written while it is reviewed: while the attempt of a seat is *)
(* open, no attempt of the body or of the repair is.                       *)
ReviewsStandStill ==
  LET open == InStatus(state, "in-flight") \cup InStatus(state, "paused") IN
  open \cap SeatsOf(graph) # {} => open \cap LoopNodes = {} /\ state.phase = "review"

(* The bounds the plan declares hold, but for reviews that a producer      *)
(* outside the run asked for again.                                        *)
BoundsHold ==
  LET dispatches == SumFunction([n \in NodesOf(graph) |-> state.nodes[n].attempts]) IN
  /\ dispatches <= MaxDispatches(graph) + outside
  /\ Cardinality(Decision.positions) <= MaxFanOut(graph)
  /\ Decision.kind = "complete" => dispatches >= MinDispatches(graph)

(* The graph always asks for something: it waits only while an attempt is  *)
(* in flight.  As dispatches are bounded, every run ends or is paused.     *)
NeverSilent ==
  Decision = Dispatch(state, {}) => InStatus(state, "in-flight") # {}

(* A seat that fails spends no repair: the run is sent into a repair only  *)
(* for findings that a seat reported in this round of reviews.             *)
RepairsAnswerReports ==
  <<"repair", state.nodes["repair"].attempts + 1>> \in Decision.positions =>
    \E i \in SeatsOf(graph) :
      report[i].restarts = state.restarts /\ report[i].findings # {}
=============================================================================
