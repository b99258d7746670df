-------------------------- MODULE ConvergenceGraph --------------------------
(***************************************************************************)
(* The `convergence` graph type of                                         *)
(* packages/runtime/src/graph-types/loop.ts: a body (generator, then        *)
(* evaluator) goes round until its gate is met, seats review what it made,  *)
(* and findings send the run through a repair back into the body.           *)
(*                                                                         *)
(* A dispatch position is <<node, attempt>>: the code puts the iteration or *)
(* the repair round in front of it, but tells positions of one node apart   *)
(* by the attempt.  A confidence is there or not, evidence is compared and  *)
(* never looked into, and an engine identity is a provider and a family.    *)
(***************************************************************************)
EXTENDS Naturals, Sequences, FiniteSets, Functions

CONSTANTS
  NoName,       \* a provider or model family that was not reported
  NoEvidence    \* no readable review evidence

(* A definition g: seats in declaration order; watches[i], the input hashes *)
(* seat i names as evidencePaths, {} for all; targets[n], the declared      *)
(* engine targets of the lane of node n, {} without a lane; skippable,      *)
(* maxIterations, maxReviewRestarts, quorum, requireDiversity,              *)
(* seatConcurrency and retryCap (retryCapPerNode).                          *)
Writers    == {"generator", "repair"}
LoopNodes  == Writers \cup {"evaluator"}
SeatsOf(g) == Range(g.seats)
NodesOf(g) == LoopNodes \cup SeatsOf(g)

NodeStatus == {"pending", "in-flight", "paused", "passed", "failed"}
Outcomes   == {"none", "valid", "invalid", "skipped", "non-verdict"}
Verdicts   == {"none", "pass", "findings", "low-confidence"}

(* validateConvergence: no reviewer target shares a provider or a family    *)
(* with a writer target, and the limits are sensible.                       *)
ValidConvergence(g) ==
  /\ g.seats \in Seq(SeatsOf(g)) \ {<<>>} /\ IsInjective(g.seats)
  /\ SeatsOf(g) \cap LoopNodes = {}
  /\ \A i \in SeatsOf(g), w \in Writers : \A a \in g.targets[i], b \in g.targets[w] :
       a.provider # b.provider /\ a.family # b.family
  /\ g.maxIterations \in Nat \ {0} /\ g.seatConcurrency \in Nat \ {0}
  /\ g.maxReviewRestarts \in Nat /\ g.retryCap \in Nat
  /\ g.quorum \in 1..Len(g.seats)
  /\ g.skippable \subseteq SeatsOf(g)

Unknown == [provider |-> NoName, family |-> NoName]

NoVerdict == [outcome |-> "none", verdict |-> "none", by |-> Unknown,
              evidence |-> NoEvidence, findings |-> {}, stale |-> FALSE]

ConvergenceInitialState(g, Findings) ==
  [phase |-> "body", iteration |-> 1, restarts |-> 0, pauseReason |-> "none",
   nodes |-> [n \in NodesOf(g) |-> [status |-> "pending", attempts |-> 0, by |-> Unknown]],
   seats |-> [i \in SeatsOf(g) |-> NoVerdict],
   providers |-> {}, families |-> {},
   evidence |-> NoEvidence,
   rounds |-> [f \in Findings |-> 0]]

-----------------------------------------------------------------------------
(* Evidence and verdicts                                                   *)

(* reviewEvidenceForSeat: the part of the evidence a seat answers for.     *)
View(g, i, e) ==
  CASE e = NoEvidence \/ g.watches[i] = {}        -> e
    [] e # NoEvidence /\ ~(g.watches[i] \subseteq DOMAIN e.hashes) -> NoEvidence
    [] OTHER -> [e EXCEPT !.hashes = Restrict(@, g.watches[i])]

Same(a, b) == a # NoEvidence /\ a = b

(* readVerdict: only a confident pass on the current evidence is valid, and *)
(* findings on anything else are dropped.                                   *)
ReadVerdict(g, s, i, r) ==
  LET seen    == View(g, i, r.evidence)
      current == Same(seen, View(g, i, s.evidence)) IN
  [outcome  |-> CASE r.verdict = "pass" /\ r.confident /\ current -> "valid"
                  [] r.verdict = "none"                           -> "none"
                  [] OTHER                                        -> "invalid",
   verdict  |-> r.verdict, by |-> s.nodes[i].by, evidence |-> seen,
   findings |-> IF current THEN r.findings ELSE {}, stale |-> FALSE]

Accepted(g, s) ==
  {i \in SeatsOf(g) :
     /\ s.seats[i].outcome = "valid" /\ s.seats[i].verdict = "pass"
     /\ g.targets[i] # {} =>
          /\ s.seats[i].by.provider \notin s.providers \cup {NoName}
          /\ s.seats[i].by.family \notin s.families \cup {NoName}}

(* diversityHolds: the matching of accepted providers to model families     *)
(* that the code grows is as large as the quorum.                           *)
Diverse(g, s) ==
  \E Q \in SUBSET Accepted(g, s) :
    /\ Cardinality(Q) >= g.quorum
    /\ \A i \in Q : s.seats[i].by.provider # NoName /\ s.seats[i].by.family # NoName
    /\ \A i, j \in Q : i # j => /\ s.seats[i].by.provider # s.seats[j].by.provider
                                /\ s.seats[i].by.family # s.seats[j].by.family

QuorumHolds(g, s) ==
  /\ Cardinality(Accepted(g, s)) >= g.quorum
  /\ g.requireDiversity => Diverse(g, s)

BlockingFindings(g, s) ==
  UNION {s.seats[i].findings : i \in {j \in SeatsOf(g) : s.seats[j].verdict = "findings"}}

-----------------------------------------------------------------------------
(* reduce: one operator per event                                          *)

SetStatus(s, n, status) == [s EXCEPT !.nodes[n].status = status]

(* The receipts of a position are not looked at once it is settled.        *)
Settle(s, n, status) ==
  [s EXCEPT !.nodes[n] = [status |-> status, attempts |-> @.attempts, by |-> Unknown]]

(* Broken, for mutation testing: only the first writer counts.             *)
RecordFirstEngine(g, s, n, id) ==
  LET noted == [s EXCEPT !.nodes[n].by = id] IN
  CASE s.nodes[n].status # "in-flight" \/ g.targets[n] = {} -> s
    [] n \notin Writers \/ s.providers # {} -> noted
    [] OTHER -> [noted EXCEPT
                   !.providers = {t.provider : t \in IF id = Unknown THEN g.targets[n] ELSE {id}},
                   !.families  = {t.family : t \in IF id = Unknown THEN g.targets[n] ELSE {id}}]

(* engine-attempt-recorded: the last call at a position names the reviewer; *)
(* every call of a writer adds to the writers, an unreported field with all *)
(* its declared targets.                                                    *)
RecordEngine(g, s, n, id) ==
  LET named(field) == IF id[field] = NoName THEN {t[field] : t \in g.targets[n]} ELSE {id[field]}
      noted == [s EXCEPT !.nodes[n].by = id] IN
  IF s.nodes[n].status # "in-flight" \/ g.targets[n] = {} THEN s
  ELSE IF n \notin Writers THEN noted
  ELSE [noted EXCEPT !.providers = @ \cup named("provider"),
                     !.families  = @ \cup named("family")]

DispatchNode(s, n, attempt) ==
  IF s.nodes[n].attempts + 1 = attempt /\ s.nodes[n].status \in {"pending", "failed"}
  THEN [s EXCEPT !.pauseReason = "none",
                 !.nodes[n] = [status |-> "in-flight", attempts |-> attempt, by |-> Unknown]]
  ELSE s

CompleteSeat(g, s, i, r) ==
  LET stale     == s.seats[i].stale
      read      == IF stale THEN [NoVerdict EXCEPT !.outcome = "invalid"] ELSE ReadVerdict(g, s, i, r)
      untrusted == read.verdict = "pass" /\ read.outcome # "valid"
      exhausted == untrusted /\ s.nodes[i].attempts > g.retryCap IN
  [Settle(s, i, IF stale \/ (untrusted /\ ~exhausted) THEN "pending" ELSE "passed") EXCEPT
     !.seats[i] = IF exhausted THEN [read EXCEPT !.outcome = "non-verdict"] ELSE read,
     !.rounds = [f \in DOMAIN @ |-> @[f] + (IF f \in read.findings THEN 1 ELSE 0)]]

Outdate(seat) ==
  [seat EXCEPT !.outcome = "invalid", !.verdict = "none", !.evidence = NoEvidence, !.findings = {}]

(* An accepted pass is kept as long as the hashes its seat watches and the  *)
(* proof are the same; the workspace around them may have changed.          *)
Outdated(g, s, e) ==
  {i \in SeatsOf(g) :
     LET old == s.seats[i].evidence  new == View(g, i, e) IN
     /\ s.seats[i].outcome = "valid"
     /\ \/ old = NoEvidence \/ new = NoEvidence
        \/ old.hashes # new.hashes \/ old.proof # new.proof}

(* Broken, for mutation testing: accepted passes are kept for good.        *)
EnterReviewAsItWas(g, s, e) ==
  [s EXCEPT !.phase = "review", !.evidence = e]

EnterReview(g, s, e) ==
  LET out == Outdated(g, s, e) IN
  [s EXCEPT !.phase = "review", !.evidence = e,
            !.seats = [i \in SeatsOf(g) |-> IF i \in out THEN Outdate(@[i]) ELSE @[i]],
            !.nodes = [n \in NodesOf(g) |-> IF n \in out THEN [@[n] EXCEPT !.status = "pending"]
                                                         ELSE @[n]]]

Again(s, ns) ==
  [s EXCEPT !.nodes = [n \in DOMAIN @ |-> IF n \in ns THEN [@[n] EXCEPT !.status = "pending"] ELSE @[n]],
            !.phase = "body"]

(* Broken, for mutation testing: the next iteration is not evaluated.      *)
CompleteEvaluatorOnce(g, s, r) ==
  CASE r.gateMet                         -> EnterReview(g, s, r.evidence)
    [] ~r.gateMet /\ s.iteration >= g.maxIterations -> [s EXCEPT !.phase = "settled"]
    [] OTHER -> [Again(s, {"generator"}) EXCEPT !.evidence = r.evidence, !.iteration = @ + 1]

CompleteEvaluator(g, s, r) ==
  CASE r.gateMet                         -> EnterReview(g, s, r.evidence)
    [] ~r.gateMet /\ s.iteration >= g.maxIterations -> [s EXCEPT !.phase = "settled"]
    [] OTHER -> [Again(s, {"generator", "evaluator"}) EXCEPT !.evidence = r.evidence,
                                                             !.iteration = @ + 1]

CompleteRepair(g, s) ==
  IF s.restarts >= g.maxReviewRestarts
  THEN [s EXCEPT !.phase = "settled"]
  ELSE [Again(s, LoopNodes \cup {i \in SeatsOf(g) : s.seats[i].outcome # "valid"}) EXCEPT
          !.restarts = @ + 1,
          !.iteration = IF @ + 1 > g.maxIterations THEN @ ELSE @ + 1]

CompleteNode(g, s, n, r) ==
  LET passed == Settle(s, n, "passed") IN
  CASE n \in SeatsOf(g)  -> CompleteSeat(g, s, n, r)
    [] n = "evaluator"   -> CompleteEvaluator(g, passed, r)
    [] n = "repair"      -> CompleteRepair(g, passed)
    [] n = "generator"   -> passed

FailNode(g, s, n, code) ==
  LET failed == Settle(s, n, "failed") IN
  CASE code = "ABORTED"     -> [failed EXCEPT !.pauseReason = "aborted"]
    [] code # "ABORTED" /\ n \notin SeatsOf(g) -> failed
    [] code = "ENGINE_UNAVAILABLE" /\ n \in g.skippable ->
         [failed EXCEPT !.seats[n].outcome = "skipped", !.seats[n].verdict = "none",
                        !.seats[n].findings = {}]
    [] code = "ENGINE_UNAVAILABLE" /\ n \in SeatsOf(g) \ g.skippable ->
         [failed EXCEPT !.seats[n].outcome = "non-verdict", !.pauseReason = "no engine"]
    [] OTHER ->
         [failed EXCEPT !.seats[n].outcome = "non-verdict"]

(* seat-invalidated, from a producer that watches the inputs of a review.  *)
InvalidateSeat(s, i) ==
  CASE s.nodes[i].status = "in-flight" ->
         [s EXCEPT !.seats[i].outcome = "invalid", !.seats[i].stale = TRUE]
    [] s.nodes[i].status # "in-flight" /\ s.seats[i].outcome = "valid" ->
         [SetStatus(s, i, "pending") EXCEPT !.seats[i] = Outdate(@)]
    [] OTHER -> s

(* Events of an attempt that is not the current one change nothing.        *)
IsCurrent(s, position, status) ==
  s.nodes[position[1]].status = status /\ s.nodes[position[1]].attempts = position[2]

ConvergenceReduce(g, s, ev) ==
  LET n == ev.position[1]  r == ev.result IN
  CASE ev.type = "node-dispatched" -> DispatchNode(s, n, ev.position[2])
    [] ev.type = "seat-invalidated" -> InvalidateSeat(s, n)
    [] ev.type = "limit-paused" -> [s EXCEPT !.pauseReason = "limit"]
    [] ev.type = "node-resumed" ->
         IF IsCurrent(s, ev.position, "paused") THEN SetStatus(s, n, "in-flight") ELSE s
    [] OTHER ->
         IF ~IsCurrent(s, ev.position, "in-flight") THEN s
         ELSE CASE ev.type = "engine-attempt-recorded" -> RecordEngine(g, s, n, r)
                [] ev.type = "node-completed"          -> CompleteNode(g, s, n, r)
                [] ev.type = "node-failed"             -> FailNode(g, s, n, r)
                [] ev.type = "node-paused"             -> SetStatus(s, n, "paused")
-----------------------------------------------------------------------------
(* decide                                                                  *)

InStatus(s, status) == {n \in DOMAIN s.nodes : s.nodes[n].status = status}

Ready(s, n) == s.nodes[n].status \in {"pending", "failed"}

Dispatch(s, ns) == [kind |-> "dispatch", positions |-> {<<n, s.nodes[n].attempts + 1>> : n \in ns}]
Finish(kind, code) == [kind |-> kind, code |-> code, positions |-> {}]

(* Broken, for mutation testing: the cap is one attempt too late.          *)
SpentLate(g, s, n) == s.nodes[n].status = "failed" /\ s.nodes[n].attempts > g.retryCap + 1

Spent(g, s, n) == s.nodes[n].status = "failed" /\ s.nodes[n].attempts > g.retryCap

Fits(g, s, i) ==
  /\ Ready(s, i) /\ ~Spent(g, s, i)
  /\ s.seats[i].outcome \in {"none", "invalid", "non-verdict"}

(* The seats of one review decision: those that fit, in declaration order, *)
(* up to the seat concurrency.                                             *)
FittingUpTo(g, s, k) == {j \in DOMAIN g.seats : j <= k /\ Fits(g, s, g.seats[j])}

Panel(g, s) ==
  {g.seats[k] : k \in {j \in DOMAIN g.seats :
                         /\ Fits(g, s, g.seats[j])
                         /\ Cardinality(FittingUpTo(g, s, j)) <= g.seatConcurrency}}

DecideBody(s) ==
  CASE Ready(s, "generator")                          -> Dispatch(s, {"generator"})
    [] ~Ready(s, "generator") /\ Ready(s, "evaluator") -> Dispatch(s, {"evaluator"})
    [] OTHER                                          -> Dispatch(s, {})

Unresolved(g, s) == {i \in SeatsOf(g) : s.seats[i].outcome \in {"none", "non-verdict"}}

(* What the review comes to once no seat is left to be asked.              *)
Conclude(g, s) ==
  LET findings  == BlockingFindings(g, s)
      recurring == {f \in findings : s.rounds[f] >= 3} IN
  IF QuorumHolds(g, s) THEN Finish("complete", "none")
  ELSE IF recurring # {} THEN Finish("fail", "FINDING_ESCALATED")
  ELSE IF findings # {} /\ s.restarts >= g.maxReviewRestarts THEN Finish("fail", "CONVERGENCE_EXHAUSTED")
  ELSE IF findings # {} /\ Ready(s, "repair") THEN Dispatch(s, {"repair"})
  ELSE IF Unresolved(g, s) # {} THEN Finish("pause", "unresolved")
  ELSE Finish("fail", "QUORUM_UNREACHABLE")

DecideReview(g, s) ==
  IF s.evidence = NoEvidence THEN Finish("fail", "CONVERGENCE_REVIEW_EVIDENCE_INVALID")
  ELSE IF Panel(g, s) # {} THEN Dispatch(s, Panel(g, s))
  ELSE Conclude(g, s)

FailedLoop(g, s) ==
  IF s.phase = "settled" THEN InStatus(s, "failed") \cap LoopNodes
                         ELSE {n \in LoopNodes : Spent(g, s, n)}

(* Broken, for mutation testing: it does not wait for the rest of a panel. *)
ConvergenceDecideEarly(g, s) ==
  IF s.pauseReason # "none" THEN Finish("pause", s.pauseReason)
  ELSE IF FailedLoop(g, s) # {} THEN Finish("fail", "CONVERGENCE_NODE_FAILED")
  ELSE CASE s.phase = "settled" -> Finish("fail", "CONVERGENCE_EXHAUSTED")
         [] s.phase = "body"    -> DecideBody(s)
         [] s.phase = "review"  -> DecideReview(g, s)

ConvergenceDecide(g, s) ==
  IF InStatus(s, "in-flight") # {} THEN Dispatch(s, {})
  ELSE IF s.pauseReason # "none" THEN Finish("pause", s.pauseReason)
  ELSE IF s.phase # "settled" /\ InStatus(s, "paused") # {} THEN Finish("pause", "waits")
  ELSE IF FailedLoop(g, s) # {} THEN Finish("fail", "CONVERGENCE_NODE_FAILED")
  ELSE CASE s.phase = "settled" -> Finish("fail", "CONVERGENCE_EXHAUSTED")
         [] s.phase = "body"    -> DecideBody(s)
         [] s.phase = "review"  -> DecideReview(g, s)

-----------------------------------------------------------------------------
(* describe().bounds                                                       *)

MinDispatches(g) == 2 + Len(g.seats)

MaxDispatches(g) ==
  (2 * (g.maxIterations + g.maxReviewRestarts)
     + (g.maxReviewRestarts + 1) * Len(g.seats) + g.maxReviewRestarts) * (1 + g.retryCap)

MaxFanOut(g) == g.seatConcurrency
=============================================================================
