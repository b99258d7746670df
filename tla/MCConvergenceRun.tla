-------------------------- MODULE MCConvergenceRun --------------------------
(* Instances of ConvergenceRun for TLC: two seats, one of which answers for *)
(* one of two inputs only and may be skipped.                               *)
EXTENDS ConvergenceRun

Of(n) == [provider |-> n, family |-> n]

Writer == Of("w")
A == Of("a")
B == Of("b")

Piece(p, q) == [hashes |-> [k \in {"p", "q"} |-> IF k = "p" THEN p ELSE q],
                fingerprint |-> q, proof |-> 1]

(* The second piece of evidence differs in an input one seat ignores.      *)
First  == Piece(1, 1)
Second == Piece(1, 2)

Definition(quorum, diverse, iterations, restarts, concurrency, retryCap) ==
  [seats |-> <<"s1", "s2">>,
   watches |-> [i \in {"s1", "s2"} |-> IF i = "s1" THEN {"p"} ELSE {}],
   targets |-> [n \in {"generator", "evaluator", "repair", "s1", "s2"} |->
      CASE n = "generator" -> {Writer} [] n = "s1" -> {A} [] n = "s2" -> {B} [] OTHER -> {}],
   skippable |-> {"s2"}, maxIterations |-> iterations, maxReviewRestarts |-> restarts,
   quorum |-> quorum, requireDiversity |-> diverse, seatConcurrency |-> concurrency, retryCap |-> retryCap]

(* A repair, a second iteration, and one round with a retry.               *)
MCGraphs == {Definition(1, FALSE, 1, 1, 2, 0), Definition(1, FALSE, 2, 0, 1, 0), Definition(2, TRUE, 1, 0, 1, 1)}

(* Any engine may fall back to one that another node declares.             *)
MCAnswers(n) == CASE n = "generator" -> {A, Unknown}
                  [] n = "s1"        -> {A}
                  [] n = "s2"        -> {A, B}
                  [] OTHER           -> {}

MCGates == {[gateMet |-> TRUE, evidence |-> First], [gateMet |-> TRUE, evidence |-> Second],
            [gateMet |-> TRUE, evidence |-> NoEvidence], [gateMet |-> FALSE, evidence |-> First]}

Review(verdict, confident, evidence, findings) ==
  [verdict |-> verdict, confident |-> confident, evidence |-> evidence, findings |-> findings]

MCReviews == {Review("pass", TRUE, First, {}), Review("pass", TRUE, Second, {}),
              Review("pass", FALSE, First, {}), Review("findings", TRUE, First, {"f"}),
              Review("none", FALSE, NoEvidence, {})}

(* One seat that reports findings or fails, over two repairs.              *)
SoloGraphs == {[Definition(1, FALSE, 2, 2, 1, 0) EXCEPT !.seats = <<"s1">>, !.skippable = {}]}

SoloGates   == {[gateMet |-> TRUE, evidence |-> First], [gateMet |-> TRUE, evidence |-> Second]}
SoloReviews == {Review("pass", TRUE, First, {}), Review("findings", TRUE, First, {"f"})}
=============================================================================
