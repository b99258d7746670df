---------------------------- MODULE CallbackHistory ----------------------------
(***************************************************************************)
(* The history of the questions a run has put to people, agents and         *)
(* services: what the callback events of its stream fold to.  The fold is   *)
(* applyEvent of packages/runtime/src/callback/client.ts, with the approval *)
(* subjects and records that read of stored-client.ts collects beside it.   *)
(*                                                                         *)
(* A question is a request: its identity contains the digest of its         *)
(* content, so that a digest that does not belong to a question cannot be   *)
(* distinguished here from another question.                               *)
(***************************************************************************)
EXTENDS Naturals, FiniteSets

CONSTANTS
  Questions,        \* the requests that may be posted
  GateOf,           \* the gate each of them belongs to
  SubjectBacked,    \* those whose input names an approval subject
  Routers,          \* the names routers give themselves
  Responses,        \* what a router may answer
  Valid,            \* the responses that fit the schema of the question
  Actors,           \* who may be named as the one that decided
  None              \* nothing, or nobody

ASSUME QuestionsHaveGates == GateOf = [q \in Questions |-> GateOf[q]] /\ SubjectBacked \subseteq Questions
ASSUME NoneIsNothing == None \notin Routers \cup Responses \cup Actors

Claim    == [router : Routers \cup {None}, token : Nat]
Answer   == [router : Routers \cup {None}, response : Responses \cup {None}]
Approval == [router : Routers \cup {None}, response : Responses \cup {None}, actor : Actors \cup {None}]

NoClaim    == [router |-> None, token |-> 0]
NoAnswer   == [router |-> None, response |-> None]
NoApproval == [router |-> None, response |-> None, actor |-> None]

(* RequestState, with what submit looks up of its question in the history:  *)
(* its last claim, its answer, its subject and its approval.                *)
RequestState ==
  [status : {"absent", "pending", "claimed", "answered", "superseded"},
   owner : Claim, last : Claim, subject : BOOLEAN, answer : Answer, approval : Approval]

Unasked == [status |-> "absent", owner |-> NoClaim, last |-> NoClaim, subject |-> FALSE,
            answer |-> NoAnswer, approval |-> NoApproval]

(* A history reads as long as no event is one that the fold refuses.        *)
History == [valid : BOOLEAN, of : [Questions -> RequestState]]

NoHistory == [valid |-> TRUE, of |-> [q \in Questions |-> Unasked]]

IsLive(r) == r.status \in {"pending", "claimed"}

-----------------------------------------------------------------------------
(* The events, one definition for each: the history after it.               *)

Fold(h, allowed, q, r) == IF allowed THEN [h EXCEPT !.of[q] = r] ELSE [h EXCEPT !.valid = FALSE]

(* callback-requested, with its subject or without: a question that is not  *)
(* live is live again, and its subject is recorded once.                    *)
Requested(h, q, subject) ==
  LET r == h.of[q] IN
  Fold(h, r.status \in {"absent", "superseded"} /\ ~(r.subject /\ subject), q,
       [r EXCEPT !.status = "pending", !.owner = NoClaim, !.subject = @ \/ subject])

Claimed(h, q, claim) ==
  Fold(h, h.of[q].status = "pending", q,
       [h.of[q] EXCEPT !.status = "claimed", !.owner = claim, !.last = claim])

Released(h, q, router) ==
  Fold(h, h.of[q].status = "claimed" /\ h.of[q].owner.router = router, q,
       [h.of[q] EXCEPT !.status = "pending", !.owner = NoClaim])

(* callback-rejected changes nothing, and is refused where it does not fit. *)
Rejected(h, q, router) ==
  Fold(h, h.of[q].status = "claimed" /\ h.of[q].owner.router = router, q, h.of[q])

Submitted(h, q, answer) ==
  Fold(h, /\ h.of[q].status = "claimed" /\ h.of[q].owner.router = answer.router
          /\ answer.response \in Valid, q,
       [h.of[q] EXCEPT !.status = "answered", !.owner = NoClaim, !.answer = answer])

(* approval-recorded: a second one leaves the question with no approval     *)
(* that can be used, which is counted here as a refusal of the fold.        *)
Approved(h, q, approval) ==
  Fold(h, h.of[q].approval = NoApproval, q, [h.of[q] EXCEPT !.approval = approval])

Superseded(h, Q) ==
  [valid |-> h.valid /\ \A q \in Q : IsLive(h.of[q]),
   of |-> [q \in Questions |->
     IF q \in Q /\ IsLive(h.of[q]) THEN [h.of[q] EXCEPT !.status = "superseded", !.owner = NoClaim]
                                   ELSE h.of[q]]]
================================================================================
