------------------------------ MODULE SurfaceSession ------------------------------
(***************************************************************************)
(* One session of packages/surface/src: the server of server.mjs, the       *)
(* requests of the pages that are open on it, its timers, and the launcher  *)
(* of launcher.mjs that waits for the one decision and writes its frame.    *)
(*                                                                         *)
(* The server is one process: what it does between two awaits is one step.  *)
(* A request is one of a page that has the token (the checks of host,       *)
(* origin, token and route come before any state and are left out), and a   *)
(* response is sent in one step and goes out in another.  A payload that    *)
(* cannot be framed is an error of the handler; an ending of the server's   *)
(* own always can, as what it carries was taken apart before.  Static files *)
(* and the redaction of payloads are left out.                              *)
(***************************************************************************)
EXTENDS Naturals

CONSTANTS
  MaxRequests   \* bound: the requests that arrive

ASSUME RequestsAreCountable == MaxRequests \in Nat

VARIABLES
  claim,     \* terminalState and terminalClaim
  flags,     \* answerPending, finalizeAfterAnswer and decisionSettled
  timers,    \* which of the three timers are set
  requests,  \* the requests that have arrived, the nth at n
  arrived,   \* how many
  launcher   \* where runSurface is, and what it wrote

vars == <<claim, flags, timers, requests, arrived, launcher>>

Statuses == {"completed", "cancelled", "timed_out", "interrupted"}

Pending == [status |-> "pending", by |-> 0]

Kinds == {"heartbeat", "cancel", "ack", "app"}

(* What a response does once it is out: armAcknowledgement, finalizeClaim.  *)
Effects == {"none", "arm", "finalize"}

NoRequest == [kind |-> "none", step |-> "over", answer |-> "none", open |-> FALSE,
              effect |-> "none", knows |-> FALSE]

Request ==
  [kind : Kinds \union {"none"},
   step : {"reading", "running", "operating", "aborted", "kept", "over"},
   answer : {"none", "ok", "won", "refused", "error"}, open : BOOLEAN,
   effect : Effects, knows : BOOLEAN]

Init ==
  /\ claim = Pending
  /\ flags = [answering |-> FALSE, finalizeAfter |-> FALSE, settled |-> FALSE]
  /\ timers = {"session", "lease"}
  /\ requests = [n \in 1..MaxRequests |-> NoRequest]
  /\ arrived = 0
  /\ launcher = [pc |-> "placing", wrote |-> "nothing"]

Open == claim.status = "pending"

Listening == launcher.pc # "done"

-----------------------------------------------------------------------------
(* The one terminal decision.  Each of these takes and gives the claim, the *)
(* flags, the timers and the requests together, as the calls of one step    *)
(* build on each other.                                                     *)

Session == [claim |-> claim, flags |-> flags, timers |-> timers, requests |-> requests]

Becomes(s) ==
  /\ claim' = s.claim
  /\ flags' = s.flags
  /\ timers' = s.timers
  /\ requests' = s.requests

(* claimTerminal: the first claim stands.  It clears the timers and aborts  *)
(* the operations that run.                                                 *)
ClaimTerminal(s, status, by, deferred) ==
  IF s.claim.status # "pending" THEN s
  ELSE [s EXCEPT
    !.claim = [status |-> status, by |-> by],
    !.flags.answering = deferred,
    !.timers = @ \ {"session", "lease"},
    !.requests = [n \in 1..MaxRequests |->
      IF @[n].step = "operating" THEN [@[n] EXCEPT !.step = "aborted"] ELSE @[n]]]

FinalizeClaim(s) ==
  IF s.claim.status = "pending" \/ s.flags.settled THEN s
  ELSE [s EXCEPT !.flags.settled = TRUE, !.timers = @ \ {"ack"}]

ArmAcknowledgement(s) ==
  LET t == [s EXCEPT !.flags.answering = FALSE]
  IN  IF t.flags.finalizeAfter THEN FinalizeClaim(t)
      ELSE IF t.flags.settled \/ t.claim.status = "pending" THEN t
      ELSE [t EXCEPT !.timers = @ \union {"ack"}]

(* Broken, for mutation testing: a response that is gone starts no clock.   *)
ArmOpenOnly(s, r) ==
  IF ~s.requests[r].open THEN s ELSE [s EXCEPT !.requests[r].effect = "arm"]

(* armWhenAnswered: the clock starts when the response is out or its        *)
(* connection is gone.                                                      *)
ArmWhenAnswered(s, r) ==
  IF ~s.requests[r].open THEN ArmAcknowledgement(s)
  ELSE [s EXCEPT !.requests[r].effect = "arm"]

(* sendJson writes nothing where a head was sent or the response is gone.   *)
Send(s, r, answer) ==
  IF s.requests[r].answer # "none" \/ ~s.requests[r].open THEN s
  ELSE [s EXCEPT !.requests[r].answer = answer]

(* Broken, for mutation testing: an interrupt does not wait for an answer   *)
(* that is on its way.                                                      *)
InterruptAtOnce(s) ==
  FinalizeClaim(ClaimTerminal(s, "interrupted", 0, FALSE))

(* surface.interrupt.                                                       *)
Interrupt(s) ==
  IF s.claim.status # "pending" /\ s.flags.answering
  THEN [s EXCEPT !.flags.finalizeAfter = TRUE]
  ELSE FinalizeClaim(ClaimTerminal(s, "interrupted", 0, FALSE))

(* The part of surface.stop before the server is closed.                    *)
StopSession(s) ==
  LET t == FinalizeClaim(ClaimTerminal(s, "interrupted", 0, FALSE))
  IN  [t EXCEPT !.timers = {}]

-----------------------------------------------------------------------------
(* Requests.                                                                *)

(* renewLease: the timer is set again, unless the session is over.          *)
RenewLease(s) ==
  IF s.claim.status = "pending" THEN [s EXCEPT !.timers = @ \union {"lease"}] ELSE s

(* A page that has the operation id: some response that carried it was      *)
(* written, whether or not the server knows yet that it went out.           *)
IdIsKnown == \E n \in 1..MaxRequests : requests[n].answer = "won"

Over(s, r) == [s EXCEPT !.requests[r].step = "over", !.requests[r].kind = "none"]

(* The head of a request arrives.  A page acknowledges with the id, if it   *)
(* has it, or with another.  The two kinds that need an open session are    *)
(* refused here, and a call of the app's interface renews the lease.        *)
Arrive(kind) ==
  /\ Listening
  /\ arrived < MaxRequests
  /\ arrived' = arrived + 1
  /\ \E knows \in BOOLEAN :
       /\ knows => kind = "ack" /\ IdIsKnown
       /\ LET r == arrived + 1
              at == [NoRequest EXCEPT !.kind = kind, !.step = "reading", !.open = TRUE,
                                      !.knows = knows]
              s == [Session EXCEPT !.requests[r] = at]
          IN  Becomes(
                IF kind \in {"heartbeat", "app"} /\ ~Open
                THEN Over(Send(s, r, "refused"), r)
                ELSE IF kind = "app" THEN RenewLease(s) ELSE s)
  /\ UNCHANGED launcher

Reading(r, kind) == requests[r].step = "reading" /\ requests[r].kind = kind

(* The body cannot be read: it is none the server takes, or the connection  *)
(* broke under it.                                                          *)
BadBody(r) ==
  /\ requests[r].step = "reading"
  /\ Becomes(Over(Send(Session, r, "error"), r))
  /\ UNCHANGED <<arrived, launcher>>

Heartbeat(r) ==
  /\ Reading(r, "heartbeat")
  /\ Becomes(Over(IF Open THEN Send(RenewLease(Session), r, "ok")
                  ELSE Send(Session, r, "refused"), r))
  /\ UNCHANGED <<arrived, launcher>>

Cancel(r) ==
  /\ Reading(r, "cancel")
  /\ Becomes(Over(
       IF Open
       THEN Send(ArmWhenAnswered(ClaimTerminal(Session, "cancelled", r, TRUE), r), r, "won")
       ELSE Send(Session, r, "refused"), r))
  /\ UNCHANGED <<arrived, launcher>>

(* The acknowledgement names the operation of the claim.                    *)
Matches(r) == ~Open /\ requests[r].knows

(* POST /api/ack: the decision is handed off once its answer is out.        *)
Acknowledge(r) ==
  /\ Reading(r, "ack")
  /\ Becomes(Over(
       IF Matches(r)
       THEN Send([Session EXCEPT !.requests[r].effect = "finalize"], r, "ok")
       ELSE Send(Session, r, "refused"), r))
  /\ UNCHANGED <<arrived, launcher>>

(* The body of a call of the app's interface is there: the session is       *)
(* looked at again, and the handler is called.                              *)
Call(r) ==
  /\ Reading(r, "app")
  /\ Becomes(IF Open THEN [Session EXCEPT !.requests[r].step = "running"]
             ELSE Over(Send(Session, r, "refused"), r))
  /\ UNCHANGED <<arrived, launcher>>

-----------------------------------------------------------------------------
(* Handlers.  A handler may go on after it returned, with its session.      *)

Handling(r) == requests[r].step \in {"running", "kept"}

(* Broken, for mutation testing: a completion of another stands for one's   *)
(* own.                                                                     *)
CompleteAnyhow(r) ==
  /\ Handling(r)
  /\ Becomes(Send(ArmWhenAnswered(ClaimTerminal(Session, "completed", r, TRUE), r), r, "won"))
  /\ UNCHANGED <<arrived, launcher>>

(* session.complete of this request, with a payload that can be framed:     *)
(* the claim, the clock and the answer are one step.  With a payload that   *)
(* cannot, or in a session that is over, the handler gets an error and the  *)
(* state is as it was.                                                      *)
Complete(r) ==
  /\ Handling(r)
  /\ Open
  /\ Becomes(Send(ArmWhenAnswered(ClaimTerminal(Session, "completed", r, TRUE), r), r, "won"))
  /\ UNCHANGED <<arrived, launcher>>

(* session.run, which the handler waits for: refused in a session that is   *)
(* over, and aborted by a claim.                                            *)
RunOperation(r) ==
  /\ requests[r].step = "running"
  /\ Open
  /\ requests' = [requests EXCEPT ![r].step = "operating"]
  /\ UNCHANGED <<claim, flags, timers, arrived, launcher>>

OperationEnds(r) ==
  /\ requests[r].step \in {"operating", "aborted"}
  /\ requests' = [requests EXCEPT ![r].step = "running"]
  /\ UNCHANGED <<claim, flags, timers, arrived, launcher>>

(* What a request is told when its handler returns and has not been         *)
(* answered: that its session is over, if it ended while the handler ran,   *)
(* and else what the handler gave.                                          *)
AnswerOf(r) == IF Open THEN "ok" ELSE "refused"

(* The handler returns, or throws; it may leave work behind.                *)
Return(r) ==
  /\ requests[r].step = "running"
  /\ \E answer \in {AnswerOf(r), "error"}, step \in {"kept", "over"} :
       Becomes([Over(Send(Session, r, answer), r) EXCEPT !.requests[r].step = step])
  /\ UNCHANGED <<arrived, launcher>>

-----------------------------------------------------------------------------
(* The connections.                                                         *)

Happens(s, effect) ==
  CASE effect = "arm"      -> ArmAcknowledgement(s)
    [] effect = "finalize" -> FinalizeClaim(s)
    [] effect = "none"     -> s

(* The event finish of a response.  Its close follows, and does nothing     *)
(* that finish has not done.                                                *)
Finish(r) ==
  /\ requests[r].open /\ requests[r].answer # "none"
  /\ Becomes(Happens([Session EXCEPT !.requests[r].open = FALSE, !.requests[r].effect = "none"],
                     requests[r].effect))
  /\ UNCHANGED <<arrived, launcher>>

(* Broken, for mutation testing: a connection that closes starts no clock.  *)
ClosedUnheard(s, r) == [s EXCEPT !.requests[r].open = FALSE, !.requests[r].effect = "none"]

Closed(s, r) ==
  LET t == [s EXCEPT !.requests[r].open = FALSE, !.requests[r].effect = "none"]
  IN  IF s.requests[r].effect = "arm" THEN ArmAcknowledgement(t) ELSE t

(* The connection closes before the answer is out: the clock of a claim     *)
(* starts, and an acknowledgement is none.                                  *)
Drop(r) ==
  /\ requests[r].open
  /\ Becomes(Closed(Session, r))
  /\ UNCHANGED <<arrived, launcher>>

-----------------------------------------------------------------------------
(* Timers and signals.                                                      *)

SessionTimesOut ==
  /\ "session" \in timers
  /\ Becomes(FinalizeClaim(ClaimTerminal([Session EXCEPT !.timers = @ \ {"session"}], "timed_out", 0, FALSE)))
  /\ UNCHANGED <<arrived, launcher>>

LeaseLapses ==
  /\ "lease" \in timers
  /\ Becomes(FinalizeClaim(ClaimTerminal([Session EXCEPT !.timers = @ \ {"lease"}], "timed_out", 0, FALSE)))
  /\ UNCHANGED <<arrived, launcher>>

AcknowledgementTimesOut ==
  /\ "ack" \in timers
  /\ Becomes(FinalizeClaim([Session EXCEPT !.timers = @ \ {"ack"}]))
  /\ UNCHANGED <<arrived, launcher>>

(* A signal of the process or the caller's abort, until release.            *)
Signal ==
  /\ launcher.pc \in {"placing", "waiting"}
  /\ Becomes(Interrupt(Session))
  /\ UNCHANGED <<arrived, launcher>>

-----------------------------------------------------------------------------
(* The launcher.                                                            *)

(* The page is placed, and the ready hook of the caller returns or throws.  *)
Place ==
  /\ launcher.pc = "placing"
  /\ \E pc \in {"waiting", "stopping"} : launcher' = [launcher EXCEPT !.pc = pc]
  /\ UNCHANGED <<claim, flags, timers, requests, arrived>>

(* waitForDecision gives the claim, and the handlers of signals are let go. *)
Decided ==
  /\ launcher.pc = "waiting"
  /\ flags.settled
  /\ launcher' = [launcher EXCEPT !.pc = "writing"]
  /\ UNCHANGED <<claim, flags, timers, requests, arrived>>

(* The stream takes the frame, or fails.                                    *)
WriteFrame ==
  /\ launcher.pc = "writing"
  /\ \E wrote \in {claim.status, "nothing"} : launcher' = [pc |-> "stopping", wrote |-> wrote]
  /\ UNCHANGED <<claim, flags, timers, requests, arrived>>

(* The finally: the session is stopped, and its connections are closed.     *)
Stop ==
  /\ launcher.pc = "stopping"
  /\ LET s == StopSession(Session)
     IN  Becomes([s EXCEPT
           !.flags.answering = FALSE,
           !.requests = [r \in 1..MaxRequests |->
             [@[r] EXCEPT !.open = FALSE, !.effect = "none"]]])
  /\ launcher' = [launcher EXCEPT !.pc = "done"]
  /\ UNCHANGED arrived

-----------------------------------------------------------------------------

Serve(r) ==
  \/ BadBody(r) \/ Heartbeat(r) \/ Cancel(r) \/ Acknowledge(r) \/ Call(r)
  \/ Complete(r) \/ RunOperation(r) \/ OperationEnds(r) \/ Return(r)
  \/ Finish(r) \/ Drop(r)

Next ==
  \/ \E kind \in Kinds : Arrive(kind)
  \/ \E r \in 1..MaxRequests : Serve(r)
  \/ SessionTimesOut \/ LeaseLapses \/ AcknowledgementTimesOut
  \/ Signal
  \/ Place \/ Decided \/ WriteFrame \/ Stop

Spec == Init /\ [][Next]_vars

(* Timers fire, a response that was written goes out or its connection      *)
(* closes, a page is placed, and a decision is taken up.  Nothing is        *)
(* assumed of a page, of a handler or of the reader of the frame.           *)
Fairness ==
  /\ WF_vars(SessionTimesOut)
  /\ WF_vars(AcknowledgementTimesOut)
  /\ \A r \in 1..MaxRequests : WF_vars(requests[r].answer # "none" /\ (Finish(r) \/ Drop(r)))
  /\ WF_vars(Place)
  /\ WF_vars(Stop)

FairSpec == Spec /\ Fairness

-----------------------------------------------------------------------------
(* Every variable keeps its shape.                                          *)
TypeOK ==
  /\ claim \in [status : Statuses \union {"pending"}, by : 0..MaxRequests]
  /\ flags \in [answering : BOOLEAN, finalizeAfter : BOOLEAN, settled : BOOLEAN]
  /\ timers \subseteq {"session", "lease", "ack"}
  /\ requests \in [1..MaxRequests -> Request]
  /\ arrived \in 0..MaxRequests
  /\ launcher \in [pc : {"placing", "waiting", "writing", "stopping", "done"},
                   wrote : Statuses \union {"nothing"}]

(* Of the requests that race for the decision one is told that it won, and  *)
(* the claim is its own: no two pages report success while one result is    *)
(* framed (server.mjs, the comment on completedHere).  The winner is never  *)
(* told that it lost, and the frame the launcher wrote is of that claim.    *)
OneWinner ==
  /\ \A r \in 1..MaxRequests : requests[r].answer = "won" => claim.by = r
  /\ claim.by # 0 => requests[claim.by].answer # "refused"
  /\ launcher.wrote # "nothing" => launcher.wrote = claim.status

(* The caller learns of a decision that a page made only when the answer    *)
(* with the operation id has gone out or its connection is gone, unless the *)
(* launcher is being torn down (the comments in complete and interrupt:     *)
(* "the browser must receive its 200 before the caller can be told").       *)
HandOffAfterAnswer ==
  flags.settled /\ claim.by # 0 /\ launcher.pc # "done" =>
    \/ ~requests[claim.by].open
    \/ \E r \in 1..MaxRequests : requests[r].knows

(* A session is never left without a live bound (the comment in             *)
(* claimTerminal): open, both its timers run; claimed and not handed off,   *)
(* the acknowledgement clock runs or an answer on its way will start it.    *)
AlwaysBounded ==
  /\ Open /\ Listening => {"session", "lease"} \subseteq timers
  /\ ~Open /\ ~flags.settled =>
       \/ "ack" \in timers
       \/ \E r \in 1..MaxRequests : requests[r].open /\ requests[r].effect = "arm"
                                    /\ requests[r].answer # "none"

(* The session comes to its decision, whatever pages and handlers do.       *)
DecisionSettles == <>flags.settled
================================================================================
