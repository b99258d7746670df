------------------------- MODULE SurfaceSessionProofs -------------------------
(***************************************************************************)
(* Proofs about SurfaceSession, for any number of requests: every state has *)
(* its type, one request wins the decision and knows it (OneWinner), the    *)
(* caller waits for the winner's answer (HandOffAfterAnswer), and a session *)
(* that is not over is never without a bound (AlwaysBounded).               *)
(*                                                                          *)
(* The argument: while the session is open nothing of an ending exists, no  *)
(* winner, no clock and no settled decision (Undecided). The step that      *)
(* claims it makes one request the winner and sets up what that request     *)
(* still owes: an answer on its way that will start the clock, or the clock *)
(* (WinnerHolds); no other request is told that it won (Claimed). That a    *)
(* page can only acknowledge what it was told is in Asked. The calls a step *)
(* makes are described first, each by what it leaves as it was, so that the *)
(* lemma of an action is about the one request it serves.                   *)
(***************************************************************************)
EXTENDS SurfaceSession, TLAPS

-----------------------------------------------------------------------------

(* What the calls of one step take and give.                                *)
Sessions ==
  [claim : [status : Statuses \union {"pending"}, by : 0..MaxRequests],
   flags : [answering : BOOLEAN, finalizeAfter : BOOLEAN, settled : BOOLEAN],
   timers : SUBSET {"session", "lease", "ack"},
   requests : [1..MaxRequests -> Request]]

(* A handler that may still be answered, or complete.                       *)
Live == {"running", "operating", "aborted", "kept"}

(* An open session: nothing has been claimed, settled or armed, both its    *)
(* timers run, and no request that may still complete was told that it      *)
(* lost.                                                                    *)
Undecided ==
  Open =>
    /\ claim.by = 0 /\ ~flags.settled
    /\ "ack" \notin timers
    /\ Listening => {"session", "lease"} \subseteq timers
    /\ \A r \in 1..MaxRequests :
         /\ requests[r].answer # "won" /\ requests[r].effect # "arm"
         /\ requests[r].step \in Live => requests[r].answer # "refused"

(* The requests: none has arrived that is not counted, a request whose body *)
(* is awaited has no answer, and what hands the decision off is an          *)
(* acknowledgement that knows the operation.                                *)
Asked ==
  \A r \in 1..MaxRequests :
    /\ r > arrived => requests[r] = NoRequest
    /\ requests[r].step = "reading" => requests[r].answer = "none"
    /\ requests[r].effect = "finalize" => requests[r].knows

(* The request that made the claim: it has arrived and was not told that it *)
(* lost. While its connection is open its answer is on its way and will     *)
(* start the clock, an interrupt waits for it, and only an acknowledgement  *)
(* can have settled the decision; when the connection is gone the clock     *)
(* runs or the decision has settled.                                        *)
WinnerHolds ==
  /\ claim.by <= arrived
  /\ requests[claim.by].answer # "refused"
  /\ requests[claim.by].open =>
       /\ requests[claim.by].answer # "none" /\ requests[claim.by].effect = "arm"
       /\ flags.answering /\ "ack" \notin timers
       /\ flags.settled => \E r \in 1..MaxRequests : requests[r].knows
  /\ ~requests[claim.by].open => flags.settled \/ "ack" \in timers

(* A claimed session: the winner is the only request that was told so or    *)
(* that starts the clock, and a claim of no request has settled.            *)
Claimed ==
  ~Open =>
    /\ timers \subseteq {"ack"}
    /\ \A r \in 1..MaxRequests : requests[r].answer = "won" \/ requests[r].effect = "arm" => r = claim.by
    /\ claim.by = 0 => flags.settled
    /\ claim.by # 0 => WinnerHolds

(* A frame is written of a claim, which it is of for good.                  *)
Writing ==
  /\ launcher.pc = "writing" => ~Open
  /\ launcher.wrote # "nothing" => launcher.wrote = claim.status

(* The invariant.                                                           *)
IInv == TypeOK /\ Undecided /\ Asked /\ Claimed /\ Writing


-----------------------------------------------------------------------------

(* A call that leaves the claim, the flags and the timers as they were.     *)
Kept(s, t) == t.claim = s.claim /\ t.flags = s.flags /\ t.timers = s.timers

(* A call that leaves every request but r as it was.                        *)
Others(s, t, r) == \A n \in 1..MaxRequests : n # r => t.requests[n] = s.requests[n]

(* A call that changes of the session at most the step and the answer of r. *)
Stays(s, t, r) ==
  /\ Kept(s, t) /\ Others(s, t, r)
  /\ t.requests[r].open = s.requests[r].open /\ t.requests[r].knows = s.requests[r].knows
  /\ t.requests[r].effect = s.requests[r].effect

(* What sendJson leaves as the answer of r.                                 *)
Answers(s, t, r, answer) ==
  t.requests[r].answer =
    IF s.requests[r].answer = "none" /\ s.requests[r].open THEN answer ELSE s.requests[r].answer

(* What claimTerminal leaves of an open session.                            *)
Claims(s, t, by, deferred) ==
  /\ t.claim.status # "pending" /\ t.claim.by = by
  /\ t.flags.answering = deferred
  /\ t.flags.settled = s.flags.settled
  /\ t.timers = s.timers \ {"session", "lease"}

(* What claimTerminal leaves of the requests.                               *)
Aborts(s, t) ==
  \A n \in 1..MaxRequests :
    /\ t.requests[n].open = s.requests[n].open /\ t.requests[n].knows = s.requests[n].knows
    /\ t.requests[n].effect = s.requests[n].effect /\ t.requests[n].answer = s.requests[n].answer
    /\ t.requests[n].step = s.requests[n].step \/ t.requests[n].step = "aborted"
    /\ s.requests[n].step = "over" => t.requests[n] = s.requests[n]

(* The session with q as its request r.                                     *)
Put(s, r, q) == [s EXCEPT !.requests = [@ EXCEPT ![r] = q]]

(* The session with these parts.                                            *)
With(s, c, f, m, q) == [s EXCEPT !.claim = c, !.flags = f, !.timers = m, !.requests = q]

(* The session is what the variables say.                                   *)
LEMMA SessionIs ==
  ASSUME IInv
  PROVE  /\ Session \in Sessions
         /\ Session.claim = claim /\ Session.flags = flags
         /\ Session.timers = timers /\ Session.requests = requests
BY DEF IInv, TypeOK, Session, Sessions

(* No frame is written of an open session.                                  *)
LEMMA Unwritten ==
  ASSUME IInv, Open
  PROVE  launcher.wrote = "nothing"
BY DEF IInv, TypeOK, Writing, Open, Statuses

(* A session whose parts are set has them.                                  *)
LEMMA FieldsAre ==
  ASSUME NEW s \in Sessions, NEW c \in [status : Statuses \union {"pending"}, by : 0..MaxRequests],
         NEW f \in [answering : BOOLEAN, finalizeAfter : BOOLEAN, settled : BOOLEAN],
         NEW m \in SUBSET {"session", "lease", "ack"}, NEW q \in [1..MaxRequests -> Request],
         NEW t, t = With(s, c, f, m, q)
  PROVE  t \in Sessions /\ t.claim = c /\ t.flags = f /\ t.timers = m /\ t.requests = q
BY DEF Sessions, With

(* A session with one request set has it, and the rest as it was.           *)
LEMMA PutIs ==
  ASSUME NEW s \in Sessions, NEW r \in 1..MaxRequests, NEW q \in Request,
         NEW t, t = Put(s, r, q)
  PROVE  t \in Sessions /\ Kept(s, t) /\ Others(s, t, r) /\ t.requests[r] = q
<1>1. [s.requests EXCEPT ![r] = q] \in [1..MaxRequests -> Request]
  BY DEF Sessions
<1>2. t \in Sessions /\ Kept(s, t) /\ t.requests = [s.requests EXCEPT ![r] = q]
  BY <1>1 DEF Sessions, Kept, Put
<1>3. QED
  BY <1>2 DEF Sessions, Others

(* Setting the step of a request leaves the rest of it.                     *)
LEMMA StepIs ==
  ASSUME NEW q \in Request,
         NEW step \in {"reading", "running", "operating", "aborted", "kept", "over"},
         NEW w, w = [q EXCEPT !.step = step]
  PROVE  w \in Request /\ w.step = step /\ w.open = q.open /\ w.knows = q.knows
         /\ w.effect = q.effect /\ w.answer = q.answer
BY DEF Request

(* So does ending it.                                                       *)
LEMMA OverRequestIs ==
  ASSUME NEW q \in Request, NEW w, w = [q EXCEPT !.step = "over", !.kind = "none"]
  PROVE  w \in Request /\ w.step = "over" /\ w.open = q.open /\ w.knows = q.knows
         /\ w.effect = q.effect /\ w.answer = q.answer
BY DEF Request

(* So does answering it.                                                    *)
LEMMA AnswerIs ==
  ASSUME NEW q \in Request, NEW answer \in {"ok", "won", "refused", "error"},
         NEW w, w = [q EXCEPT !.answer = answer]
  PROVE  w \in Request /\ w.step = q.step /\ w.open = q.open /\ w.knows = q.knows
         /\ w.effect = q.effect /\ w.answer = answer
BY DEF Request

(* So does giving its response an effect.                                   *)
LEMMA EffectIs ==
  ASSUME NEW q \in Request, NEW effect \in Effects, NEW w, w = [q EXCEPT !.effect = effect]
  PROVE  w \in Request /\ w.step = q.step /\ w.open = q.open /\ w.knows = q.knows
         /\ w.effect = effect /\ w.answer = q.answer
BY DEF Request

(* So does closing its connection.                                          *)
LEMMA CloseIs ==
  ASSUME NEW q \in Request, NEW w, w = [q EXCEPT !.open = FALSE, !.effect = "none"]
  PROVE  w \in Request /\ w.step = q.step /\ w.open = FALSE /\ w.knows = q.knows
         /\ w.effect = "none" /\ w.answer = q.answer
BY DEF Request, Effects

(* A request of a session is one.                                           *)
LEMMA RequestIs ==
  ASSUME NEW s \in Sessions, NEW r \in 1..MaxRequests
  PROVE  s.requests[r] \in Request
BY DEF Sessions

(* sendJson: an answer where there is none and the response is open.        *)
LEMMA SendIs ==
  ASSUME NEW s \in Sessions, NEW r \in 1..MaxRequests, NEW answer \in {"ok", "won", "refused", "error"},
         NEW t, t = Send(s, r, answer)
  PROVE  /\ t \in Sessions /\ Stays(s, t, r) /\ Answers(s, t, r, answer)
         /\ t.requests[r].step = s.requests[r].step
<1>1. s.requests[r] \in Request
  BY RequestIs
<1>2. CASE s.requests[r].answer = "none" /\ s.requests[r].open
  <2>1. PICK q : q = [s.requests[r] EXCEPT !.answer = answer]
    OBVIOUS
  <2>2. t = Put(s, r, q)
    BY <1>2, <2>1 DEF Send, Sessions, Put
  <2>3. /\ q \in Request /\ q.step = s.requests[r].step /\ q.open = s.requests[r].open
        /\ q.knows = s.requests[r].knows /\ q.effect = s.requests[r].effect /\ q.answer = answer
    BY <1>1, <2>1, AnswerIs
  <2>4. t \in Sessions /\ Kept(s, t) /\ Others(s, t, r) /\ t.requests[r] = q
    BY <2>2, <2>3, PutIs
  <2>5. QED
    BY <1>2, <2>3, <2>4 DEF Stays, Answers
<1>3. CASE ~(s.requests[r].answer = "none" /\ s.requests[r].open)
  <2>1. t = s
    BY <1>3 DEF Send
  <2>2. QED
    BY <1>3, <2>1 DEF Stays, Answers, Kept, Others
<1>4. QED
  BY <1>2, <1>3

(* The end of a request's handling.                                         *)
LEMMA OverIs ==
  ASSUME NEW s \in Sessions, NEW r \in 1..MaxRequests, NEW t, t = Over(s, r)
  PROVE  /\ t \in Sessions /\ Stays(s, t, r)
         /\ t.requests[r].answer = s.requests[r].answer /\ t.requests[r].step = "over"
<1>1. PICK q : q = [s.requests[r] EXCEPT !.step = "over", !.kind = "none"]
  OBVIOUS
<1>2. t = Put(s, r, q)
  BY <1>1 DEF Over, Sessions, Put
<1>3. /\ q \in Request /\ q.step = "over" /\ q.open = s.requests[r].open
      /\ q.knows = s.requests[r].knows /\ q.effect = s.requests[r].effect /\ q.answer = s.requests[r].answer
  BY <1>1, RequestIs, OverRequestIs
<1>4. t \in Sessions /\ Kept(s, t) /\ Others(s, t, r) /\ t.requests[r] = q
  BY <1>2, <1>3, PutIs
<1>5. QED
  BY <1>3, <1>4 DEF Stays

(* An answer, and the end of the handling.                                  *)
LEMMA SendOverIs ==
  ASSUME NEW s \in Sessions, NEW r \in 1..MaxRequests, NEW answer \in {"ok", "won", "refused", "error"},
         NEW t, t = Over(Send(s, r, answer), r)
  PROVE  t \in Sessions /\ Stays(s, t, r) /\ Answers(s, t, r, answer) /\ t.requests[r].step = "over"
<1>1. PICK u : u = Send(s, r, answer)
  OBVIOUS
<1>2. u \in Sessions /\ Stays(s, u, r) /\ Answers(s, u, r, answer)
  BY <1>1, SendIs
<1>3. t = Over(u, r)
  BY <1>1
<1>4. t \in Sessions /\ Stays(u, t, r) /\ t.requests[r].answer = u.requests[r].answer
      /\ t.requests[r].step = "over"
  BY <1>2, <1>3, OverIs
<1>5. QED
  BY <1>2, <1>4 DEF Stays, Kept, Others, Answers

(* claimTerminal on an open session.                                        *)
LEMMA ClaimIs ==
  ASSUME NEW s \in Sessions, s.claim.status = "pending",
         NEW status \in Statuses, NEW by \in 0..MaxRequests, NEW deferred \in BOOLEAN,
         NEW t, t = ClaimTerminal(s, status, by, deferred)
  PROVE  t \in Sessions /\ Claims(s, t, by, deferred) /\ Aborts(s, t)
<1>1. PICK q : q = [n \in 1..MaxRequests |->
                   IF s.requests[n].step = "operating" THEN [s.requests[n] EXCEPT !.step = "aborted"]
                   ELSE s.requests[n]]
  OBVIOUS
<1>2. PICK f : f = [s.flags EXCEPT !.answering = deferred]
  OBVIOUS
<1>3. PICK c : c = [status |-> status, by |-> by]
  OBVIOUS
<1>4. PICK m : m = s.timers \ {"session", "lease"}
  OBVIOUS
<1>5. t = With(s, c, f, m, q)
  BY <1>1, <1>2, <1>3, <1>4 DEF ClaimTerminal, Sessions, With
<1>6. ASSUME NEW n \in 1..MaxRequests
      PROVE  /\ q[n] \in Request
             /\ q[n].open = s.requests[n].open /\ q[n].knows = s.requests[n].knows
             /\ q[n].effect = s.requests[n].effect /\ q[n].answer = s.requests[n].answer
             /\ q[n].step = s.requests[n].step \/ q[n].step = "aborted"
             /\ s.requests[n].step = "over" => q[n] = s.requests[n]
  <2>1. q[n] = IF s.requests[n].step = "operating" THEN [s.requests[n] EXCEPT !.step = "aborted"]
               ELSE s.requests[n]
    BY <1>1
  <2>2. s.requests[n] \in Request
    BY RequestIs
  <2>3. QED
    BY <2>1, <2>2, StepIs
<1>7. q \in [1..MaxRequests -> Request]
  BY <1>1, <1>6
<1>8. /\ f \in [answering : BOOLEAN, finalizeAfter : BOOLEAN, settled : BOOLEAN]
      /\ f.answering = deferred /\ f.settled = s.flags.settled /\ f.finalizeAfter = s.flags.finalizeAfter
  BY <1>2 DEF Sessions
<1>9. c \in [status : Statuses \union {"pending"}, by : 0..MaxRequests] /\ m \in SUBSET {"session", "lease", "ack"}
  BY <1>3, <1>4 DEF Sessions
<1>10. t \in Sessions /\ t.claim = c /\ t.flags = f /\ t.timers = m /\ t.requests = q
  BY <1>5, <1>7, <1>8, <1>9, FieldsAre
<1>11. c.status # "pending" /\ c.by = by
  BY <1>3 DEF Statuses
<1>12. QED
  <2>1. Claims(s, t, by, deferred)
    BY <1>4, <1>8, <1>10, <1>11 DEF Claims
  <2>2. Aborts(s, t)
    BY <1>6, <1>10 DEF Aborts
  <2>3. QED
    BY <1>10, <2>1, <2>2

(* finalizeClaim settles a claimed session, and leaves an open one.         *)
LEMMA FinalIs ==
  ASSUME NEW s \in Sessions, NEW t, t = FinalizeClaim(s)
  PROVE  /\ t \in Sessions
         /\ t.claim = s.claim /\ t.requests = s.requests
         /\ t.flags.answering = s.flags.answering /\ t.flags.finalizeAfter = s.flags.finalizeAfter
         /\ t.flags.settled = (s.flags.settled \/ s.claim.status # "pending")
         /\ t.timers \subseteq s.timers /\ s.timers \ {"ack"} \subseteq t.timers
         /\ s.claim.status = "pending" => t = s
<1>1. CASE s.claim.status = "pending" \/ s.flags.settled
  BY <1>1 DEF FinalizeClaim, Sessions
<1>2. CASE ~(s.claim.status = "pending" \/ s.flags.settled)
  BY <1>2 DEF FinalizeClaim, Sessions
<1>3. QED
  BY <1>1, <1>2

(* armAcknowledgement on a claimed session: its clock runs, or it has       *)
(* settled.                                                                 *)
LEMMA ArmIs ==
  ASSUME NEW s \in Sessions, NEW t, t = ArmAcknowledgement(s), s.claim.status # "pending"
  PROVE  /\ t \in Sessions
         /\ t.claim = s.claim /\ t.requests = s.requests
         /\ t.timers \subseteq s.timers \union {"ack"}
         /\ t.flags.settled \/ "ack" \in t.timers
BY DEF ArmAcknowledgement, FinalizeClaim, Sessions

(* renewLease sets one timer, of an open session.                           *)
LEMMA RenewIs ==
  ASSUME NEW s \in Sessions, NEW t, t = RenewLease(s)
  PROVE  /\ t \in Sessions
         /\ t.claim = s.claim /\ t.flags = s.flags /\ t.requests = s.requests
         /\ \/ t.timers = s.timers
            \/ s.claim.status = "pending" /\ t.timers = s.timers \union {"lease"}
BY DEF RenewLease, Sessions

-----------------------------------------------------------------------------

(* The session at the start of a step.                                      *)
LEMMA Known ==
  ASSUME IInv, NEW s, s = Session
  PROVE  s \in Sessions /\ s.claim = claim /\ s.flags = flags /\ s.timers = timers /\ s.requests = requests
BY SessionIs

(* A request that is handled, or whose connection is open, has arrived.     *)
LEMMA Present ==
  ASSUME IInv, NEW r \in 1..MaxRequests, requests[r].step # "over" \/ requests[r].open
  PROVE  r <= arrived
BY DEF NoRequest, IInv, TypeOK, Asked

(* A step to a session keeps the types.                                     *)
LEMMA Typed ==
  ASSUME IInv, NEW t \in Sessions, Becomes(t), UNCHANGED <<arrived, launcher>>
  PROVE  TypeOK'
BY DEF IInv, TypeOK, Becomes, Sessions

(* A step that touches one request, and claims, settles and arms nothing,   *)
(* keeps the invariant.                                                     *)
LEMMA Touch ==
  ASSUME IInv, NEW r \in 1..MaxRequests, r <= arrived, NEW s, s = Session, NEW t \in Sessions, Becomes(t),
         UNCHANGED <<arrived, launcher>>,
         t.claim = claim, t.flags = flags,
         t.timers = timers \/ (Open /\ t.timers = timers \union {"lease"}),
         Others(s, t, r),
         NEW q, q = t.requests[r], q.open = requests[r].open, q.knows = requests[r].knows,
         \/ q.answer = requests[r].answer
         \/ requests[r].answer = "none" /\ requests[r].open /\ q.answer \in {"ok", "refused", "error"},
         q.effect = requests[r].effect \/ (q.effect = "finalize" /\ q.knows /\ requests[r].step = "reading"),
         q.step # "reading",
         Open /\ q.step \in Live => q.answer # "refused"
  PROVE  IInv'
<1>1. TypeOK'
  BY Typed
<1>2. \A n \in 1..MaxRequests : requests'[n] = IF n = r THEN q ELSE requests[n]
  BY Known DEF Others, Becomes
<1>3. claim' = claim /\ flags' = flags /\ launcher' = launcher /\ arrived' = arrived
      /\ (timers' = timers \/ (Open /\ timers' = timers \union {"lease"}))
  BY DEF Becomes
<1>4. Open' = Open /\ Listening' = Listening
  BY <1>3 DEF Open, Listening
<1>5. Undecided'
  BY <1>2, <1>3, <1>4 DEF IInv, Undecided, Live
<1>6. Asked'
  <2>1. \A n \in 1..MaxRequests : n > arrived => n # r
    BY DEF IInv, TypeOK
  <2>2. \A n \in 1..MaxRequests : n > arrived => requests'[n] = NoRequest
    BY <1>2, <2>1 DEF IInv, Asked
  <2>3. \A n \in 1..MaxRequests : requests'[n].step = "reading" => requests'[n].answer = "none"
    BY <1>2 DEF IInv, Asked
  <2>4. \A n \in 1..MaxRequests : requests'[n].effect = "finalize" => requests'[n].knows
    BY <1>2 DEF IInv, Asked
  <2>5. QED
    BY <1>3, <2>2, <2>3, <2>4 DEF Asked
<1>7. Claimed'
  <2> SUFFICES ASSUME ~Open PROVE Claimed'
    BY <1>4 DEF Claimed
  <2>1. timers' = timers
    BY <1>3
  <2>2. \A n \in 1..MaxRequests : requests'[n].answer = "won" \/ requests'[n].effect = "arm" => n = claim.by
    BY <1>2 DEF IInv, Claimed
  <2>3. ASSUME claim.by # 0 PROVE WinnerHolds'
    <3>1. claim.by \in 1..MaxRequests /\ WinnerHolds
      BY <2>3 DEF IInv, TypeOK, Claimed
    <3>2. \A n \in 1..MaxRequests : requests'[n].knows = requests[n].knows
      BY <1>2
    <3>3. /\ requests'[claim.by].open = requests[claim.by].open
          /\ requests'[claim.by].answer # "refused"
          /\ requests[claim.by].open => requests'[claim.by].answer # "none" /\ requests'[claim.by].effect = "arm"
      BY <1>2, <3>1 DEF WinnerHolds, IInv, Asked
    <3>4. QED
      BY <1>3, <2>1, <3>1, <3>2, <3>3 DEF WinnerHolds
  <2>4. QED
    BY <1>3, <1>4, <2>1, <2>2, <2>3 DEF IInv, Claimed
<1>8. Writing'
  BY <1>3, <1>4 DEF IInv, Writing
<1>9. QED
  BY <1>1, <1>5, <1>6, <1>7, <1>8 DEF IInv

(* So does a step that answers a request whose body is awaited, as it is or *)
(* renewed or made an acknowledgement.                                      *)
LEMMA Answered ==
  ASSUME IInv, NEW r \in 1..MaxRequests, requests[r].step = "reading",
         NEW s, s = Session, NEW u \in Sessions, NEW answer \in {"ok", "refused", "error"},
         u.claim = claim, u.flags = flags,
         u.timers = timers \/ (Open /\ u.timers = timers \union {"lease"}),
         Others(s, u, r),
         u.requests[r].answer = "none", u.requests[r].open = requests[r].open,
         u.requests[r].knows = requests[r].knows,
         u.requests[r].effect = requests[r].effect \/ (u.requests[r].effect = "finalize" /\ u.requests[r].knows),
         Becomes(Over(Send(u, r, answer), r)), UNCHANGED <<arrived, launcher>>
  PROVE  IInv'
<1>1. r <= arrived /\ requests[r].answer = "none"
  BY Present DEF IInv, Asked
<1>2. PICK t : t = Over(Send(u, r, answer), r)
  OBVIOUS
<1>3. answer \in {"ok", "won", "refused", "error"}
  OBVIOUS
<1>4. t \in Sessions /\ Stays(u, t, r) /\ Answers(u, t, r, answer) /\ t.requests[r].step = "over"
  BY <1>2, <1>3, SendOverIs
<1>5. Becomes(t)
  BY <1>2
<1>6. Kept(u, t) /\ Others(s, t, r)
  BY <1>4 DEF Stays, Kept, Others
<1>7. t.claim = claim /\ t.flags = flags /\ (t.timers = timers \/ (Open /\ t.timers = timers \union {"lease"}))
  BY <1>6 DEF Kept
<1>8. PICK q : q = t.requests[r]
  OBVIOUS
<1>9. /\ q.open = requests[r].open /\ q.knows = requests[r].knows /\ q.step = "over"
      /\ q.effect = requests[r].effect \/ (q.effect = "finalize" /\ q.knows /\ requests[r].step = "reading")
  BY <1>4, <1>8 DEF Stays
<1>10. q.answer = requests[r].answer
       \/ (requests[r].answer = "none" /\ requests[r].open /\ q.answer \in {"ok", "refused", "error"})
  BY <1>1, <1>4, <1>8 DEF Answers
<1>11. q.step # "reading" /\ (Open /\ q.step \in Live => q.answer # "refused")
  BY <1>9 DEF Live
<1>12. QED
  BY <1>1, <1>4, <1>5, <1>6, <1>7, <1>8, <1>9, <1>10, <1>11, Touch

(* The plainest of these.                                                   *)
LEMMA AnsweredPlainly ==
  ASSUME IInv, NEW r \in 1..MaxRequests, requests[r].step = "reading",
         NEW s, s = Session, NEW answer \in {"ok", "refused", "error"},
         Becomes(Over(Send(s, r, answer), r)), UNCHANGED <<arrived, launcher>>
  PROVE  IInv'
<1>1. s \in Sessions /\ s.claim = claim /\ s.flags = flags /\ s.timers = timers /\ s.requests = requests
  BY Known
<1>2. Others(s, s, r) /\ requests[r].answer = "none"
  BY DEF Others, IInv, Asked
<1>3. QED
  BY <1>1, <1>2, Answered

(* A body that cannot be read.                                              *)
LEMMA BadBodyKeeps ==
  ASSUME IInv, NEW r \in 1..MaxRequests, BadBody(r)
  PROVE  IInv'
<1>1. PICK s : s = Session
  OBVIOUS
<1>2. requests[r].step = "reading" /\ Becomes(Over(Send(s, r, "error"), r)) /\ UNCHANGED <<arrived, launcher>>
  BY <1>1 DEF BadBody
<1>3. QED
  BY <1>1, <1>2, AnsweredPlainly

(* A heartbeat.                                                             *)
LEMMA HeartbeatKeeps ==
  ASSUME IInv, NEW r \in 1..MaxRequests, Heartbeat(r)
  PROVE  IInv'
<1>1. PICK s : s = Session
  OBVIOUS
<1>2. /\ requests[r].step = "reading" /\ UNCHANGED <<arrived, launcher>>
      /\ Becomes(Over(IF Open THEN Send(RenewLease(s), r, "ok") ELSE Send(s, r, "refused"), r))
  BY <1>1 DEF Heartbeat, Reading
<1>3. CASE Open
  <2>1. PICK u : u = RenewLease(s)
    OBVIOUS
  <2>2. Becomes(Over(Send(u, r, "ok"), r))
    BY <1>2, <1>3, <2>1
  <2>3. s \in Sessions /\ s.claim = claim /\ s.flags = flags /\ s.timers = timers /\ s.requests = requests
    BY <1>1, Known
  <2>4. /\ u \in Sessions /\ u.claim = claim /\ u.flags = flags /\ u.requests = requests
        /\ u.timers = timers \/ (Open /\ u.timers = timers \union {"lease"})
    BY <1>3, <2>1, <2>3, RenewIs
  <2>5. Others(s, u, r) /\ requests[r].answer = "none"
    BY <1>2, <2>3, <2>4 DEF Others, IInv, Asked
  <2>6. QED
    BY <1>1, <1>2, <2>2, <2>4, <2>5, Answered
<1>4. CASE ~Open
  <2>1. Becomes(Over(Send(s, r, "refused"), r))
    BY <1>2, <1>4
  <2>2. QED
    BY <1>1, <1>2, <2>1, AnsweredPlainly
<1>5. QED
  BY <1>3, <1>4

(* An acknowledgement: its effect comes with the knowledge of the           *)
(* operation.                                                               *)
LEMMA AcknowledgeKeeps ==
  ASSUME IInv, NEW r \in 1..MaxRequests, Acknowledge(r)
  PROVE  IInv'
<1>1. PICK s : s = Session
  OBVIOUS
<1>2. s \in Sessions /\ s.claim = claim /\ s.flags = flags /\ s.timers = timers /\ s.requests = requests
  BY <1>1, Known
<1>3. PICK w : w = [requests[r] EXCEPT !.effect = "finalize"]
  OBVIOUS
<1>4. PICK u : u = Put(s, r, w)
  OBVIOUS
<1>5. u = [s EXCEPT !.requests[r].effect = "finalize"]
  BY <1>2, <1>3, <1>4 DEF Put, Sessions
<1>6. /\ requests[r].step = "reading" /\ UNCHANGED <<arrived, launcher>>
      /\ Becomes(Over(IF Matches(r) THEN Send(u, r, "ok") ELSE Send(s, r, "refused"), r))
  BY <1>1, <1>5 DEF Acknowledge, Reading
<1>7. CASE Matches(r)
  <2>1. /\ w \in Request /\ w.open = requests[r].open /\ w.knows = requests[r].knows
        /\ w.effect = "finalize" /\ w.answer = requests[r].answer
    BY <1>2, <1>3, RequestIs, EffectIs DEF Effects
  <2>2. u \in Sessions /\ Kept(s, u) /\ Others(s, u, r) /\ u.requests[r] = w
    BY <1>2, <1>4, <2>1, PutIs
  <2>3. Becomes(Over(Send(u, r, "ok"), r))
    BY <1>6, <1>7
  <2>4. requests[r].answer = "none" /\ requests[r].knows
    BY <1>6, <1>7 DEF IInv, Asked, Matches
  <2>5. u.claim = claim /\ u.flags = flags /\ u.timers = timers
    BY <1>2, <2>2 DEF Kept
  <2>6. QED
    BY <1>1, <1>6, <2>1, <2>2, <2>3, <2>4, <2>5, Answered
<1>8. CASE ~Matches(r)
  <2>1. Becomes(Over(Send(s, r, "refused"), r))
    BY <1>6, <1>8
  <2>2. QED
    BY <1>1, <1>6, <2>1, AnsweredPlainly
<1>9. QED
  BY <1>7, <1>8

(* A step of a handler that has no answer to give, or goes on with the one  *)
(* it has.                                                                  *)
LEMMA StepKeeps ==
  ASSUME IInv, NEW r \in 1..MaxRequests, requests[r].step # "over",
         NEW s, s = Session, NEW step \in {"running", "operating", "kept", "over"},
         NEW t, t = Put(s, r, [requests[r] EXCEPT !.step = step]), Becomes(t), UNCHANGED <<arrived, launcher>>,
         Open => requests[r].answer # "refused"
  PROVE  IInv'
<1>1. s \in Sessions /\ s.claim = claim /\ s.flags = flags /\ s.timers = timers /\ s.requests = requests
  BY Known
<1>2. PICK w : w = [requests[r] EXCEPT !.step = step]
  OBVIOUS
<1>3. /\ w \in Request /\ w.open = requests[r].open /\ w.knows = requests[r].knows
      /\ w.effect = requests[r].effect /\ w.answer = requests[r].answer /\ w.step = step
  BY <1>1, <1>2, RequestIs, StepIs
<1>4. t \in Sessions /\ Kept(s, t) /\ Others(s, t, r) /\ t.requests[r] = w
  BY <1>1, <1>2, <1>3, PutIs
<1>5. t.claim = claim /\ t.flags = flags /\ t.timers = timers /\ r <= arrived
  BY <1>1, <1>4, Present DEF Kept
<1>6. QED
  BY <1>3, <1>4, <1>5, Touch

(* A call of the app's interface.                                           *)
LEMMA CallKeeps ==
  ASSUME IInv, NEW r \in 1..MaxRequests, Call(r)
  PROVE  IInv'
<1>1. PICK s : s = Session
  OBVIOUS
<1>2. s \in Sessions /\ s.requests = requests
  BY <1>1, Known
<1>3. PICK u : u = Put(s, r, [requests[r] EXCEPT !.step = "running"])
  OBVIOUS
<1>4. u = [s EXCEPT !.requests[r].step = "running"]
  BY <1>2, <1>3 DEF Put, Sessions
<1>5. /\ requests[r].step = "reading" /\ UNCHANGED <<arrived, launcher>>
      /\ Becomes(IF Open THEN u ELSE Over(Send(s, r, "refused"), r))
  BY <1>1, <1>4 DEF Call, Reading
<1>6. CASE Open
  <2>1. Becomes(u) /\ requests[r].answer # "refused"
    BY <1>5, <1>6 DEF IInv, Asked
  <2>2. QED
    BY <1>1, <1>3, <1>5, <2>1, StepKeeps
<1>7. CASE ~Open
  <2>1. Becomes(Over(Send(s, r, "refused"), r))
    BY <1>5, <1>7
  <2>2. QED
    BY <1>1, <1>5, <2>1, AnsweredPlainly
<1>8. QED
  BY <1>6, <1>7

(* The start and the end of an operation.                                   *)
LEMMA OperationKeeps ==
  ASSUME IInv, NEW r \in 1..MaxRequests, RunOperation(r) \/ OperationEnds(r)
  PROVE  IInv'
<1>1. PICK s : s = Session
  OBVIOUS
<1>2. s \in Sessions /\ s.claim = claim /\ s.flags = flags /\ s.timers = timers /\ s.requests = requests
  BY <1>1, Known
<1>3. requests[r].step \in Live
  BY DEF RunOperation, OperationEnds, Live
<1>4. requests[r].step # "over" /\ (Open => requests[r].answer # "refused")
  BY <1>3 DEF IInv, Undecided, Live
<1>5. UNCHANGED <<claim, flags, timers, arrived, launcher>>
  BY DEF RunOperation, OperationEnds
<1>6. PICK step \in {"running", "operating"} : requests' = [requests EXCEPT ![r].step = step]
  BY DEF RunOperation, OperationEnds
<1>7. PICK u : u = Put(s, r, [requests[r] EXCEPT !.step = step])
  OBVIOUS
<1>8. u.claim = s.claim /\ u.flags = s.flags /\ u.timers = s.timers
      /\ u.requests = [s.requests EXCEPT ![r] = [requests[r] EXCEPT !.step = step]]
  BY <1>2, <1>7 DEF Put, Sessions
<1>9. Becomes(u)
  BY <1>2, <1>5, <1>6, <1>8 DEF Becomes
<1>10. step \in {"running", "operating", "kept", "over"}
  BY <1>6
<1>11. QED
  BY <1>1, <1>4, <1>5, <1>7, <1>9, <1>10, StepKeeps

(* The return of a handler: in an open session it is not told that it lost, *)
(* and may complete later.                                                  *)
LEMMA ReturnKeeps ==
  ASSUME IInv, NEW r \in 1..MaxRequests, Return(r)
  PROVE  IInv'
<1>1. PICK s : s = Session
  OBVIOUS
<1>2. s \in Sessions /\ s.claim = claim /\ s.flags = flags /\ s.timers = timers /\ s.requests = requests
  BY <1>1, Known
<1>3. PICK answer \in {AnswerOf(r), "error"}, step \in {"kept", "over"} :
        Becomes([Over(Send(s, r, answer), r) EXCEPT !.requests[r].step = step])
  BY <1>1 DEF Return
<1>4. requests[r].step = "running" /\ UNCHANGED <<arrived, launcher>>
  BY DEF Return
<1>5. answer \in {"ok", "refused", "error"} /\ answer \in {"ok", "won", "refused", "error"}
      /\ (Open => answer # "refused")
  BY <1>3 DEF AnswerOf
<1>6. PICK u : u = Over(Send(s, r, answer), r)
  OBVIOUS
<1>7. u \in Sessions /\ Stays(s, u, r) /\ Answers(s, u, r, answer) /\ u.requests[r].step = "over"
  BY <1>2, <1>5, <1>6, SendOverIs
<1>8. PICK w : w = [u.requests[r] EXCEPT !.step = step]
  OBVIOUS
<1>9. /\ w \in Request /\ w.open = u.requests[r].open /\ w.knows = u.requests[r].knows
      /\ w.effect = u.requests[r].effect /\ w.answer = u.requests[r].answer /\ w.step = step
  <2>1. step \in {"reading", "running", "operating", "aborted", "kept", "over"}
    OBVIOUS
  <2>2. QED
    BY <1>7, <1>8, <2>1, RequestIs, StepIs
<1>10. PICK t : t = Put(u, r, w)
  OBVIOUS
<1>11. t \in Sessions /\ Kept(u, t) /\ Others(u, t, r) /\ t.requests[r] = w
  BY <1>7, <1>9, <1>10, PutIs
<1>12. t = [u EXCEPT !.requests[r].step = step]
  BY <1>7, <1>8, <1>10 DEF Put, Sessions
<1>13. Becomes(t)
  BY <1>3, <1>6, <1>12
<1>14. Others(s, t, r) /\ t.claim = claim /\ t.flags = flags /\ t.timers = timers
  BY <1>2, <1>7, <1>11 DEF Stays, Others, Kept
<1>15. r <= arrived /\ (Open => requests[r].answer # "refused")
  BY <1>4, Present DEF IInv, Undecided, Live
<1>16. w.open = requests[r].open /\ w.knows = requests[r].knows /\ w.effect = requests[r].effect
  BY <1>2, <1>7, <1>9 DEF Stays
<1>17. /\ \/ w.answer = requests[r].answer
          \/ requests[r].answer = "none" /\ requests[r].open /\ w.answer \in {"ok", "refused", "error"}
       /\ Open => w.answer # "refused"
  BY <1>2, <1>5, <1>7, <1>9, <1>15 DEF Answers
<1>18. w.step # "reading"
  BY <1>9
<1>19. QED
  BY <1>1, <1>4, <1>11, <1>13, <1>14, <1>15, <1>16, <1>17, <1>18, Touch

-----------------------------------------------------------------------------

(* What a claim leaves of the requests other than the winner.               *)
Beside(t, r) ==
  \A n \in 1..MaxRequests : n # r =>
    /\ t.requests[n].knows = requests[n].knows
    /\ t.requests[n].effect = requests[n].effect /\ t.requests[n].answer = requests[n].answer
    /\ t.requests[n].step = requests[n].step \/ t.requests[n].step = "aborted"
    /\ requests[n].step = "over" => t.requests[n] = requests[n]

(* A step that claims an open session for r keeps the invariant, when it    *)
(* leaves r with an answer on its way that starts the clock, or with the    *)
(* clock.                                                                   *)
LEMMA Won ==
  ASSUME IInv, Open, NEW r \in 1..MaxRequests, r <= arrived,
         NEW s, s = Session, NEW t \in Sessions, Becomes(t), UNCHANGED <<arrived, launcher>>,
         t.claim.status # "pending", t.claim.by = r, t.timers \subseteq {"ack"},
         Beside(t, r),
         t.requests[r].step # "reading", t.requests[r].effect # "finalize" \/ t.requests[r].knows,
         t.requests[r].answer # "refused",
         t.requests[r].open =>
           /\ t.requests[r].answer # "none" /\ t.requests[r].effect = "arm"
           /\ t.flags.answering /\ ~t.flags.settled /\ "ack" \notin t.timers,
         ~t.requests[r].open => t.flags.settled \/ "ack" \in t.timers
  PROVE  IInv'
<1>1. TypeOK'
  BY Typed
<1>2. claim' = t.claim /\ flags' = t.flags /\ timers' = t.timers /\ requests' = t.requests
      /\ arrived' = arrived /\ launcher' = launcher
  BY DEF Becomes
<1>3. ~Open'
  BY <1>2 DEF Open
<1>4. Undecided'
  BY <1>3 DEF Undecided
<1>5. Asked'
  <2>1. ASSUME NEW n \in 1..MaxRequests, n > arrived PROVE requests'[n] = NoRequest
    <3>1. requests[n] = NoRequest /\ n # r
      BY <2>1 DEF IInv, TypeOK, Asked
    <3>2. requests[n].step = "over"
      BY <3>1 DEF NoRequest
    <3>3. QED
      BY <1>2, <3>1, <3>2 DEF Beside
  <2>2. \A n \in 1..MaxRequests : requests'[n].step = "reading" => requests'[n].answer = "none"
    BY <1>2 DEF IInv, Asked, Beside
  <2>3. \A n \in 1..MaxRequests : requests'[n].effect = "finalize" => requests'[n].knows
    BY <1>2 DEF IInv, Asked, Beside
  <2>4. QED
    BY <1>2, <2>1, <2>2, <2>3 DEF Asked
<1>6. Claimed'
  <2>1. \A n \in 1..MaxRequests : requests'[n].answer = "won" \/ requests'[n].effect = "arm" => n = r
    BY <1>2 DEF IInv, Undecided, Beside
  <2>2. WinnerHolds'
    BY <1>2 DEF WinnerHolds
  <2>3. claim'.by = r /\ r # 0 /\ timers' \subseteq {"ack"}
    BY <1>2
  <2>4. QED
    BY <1>3, <2>1, <2>2, <2>3 DEF Claimed
<1>7. Writing'
  BY <1>2, <1>3, Unwritten DEF Writing
<1>8. QED
  BY <1>1, <1>4, <1>5, <1>6, <1>7 DEF IInv

(* The session after claimTerminal and armWhenAnswered for r.               *)
Clocked(u, r) ==
  /\ u.claim.status # "pending" /\ u.claim.by = r /\ u.timers \subseteq {"ack"}
  /\ Beside(u, r)
  /\ u.requests[r].open = requests[r].open /\ u.requests[r].knows = requests[r].knows
  /\ u.requests[r].answer = requests[r].answer
  /\ u.requests[r].step = requests[r].step \/ u.requests[r].step = "aborted"
  /\ requests[r].open =>
       u.requests[r].effect = "arm" /\ u.flags.answering /\ ~u.flags.settled /\ "ack" \notin u.timers
  /\ ~requests[r].open =>
       u.requests[r].effect = requests[r].effect /\ (u.flags.settled \/ "ack" \in u.timers)

(* claimTerminal and armWhenAnswered, one after the other.                  *)
LEMMA Clock ==
  ASSUME IInv, Open, NEW r \in 1..MaxRequests,
         NEW s, s = Session, NEW status \in Statuses,
         NEW u, u = ArmWhenAnswered(ClaimTerminal(s, status, r, TRUE), r)
  PROVE  u \in Sessions /\ Clocked(u, r)
<1>1. s \in Sessions /\ s.claim = claim /\ s.flags = flags /\ s.timers = timers /\ s.requests = requests
  BY Known
<1>2. PICK c : c = ClaimTerminal(s, status, r, TRUE)
  OBVIOUS
<1>3. c \in Sessions /\ Claims(s, c, r, TRUE) /\ Aborts(s, c)
  <2>1. s.claim.status = "pending" /\ r \in 0..MaxRequests /\ TRUE \in BOOLEAN
    BY <1>1, RequestsAreCountable DEF Open
  <2>2. QED
    BY <1>1, <1>2, <2>1, ClaimIs
<1>4. c.timers \subseteq {"ack"} /\ "ack" \notin c.timers /\ ~c.flags.settled
  BY <1>1, <1>3 DEF Claims, IInv, TypeOK, Undecided
<1>5. u = ArmWhenAnswered(c, r) /\ c.requests[r].open = requests[r].open
  BY <1>1, <1>2, <1>3 DEF Aborts
<1>6. CASE requests[r].open
  <2>1. PICK w : w = [c.requests[r] EXCEPT !.effect = "arm"]
    OBVIOUS
  <2>2. u = Put(c, r, w)
    BY <1>3, <1>5, <1>6, <2>1 DEF ArmWhenAnswered, Put, Sessions
  <2>3. /\ w \in Request /\ w.step = c.requests[r].step /\ w.open = c.requests[r].open
        /\ w.knows = c.requests[r].knows /\ w.effect = "arm" /\ w.answer = c.requests[r].answer
    BY <1>3, <2>1, RequestIs, EffectIs DEF Effects
  <2>4. u \in Sessions /\ Kept(c, u) /\ Others(c, u, r) /\ u.requests[r] = w
    BY <1>3, <2>2, <2>3, PutIs
  <2>5. /\ u.claim.status # "pending" /\ u.claim.by = r /\ u.timers \subseteq {"ack"}
        /\ u.flags.answering /\ ~u.flags.settled /\ "ack" \notin u.timers
    <3>1. u.claim = c.claim /\ u.flags = c.flags /\ u.timers = c.timers BY <2>4 DEF Kept
    <3>2. c.claim.status # "pending" BY <1>3 DEF Claims
    <3>3. c.claim.by = r BY <1>3 DEF Claims
    <3>4. c.flags.answering BY <1>3 DEF Claims
    <3>5. u.claim.status # "pending" BY <3>1, <3>2
    <3>6. u.claim.by = r BY <3>1, <3>3
    <3>7. u.timers \subseteq {"ack"} /\ "ack" \notin u.timers BY <3>1, <1>4
    <3>8. u.flags.answering /\ ~u.flags.settled BY <3>1, <3>4, <1>4
    <3>9. QED BY <3>5, <3>6, <3>7, <3>8
  <2>6. Beside(u, r)
    BY <1>1, <1>3, <2>4 DEF Others, Aborts, Beside
  <2>7. /\ u.requests[r].open = requests[r].open /\ u.requests[r].knows = requests[r].knows
        /\ u.requests[r].answer = requests[r].answer /\ u.requests[r].effect = "arm"
        /\ u.requests[r].step = requests[r].step \/ u.requests[r].step = "aborted"
    BY <1>1, <1>3, <2>3, <2>4 DEF Aborts
  <2>8. QED
    BY <1>6, <2>4, <2>5, <2>6, <2>7 DEF Clocked
<1>7. CASE ~requests[r].open
  <2>1. u = ArmAcknowledgement(c)
    BY <1>5, <1>7 DEF ArmWhenAnswered
  <2>2. c.claim.status # "pending"
    BY <1>3 DEF Claims
  <2>3. /\ u \in Sessions /\ u.claim = c.claim /\ u.requests = c.requests
        /\ u.timers \subseteq c.timers \union {"ack"}
        /\ u.flags.settled \/ "ack" \in u.timers
    BY <1>3, <2>1, <2>2, ArmIs
  <2>4. Beside(u, r)
    <3>1. u.requests = c.requests /\ s.requests = requests
      BY <1>1, <2>3
    <3>2. QED
      BY <1>3, <3>1 DEF Aborts, Beside
  <2>5. u.claim.status # "pending" /\ u.claim.by = r /\ u.timers \subseteq {"ack"}
    <3>1. c.claim.status # "pending" /\ c.claim.by = r
      BY <1>3 DEF Claims
    <3>2. u.claim = c.claim /\ u.timers \subseteq {"ack"}
      BY <1>4, <2>3
    <3>3. u.claim.status # "pending"
      BY <3>1, <3>2
    <3>4. u.claim.by = r
      BY <3>1, <3>2
    <3>5. QED
      BY <3>2, <3>3, <3>4
  <2>6. /\ u.requests[r].open = requests[r].open /\ u.requests[r].knows = requests[r].knows
        /\ u.requests[r].answer = requests[r].answer /\ u.requests[r].effect = requests[r].effect
        /\ u.requests[r].step = requests[r].step \/ u.requests[r].step = "aborted"
    BY <1>1, <1>3, <2>3 DEF Aborts
  <2>7. QED
    BY <1>7, <2>3, <2>4, <2>5, <2>6 DEF Clocked
<1>8. QED
  BY <1>6, <1>7

(* A claim of a request and the answer that goes with it.                   *)
LEMMA ClaimKeeps ==
  ASSUME IInv, Open, NEW r \in 1..MaxRequests, requests[r].step # "over", requests[r].answer # "refused",
         NEW s, s = Session, NEW status \in Statuses,
         NEW u, u = ArmWhenAnswered(ClaimTerminal(s, status, r, TRUE), r),
         NEW t \in Sessions, Becomes(t), UNCHANGED <<arrived, launcher>>,
         Stays(u, t, r), Answers(u, t, r, "won"),
         t.requests[r].step # "reading"
  PROVE  IInv'
<1>1. u \in Sessions /\ Clocked(u, r)
  BY Clock
<1>2. t.claim = u.claim /\ t.flags = u.flags /\ t.timers = u.timers /\ Others(u, t, r)
  BY DEF Stays, Kept
<1>3. Beside(t, r)
  <2>1. Beside(u, r)
    BY <1>1 DEF Clocked
  <2>2. ASSUME NEW n \in 1..MaxRequests, n # r PROVE t.requests[n] = u.requests[n]
    BY <1>2, <2>2 DEF Others
  <2>3. QED
    BY <2>1, <2>2 DEF Beside
<1>4. t.requests[r].open = requests[r].open /\ t.requests[r].knows = requests[r].knows
      /\ t.requests[r].effect = u.requests[r].effect
  BY <1>1 DEF Stays, Clocked
<1>5. t.requests[r].answer # "refused" /\ (t.requests[r].open => t.requests[r].answer # "none")
  BY <1>1, <1>4 DEF Answers, Clocked
<1>6. t.requests[r].effect # "finalize" \/ t.requests[r].knows
  BY <1>1, <1>4 DEF IInv, Asked, Clocked, Effects
<1>7. /\ t.requests[r].open =>
           /\ t.requests[r].answer # "none" /\ t.requests[r].effect = "arm"
           /\ t.flags.answering /\ ~t.flags.settled /\ "ack" \notin t.timers
      /\ ~t.requests[r].open => t.flags.settled \/ "ack" \in t.timers
  BY <1>1, <1>2, <1>4, <1>5 DEF Clocked
<1>8. t.claim.status # "pending" /\ t.claim.by = r /\ t.timers \subseteq {"ack"} /\ r <= arrived
  BY <1>1, <1>2, Present DEF Clocked
<1>9. QED
  BY <1>3, <1>5, <1>6, <1>7, <1>8, Won

(* A cancellation.                                                          *)
LEMMA CancelKeeps ==
  ASSUME IInv, NEW r \in 1..MaxRequests, Cancel(r)
  PROVE  IInv'
<1>1. PICK s : s = Session
  OBVIOUS
<1>2. PICK u : u = ArmWhenAnswered(ClaimTerminal(s, "cancelled", r, TRUE), r)
  OBVIOUS
<1>3. /\ requests[r].step = "reading" /\ UNCHANGED <<arrived, launcher>>
      /\ Becomes(Over(IF Open THEN Send(u, r, "won") ELSE Send(s, r, "refused"), r))
  BY <1>1, <1>2 DEF Cancel, Reading
<1>4. CASE Open
  <2>1. PICK t : t = Over(Send(u, r, "won"), r)
    OBVIOUS
  <2>2. Becomes(t)
    BY <1>3, <1>4, <2>1
  <2>3. "cancelled" \in Statuses
    BY DEF Statuses
  <2>4. u \in Sessions
    BY <1>1, <1>2, <1>4, <2>3, Clock
  <2>5. t \in Sessions /\ Stays(u, t, r) /\ Answers(u, t, r, "won") /\ t.requests[r].step = "over"
    BY <2>1, <2>4, SendOverIs
  <2>6. requests[r].answer # "refused" /\ requests[r].step # "over" /\ t.requests[r].step # "reading"
    BY <1>3, <2>5 DEF IInv, Asked
  <2>7. QED
    BY <1>1, <1>2, <1>3, <1>4, <2>2, <2>3, <2>5, <2>6, ClaimKeeps
<1>5. CASE ~Open
  <2>1. Becomes(Over(Send(s, r, "refused"), r))
    BY <1>3, <1>5
  <2>2. QED
    BY <1>1, <1>3, <2>1, AnsweredPlainly
<1>6. QED
  BY <1>4, <1>5

(* A completion.                                                            *)
LEMMA CompleteKeeps ==
  ASSUME IInv, NEW r \in 1..MaxRequests, Complete(r)
  PROVE  IInv'
<1>1. PICK s : s = Session
  OBVIOUS
<1>2. PICK u : u = ArmWhenAnswered(ClaimTerminal(s, "completed", r, TRUE), r)
  OBVIOUS
<1>3. PICK t : t = Send(u, r, "won")
  OBVIOUS
<1>4. Open /\ UNCHANGED <<arrived, launcher>> /\ Becomes(t) /\ requests[r].step \in {"running", "kept"}
  BY <1>1, <1>2, <1>3 DEF Complete, Handling
<1>5. "completed" \in Statuses
  BY DEF Statuses
<1>6. u \in Sessions /\ (u.requests[r].step = requests[r].step \/ u.requests[r].step = "aborted")
  <2>1. u \in Sessions /\ Clocked(u, r)
    BY <1>1, <1>2, <1>4, <1>5, Clock
  <2>2. QED
    BY <2>1 DEF Clocked
<1>7. t \in Sessions /\ Stays(u, t, r) /\ Answers(u, t, r, "won") /\ t.requests[r].step = u.requests[r].step
  BY <1>3, <1>6, SendIs
<1>8. requests[r].answer # "refused" /\ requests[r].step # "over" /\ t.requests[r].step # "reading"
  BY <1>4, <1>6, <1>7 DEF IInv, Undecided, Live
<1>9. QED
  BY <1>1, <1>2, <1>4, <1>5, <1>7, <1>8, ClaimKeeps

-----------------------------------------------------------------------------

(* A step that ends an open session with a decision of its own keeps the    *)
(* invariant.                                                               *)
LEMMA Ended ==
  ASSUME IInv, Open, NEW t \in Sessions, Becomes(t), arrived' = arrived, TypeOK',
         launcher'.wrote = launcher.wrote,
         t.claim.status # "pending", t.claim.by = 0, t.flags.settled, t.timers \subseteq {"ack"},
         \A n \in 1..MaxRequests :
           /\ t.requests[n].knows = requests[n].knows
           /\ t.requests[n].effect \in {requests[n].effect, "none"} /\ t.requests[n].answer = requests[n].answer
           /\ t.requests[n].step = requests[n].step \/ t.requests[n].step = "aborted"
           /\ requests[n] = NoRequest => t.requests[n] = NoRequest
  PROVE  IInv'
<1>1. claim' = t.claim /\ flags' = t.flags /\ timers' = t.timers /\ requests' = t.requests
  BY DEF Becomes
<1>2. ~Open'
  BY <1>1 DEF Open
<1>3. Undecided' /\ Writing'
  BY <1>2, Unwritten DEF Undecided, Writing
<1>4. Asked'
  <2>1. \A n \in 1..MaxRequests : n > arrived => requests'[n] = NoRequest
    BY <1>1 DEF IInv, Asked
  <2>2. \A n \in 1..MaxRequests : requests'[n].step = "reading" => requests'[n].answer = "none"
    BY <1>1 DEF IInv, Asked
  <2>3. \A n \in 1..MaxRequests : requests'[n].effect = "finalize" => requests'[n].knows
    BY <1>1 DEF IInv, Asked
  <2>4. QED
    BY <2>1, <2>2, <2>3 DEF Asked
<1>5. Claimed'
  <2>1. \A n \in 1..MaxRequests : requests'[n].answer # "won" /\ requests'[n].effect # "arm"
    BY <1>1 DEF IInv, Undecided
  <2>2. claim'.by = 0
    BY <1>1
  <2>3. flags'.settled
    BY <1>1
  <2>4. timers' \subseteq {"ack"}
    BY <1>1
  <2>5. QED
    BY <2>1, <2>2, <2>3, <2>4 DEF Claimed
<1>6. QED
  BY <1>3, <1>4, <1>5 DEF IInv

(* claimTerminal without a request, and finalizeClaim, end it so.           *)
LEMMA TimeUp ==
  ASSUME IInv, Open, NEW u \in Sessions, u.claim = claim, u.flags = flags, u.requests = requests,
         NEW status \in Statuses,
         NEW t, t = FinalizeClaim(ClaimTerminal(u, status, 0, FALSE)),
         Becomes(t), UNCHANGED <<arrived, launcher>>
  PROVE  IInv'
<1>1. PICK c : c = ClaimTerminal(u, status, 0, FALSE)
  OBVIOUS
<1>2. c \in Sessions /\ Claims(u, c, 0, FALSE) /\ Aborts(u, c)
  <2>1. u.claim.status = "pending" /\ 0 \in 0..MaxRequests /\ FALSE \in BOOLEAN
    BY RequestsAreCountable DEF Open
  <2>2. QED
    BY <1>1, <2>1, ClaimIs
<1>3. t = FinalizeClaim(c)
  BY <1>1
<1>4. /\ t \in Sessions /\ t.claim = c.claim /\ t.requests = c.requests
      /\ t.flags.settled = (c.flags.settled \/ c.claim.status # "pending")
      /\ t.timers \subseteq c.timers
  BY <1>2, <1>3, FinalIs
<1>5. c.claim.status # "pending"
  BY <1>2 DEF Claims
<1>6. c.claim.by = 0
  BY <1>2 DEF Claims
<1>7. c.timers \subseteq {"ack"}
  BY <1>2 DEF Claims, Sessions
<1>8. t.flags.settled
  BY <1>4, <1>5
<1>9. t.claim.status # "pending"
  BY <1>4, <1>5
<1>10. t.claim.by = 0
  BY <1>4, <1>6
<1>11. t.timers \subseteq {"ack"}
  BY <1>4, <1>7
<1>12. \A n \in 1..MaxRequests :
           /\ t.requests[n].knows = requests[n].knows
           /\ t.requests[n].effect \in {requests[n].effect, "none"} /\ t.requests[n].answer = requests[n].answer
           /\ t.requests[n].step = requests[n].step \/ t.requests[n].step = "aborted"
           /\ requests[n] = NoRequest => t.requests[n] = NoRequest
  <2>1. t.requests = c.requests /\ u.requests = requests
    BY <1>4
  <2>2. Aborts(u, c)
    BY <1>2
  <2>3. \A n \in 1..MaxRequests : requests[n] = NoRequest => c.requests[n] = NoRequest
    BY <2>1, <2>2 DEF Aborts, NoRequest
  <2>4. \A n \in 1..MaxRequests :
           /\ c.requests[n].knows = requests[n].knows
           /\ c.requests[n].effect = requests[n].effect /\ c.requests[n].answer = requests[n].answer
           /\ c.requests[n].step = requests[n].step \/ c.requests[n].step = "aborted"
    BY <2>1, <2>2 DEF Aborts
  <2>5. QED
    BY <2>1, <2>3, <2>4
<1>13. TypeOK' /\ arrived' = arrived
  BY <1>4, Typed
<1>14. QED
  BY <1>4, <1>8, <1>9, <1>10, <1>11, <1>12, <1>13, Ended

(* The timers of an open session run in no other, and the clock runs only   *)
(* when the winner's connection is gone.                                    *)
LEMMA ClockIsTheWinners ==
  ASSUME IInv
  PROVE  /\ "session" \in timers \/ "lease" \in timers => Open
         /\ "ack" \in timers => ~Open /\ (claim.by # 0 => ~requests[claim.by].open)
<1>1. "session" \in timers \/ "lease" \in timers => Open
  BY DEF IInv, Claimed
<1>2. "ack" \in timers => ~Open
  BY DEF IInv, Undecided
<1>3. ASSUME "ack" \in timers, claim.by # 0 PROVE ~requests[claim.by].open
  BY <1>2, <1>3 DEF IInv, Claimed, WinnerHolds
<1>4. QED
  BY <1>1, <1>2, <1>3

(* The session's timer and its lease.                                       *)
LEMMA TimesOutKeeps ==
  ASSUME IInv, SessionTimesOut \/ LeaseLapses
  PROVE  IInv'
<1>1. PICK s : s = Session
  OBVIOUS
<1>2. s \in Sessions /\ s.claim = claim /\ s.flags = flags /\ s.timers = timers /\ s.requests = requests
  BY <1>1, Known
<1>3. PICK timer \in {"session", "lease"} :
        /\ timer \in timers
        /\ Becomes(FinalizeClaim(ClaimTerminal([s EXCEPT !.timers = @ \ {timer}], "timed_out", 0, FALSE)))
  BY <1>1 DEF SessionTimesOut, LeaseLapses
<1>4. PICK u : u = [s EXCEPT !.timers = @ \ {timer}]
  OBVIOUS
<1>5. u \in Sessions /\ u.claim = claim /\ u.flags = flags /\ u.requests = requests
  BY <1>2, <1>4 DEF Sessions
<1>6. PICK t : t = FinalizeClaim(ClaimTerminal(u, "timed_out", 0, FALSE))
  OBVIOUS
<1>7. Becomes(t)
  BY <1>3, <1>4, <1>6
<1>8. Open /\ "timed_out" \in Statuses
  BY <1>3, ClockIsTheWinners DEF Statuses
<1>9. UNCHANGED <<arrived, launcher>>
  BY DEF SessionTimesOut, LeaseLapses
<1>10. QED
  BY <1>5, <1>6, <1>7, <1>8, <1>9, TimeUp

(* A step that settles a claim whose winner has been heard or has gone      *)
(* keeps the invariant.                                                     *)
LEMMA Settles ==
  ASSUME IInv, ~Open, claim.by # 0 => ~requests[claim.by].open, TypeOK',
         claim' = claim, requests' = requests, flags'.settled, timers' \subseteq timers, UNCHANGED <<arrived, launcher>>
  PROVE  IInv'
<1>1. ~Open'
  BY DEF Open
<1>2. Undecided' /\ Writing' /\ Asked'
  BY <1>1 DEF IInv, Undecided, Writing, Asked
<1>3. ASSUME claim.by # 0 PROVE WinnerHolds'
  BY <1>3 DEF IInv, Claimed, WinnerHolds
<1>4. Claimed'
  BY <1>1, <1>3 DEF IInv, Claimed
<1>5. QED
  BY <1>2, <1>4 DEF IInv

(* The acknowledgement clock.                                               *)
LEMMA AcknowledgementTimesOutKeeps ==
  ASSUME IInv, AcknowledgementTimesOut
  PROVE  IInv'
<1>1. PICK s : s = Session
  OBVIOUS
<1>2. s \in Sessions /\ s.claim = claim /\ s.flags = flags /\ s.timers = timers /\ s.requests = requests
  BY <1>1, Known
<1>3. PICK u : u = [s EXCEPT !.timers = @ \ {"ack"}]
  OBVIOUS
<1>4. u \in Sessions /\ u.claim = claim /\ u.flags = flags /\ u.requests = requests /\ u.timers \subseteq timers
  BY <1>2, <1>3 DEF Sessions
<1>5. PICK t : t = FinalizeClaim(u)
  OBVIOUS
<1>6. "ack" \in timers /\ Becomes(t) /\ UNCHANGED <<arrived, launcher>>
  BY <1>1, <1>3, <1>5 DEF AcknowledgementTimesOut
<1>7. ~Open /\ (claim.by # 0 => ~requests[claim.by].open)
  BY <1>6, ClockIsTheWinners
<1>8. /\ t \in Sessions /\ t.claim = u.claim /\ t.requests = u.requests
      /\ t.flags.settled = (u.flags.settled \/ u.claim.status # "pending")
      /\ t.timers \subseteq u.timers
  BY <1>4, <1>5, FinalIs
<1>9. t.flags.settled
  BY <1>4, <1>7, <1>8 DEF Open
<1>10. TypeOK'
  BY <1>6, <1>8, Typed
<1>11. claim' = claim /\ requests' = requests /\ timers' \subseteq timers
  BY <1>4, <1>6, <1>8 DEF Becomes
<1>12. flags'.settled
  BY <1>6, <1>9 DEF Becomes
<1>13. QED
  BY <1>6, <1>7, <1>10, <1>11, <1>12, Settles

(* An interrupt: it is put off while the answer of a winner is on its way,  *)
(* settles a claim that waits for nothing, and ends an open session.        *)
LEMMA SignalKeeps ==
  ASSUME IInv, Signal
  PROVE  IInv'
<1>1. PICK s : s = Session
  OBVIOUS
<1>2. s \in Sessions /\ s.claim = claim /\ s.flags = flags /\ s.timers = timers /\ s.requests = requests
  BY <1>1, Known
<1>3. Becomes(Interrupt(s)) /\ UNCHANGED <<arrived, launcher>>
  BY <1>1 DEF Signal
<1>4. CASE ~Open /\ flags.answering
  <2>1. PICK t : t = [s EXCEPT !.flags.finalizeAfter = TRUE]
    OBVIOUS
  <2>2. Becomes(t)
    BY <1>2, <1>3, <1>4, <2>1 DEF Interrupt, Open
  <2>3. /\ t \in Sessions /\ t.claim = claim /\ t.timers = timers /\ t.requests = requests
        /\ t.flags = [flags EXCEPT !.finalizeAfter = TRUE]
    BY <1>2, <2>1 DEF Sessions
  <2>4. TypeOK'
    BY <1>3, <2>2, <2>3, Typed
  <2>5. claim' = claim /\ timers' = timers /\ requests' = requests
    BY <2>2, <2>3 DEF Becomes
  <2>6. flags'.settled = flags.settled /\ flags'.answering = flags.answering
    BY <2>2, <2>3 DEF Becomes, IInv, TypeOK
  <2>7. Undecided' /\ Writing' /\ Asked'
    BY <1>3, <1>4, <2>5 DEF IInv, Undecided, Writing, Asked, Open
  <2>8. ASSUME claim.by # 0, WinnerHolds PROVE WinnerHolds'
    BY <1>3, <2>5, <2>6, <2>8 DEF WinnerHolds
  <2>9. Claimed'
    BY <1>4, <2>5, <2>6, <2>8 DEF IInv, Claimed, Open
  <2>10. QED
    BY <2>4, <2>7, <2>9 DEF IInv
<1>5. CASE ~Open /\ ~flags.answering
  <2>1. PICK t : t = FinalizeClaim(s)
    OBVIOUS
  <2>2. Becomes(t)
    BY <1>2, <1>3, <1>5, <2>1 DEF Interrupt, Open, ClaimTerminal
  <2>3. /\ t \in Sessions /\ t.claim = s.claim /\ t.requests = s.requests
        /\ t.flags.settled = (s.flags.settled \/ s.claim.status # "pending")
        /\ t.timers \subseteq s.timers
    BY <1>2, <2>1, FinalIs
  <2>4. t.flags.settled
    BY <1>2, <1>5, <2>3 DEF Open
  <2>5. claim' = claim /\ requests' = requests /\ timers' \subseteq timers
    BY <1>2, <2>2, <2>3 DEF Becomes
  <2>6. TypeOK' /\ flags'.settled
    BY <1>3, <2>2, <2>3, <2>4, Typed DEF Becomes
  <2>7. claim.by # 0 => ~requests[claim.by].open
    BY <1>5 DEF IInv, Claimed, WinnerHolds
  <2>8. QED
    BY <1>3, <1>5, <2>5, <2>6, <2>7, Settles
<1>6. CASE Open
  <2>1. PICK t : t = FinalizeClaim(ClaimTerminal(s, "interrupted", 0, FALSE))
    OBVIOUS
  <2>2. Becomes(t) /\ "interrupted" \in Statuses
    BY <1>2, <1>3, <1>6, <2>1 DEF Interrupt, Open, Statuses
  <2>3. QED
    BY <1>2, <1>3, <1>6, <2>1, <2>2, TimeUp
<1>7. QED
  BY <1>4, <1>5, <1>6

-----------------------------------------------------------------------------

(* A step that closes a connection keeps the invariant, when the response   *)
(* of the winner starts the clock and that of an acknowledgement settles.   *)
LEMMA Out ==
  ASSUME IInv, NEW r \in 1..MaxRequests, r <= arrived,
         NEW s, s = Session, NEW u \in Sessions, Others(s, u, r),
         u.requests[r].open = FALSE, u.requests[r].effect = "none", u.requests[r].knows = requests[r].knows,
         u.requests[r].step = requests[r].step, u.requests[r].answer = requests[r].answer,
         NEW t \in Sessions, Becomes(t), UNCHANGED <<arrived, launcher>>,
         t.requests = u.requests, t.claim = claim,
         requests[r].effect = "arm" => t.timers \subseteq timers \union {"ack"} /\ (t.flags.settled \/ "ack" \in t.timers),
         requests[r].effect # "arm" =>
           /\ t.timers \subseteq timers /\ timers \ {"ack"} \subseteq t.timers
           /\ t.flags.answering = flags.answering
           /\ \/ t.flags.settled = flags.settled /\ t.timers = timers
              \/ ~Open /\ requests[r].knows /\ t.flags.settled
  PROVE  IInv'
<1>1. TypeOK'
  BY Typed
<1>2. claim' = claim /\ flags' = t.flags /\ timers' = t.timers /\ arrived' = arrived /\ launcher' = launcher
  BY DEF Becomes
<1>3. /\ \A n \in 1..MaxRequests : n # r => requests'[n] = requests[n]
      /\ requests'[r].open = FALSE /\ requests'[r].effect = "none"
      /\ requests'[r].knows = requests[r].knows /\ requests'[r].step = requests[r].step
      /\ requests'[r].answer = requests[r].answer
  BY Known DEF Others, Becomes
<1>4. Open' = Open /\ Listening' = Listening
  BY <1>2 DEF Open, Listening
<1>5. Undecided'
  <2> SUFFICES ASSUME Open PROVE Undecided'
    BY <1>4 DEF Undecided
  <2>1. requests[r].effect # "arm"
    BY DEF IInv, Undecided
  <2>2. t.flags.settled = flags.settled /\ t.timers = timers
    BY <2>1
  <2>3. ASSUME NEW n \in 1..MaxRequests
        PROVE  /\ requests'[n].answer # "won" /\ requests'[n].effect # "arm"
               /\ requests'[n].step \in Live => requests'[n].answer # "refused"
    BY <1>3 DEF IInv, Undecided
  <2>4. QED
    BY <1>2, <1>4, <2>2, <2>3 DEF IInv, Undecided
<1>6. Asked'
  <2>1. \A n \in 1..MaxRequests : n > arrived => requests'[n] = NoRequest
    BY <1>3 DEF IInv, TypeOK, Asked
  <2>2. \A n \in 1..MaxRequests : requests'[n].step = "reading" => requests'[n].answer = "none"
    BY <1>3 DEF IInv, Asked
  <2>3. \A n \in 1..MaxRequests : requests'[n].effect = "finalize" => requests'[n].knows
    BY <1>3 DEF IInv, Asked
  <2>4. QED
    BY <1>2, <2>1, <2>2, <2>3 DEF Asked
<1>7. Claimed'
  <2> SUFFICES ASSUME ~Open PROVE Claimed'
    BY <1>4 DEF Claimed
  <2>1. timers' \subseteq {"ack"}
    BY <1>2 DEF IInv, Claimed
  <2>2. \A n \in 1..MaxRequests : requests'[n].answer = "won" \/ requests'[n].effect = "arm" => n = claim.by
    BY <1>3 DEF IInv, Claimed
  <2>3. ASSUME claim.by = 0 PROVE flags'.settled
    <3>1. flags.settled /\ requests[r].effect # "arm"
      BY <2>3 DEF IInv, Claimed
    <3>2. QED
      BY <1>2, <3>1
  <2>4. ASSUME claim.by # 0 PROVE WinnerHolds'
    <3>1. claim.by \in 1..MaxRequests /\ WinnerHolds
      BY <2>4 DEF IInv, TypeOK, Claimed
    <3>2. claim.by <= arrived /\ requests'[claim.by].answer # "refused"
      BY <1>3, <3>1 DEF WinnerHolds
    <3>3. CASE claim.by = r
      <4>1. ~requests'[claim.by].open
        BY <1>3, <3>3
      <4>2. flags'.settled \/ "ack" \in timers'
        <5>1. CASE requests[r].effect = "arm"
          BY <1>2, <5>1
        <5>2. CASE requests[r].effect # "arm"
          <6>1. flags.settled \/ "ack" \in timers
            BY <3>1, <3>3, <5>2 DEF WinnerHolds
          <6>2. QED
            BY <1>2, <5>2, <6>1
        <5>3. QED
          BY <5>1, <5>2
      <4>3. QED
        BY <1>2, <3>2, <4>1, <4>2 DEF WinnerHolds
    <3>4. CASE claim.by # r
      <4>1. requests[r].effect # "arm" /\ requests'[claim.by] = requests[claim.by]
        BY <1>3, <3>1, <3>4 DEF IInv, Claimed
      <4>2. flags.settled => flags'.settled
        BY <1>2, <4>1
      <4>3. "ack" \in timers => flags'.settled \/ "ack" \in timers'
        BY <1>2, <4>1
      <4>4. flags'.answering = flags.answering /\ timers' \subseteq timers
        BY <1>2, <4>1
      <4>5. ASSUME flags'.settled, flags.settled \/ requests[r].knows, requests[claim.by].open
            PROVE  \E n \in 1..MaxRequests : requests'[n].knows
        BY <1>3, <3>1, <4>5 DEF WinnerHolds
      <4>6. flags'.settled => flags.settled \/ requests[r].knows
        BY <1>2, <4>1
      <4>7. QED
        BY <1>2, <3>1, <3>2, <4>1, <4>2, <4>3, <4>4, <4>5, <4>6 DEF WinnerHolds
    <3>5. QED
      BY <3>3, <3>4
  <2>5. QED
    BY <1>2, <2>1, <2>2, <2>3, <2>4 DEF Claimed
<1>8. Writing'
  BY <1>2, <1>4 DEF IInv, Writing
<1>9. QED
  BY <1>1, <1>5, <1>6, <1>7, <1>8 DEF IInv

(* The session with the connection of r closed.                             *)
Shut(s, r) == [s EXCEPT !.requests[r].open = FALSE, !.requests[r].effect = "none"]

(* A session in which one connection closed.                                *)
LEMMA CloseSession ==
  ASSUME IInv, NEW r \in 1..MaxRequests, NEW s, s = Session,
         NEW u, u = Shut(s, r)
  PROVE  /\ u \in Sessions /\ u.claim = claim /\ u.flags = flags /\ u.timers = timers /\ Others(s, u, r)
         /\ u.requests[r].open = FALSE /\ u.requests[r].effect = "none"
         /\ u.requests[r].knows = requests[r].knows
         /\ u.requests[r].step = requests[r].step /\ u.requests[r].answer = requests[r].answer
<1>1. s \in Sessions /\ s.claim = claim /\ s.flags = flags /\ s.timers = timers /\ s.requests = requests
  BY Known
<1>2. PICK w : w = [requests[r] EXCEPT !.open = FALSE, !.effect = "none"]
  OBVIOUS
<1>3. /\ w \in Request /\ w.step = requests[r].step /\ w.open = FALSE /\ w.knows = requests[r].knows
      /\ w.effect = "none" /\ w.answer = requests[r].answer
  BY <1>1, <1>2, RequestIs, CloseIs
<1>4. PICK v : v = Put(s, r, w)
  OBVIOUS
<1>5. u = v /\ v \in Sessions /\ Kept(s, v) /\ Others(s, v, r) /\ v.requests[r] = w
  <2>1. v \in Sessions /\ Kept(s, v) /\ Others(s, v, r) /\ v.requests[r] = w
    BY <1>1, <1>3, <1>4, PutIs
  <2>2. u = v
    BY <1>1, <1>2, <1>4 DEF Put, Shut, Sessions
  <2>3. QED
    BY <2>1, <2>2
<1>6. u.claim = claim /\ u.flags = flags /\ u.timers = timers
  BY <1>1, <1>5 DEF Kept
<1>7. QED
  BY <1>3, <1>5, <1>6

(* What the effect of a response leaves, once it is out.                    *)
Quiet(u, t, r) ==
  /\ t.requests = u.requests /\ t.claim = claim
  /\ requests[r].effect = "arm" =>
       t.timers \subseteq timers \union {"ack"} /\ (t.flags.settled \/ "ack" \in t.timers)
  /\ requests[r].effect # "arm" =>
       /\ t.timers \subseteq timers /\ timers \ {"ack"} \subseteq t.timers
       /\ t.flags.answering = flags.answering
       /\ \/ t.flags.settled = flags.settled /\ t.timers = timers
          \/ ~Open /\ requests[r].knows /\ t.flags.settled

(* The effect of a winner's response.                                       *)
LEMMA ArmedIsQuiet ==
  ASSUME IInv, NEW r \in 1..MaxRequests, requests[r].effect = "arm",
         NEW u \in Sessions, u.claim = claim, u.timers = timers,
         NEW t, t = ArmAcknowledgement(u)
  PROVE  t \in Sessions /\ Quiet(u, t, r)
<1>1. u.claim.status # "pending"
  BY DEF IInv, Undecided, Open
<1>2. /\ t \in Sessions /\ t.claim = u.claim /\ t.requests = u.requests
      /\ t.timers \subseteq u.timers \union {"ack"}
      /\ t.flags.settled \/ "ack" \in t.timers
  BY <1>1, ArmIs
<1>3. QED
  BY <1>2 DEF Quiet

(* A response goes out, or its connection closes.                           *)
LEMMA FinishKeeps ==
  ASSUME IInv, NEW r \in 1..MaxRequests, Finish(r) \/ Drop(r)
  PROVE  IInv'
<1>1. PICK s : s = Session
  OBVIOUS
<1>2. s \in Sessions /\ s.claim = claim /\ s.flags = flags /\ s.timers = timers /\ s.requests = requests
  BY <1>1, Known
<1>3. PICK u : u = Shut(s, r)
  OBVIOUS
<1>4. /\ u \in Sessions /\ u.claim = claim /\ u.flags = flags /\ u.timers = timers /\ Others(s, u, r)
      /\ u.requests[r].open = FALSE /\ u.requests[r].effect = "none"
      /\ u.requests[r].knows = requests[r].knows
      /\ u.requests[r].step = requests[r].step /\ u.requests[r].answer = requests[r].answer
  BY <1>1, <1>3, CloseSession
<1>5. requests[r].open /\ UNCHANGED <<arrived, launcher>> /\ r <= arrived
  BY Present DEF Finish, Drop
<1>6. PICK effect : /\ effect = requests[r].effect \/ (effect = "none" /\ requests[r].effect # "arm")
                    /\ Becomes(Happens(u, effect))
  <2>1. CASE Finish(r)
    BY <1>1, <1>3, <2>1 DEF Finish, Shut
  <2>2. CASE Drop(r)
    <3>1. Becomes(IF s.requests[r].effect = "arm" THEN ArmAcknowledgement(u) ELSE u)
      BY <1>1, <1>3, <2>2 DEF Drop, Closed, Shut
    <3>2. CASE requests[r].effect = "arm"
      BY <1>2, <3>1, <3>2 DEF Happens
    <3>3. CASE requests[r].effect # "arm"
      BY <1>2, <3>1, <3>3 DEF Happens
    <3>4. QED
      BY <3>2, <3>3
  <2>3. QED
    BY <2>1, <2>2
<1>7. requests[r].effect \in Effects
  BY DEF IInv, TypeOK, Request
<1>8. PICK t : t = Happens(u, effect)
  OBVIOUS
<1>9. t \in Sessions /\ Quiet(u, t, r)
  <2>1. CASE effect = "arm"
    <3>1. requests[r].effect = "arm" /\ t = ArmAcknowledgement(u)
      BY <1>6, <1>8, <2>1 DEF Happens
    <3>2. QED
      BY <1>4, <3>1, ArmedIsQuiet
  <2>2. CASE effect = "finalize"
    <3>1. requests[r].effect = "finalize" /\ t = FinalizeClaim(u) /\ requests[r].knows
      BY <1>6, <1>8, <2>2 DEF Happens, IInv, Asked
    <3>2. /\ t \in Sessions /\ t.claim = u.claim /\ t.requests = u.requests
          /\ t.flags.answering = u.flags.answering
          /\ t.flags.settled = (u.flags.settled \/ u.claim.status # "pending")
          /\ t.timers \subseteq u.timers /\ u.timers \ {"ack"} \subseteq t.timers
          /\ u.claim.status = "pending" => t = u
      BY <1>4, <3>1, FinalIs
    <3>3. CASE Open
      BY <1>4, <3>1, <3>2, <3>3 DEF Quiet, Open
    <3>4. CASE ~Open
      <4>1. t.flags.settled
        BY <1>4, <3>2, <3>4 DEF Open
      <4>2. QED
        BY <1>4, <3>1, <3>2, <3>4, <4>1 DEF Quiet
    <3>5. QED
      BY <3>3, <3>4
  <2>3. CASE effect = "none"
    <3>1. t = u /\ requests[r].effect # "arm"
      BY <1>6, <1>8, <2>3 DEF Happens
    <3>2. QED
      BY <1>4, <3>1 DEF Quiet
  <2>4. QED
    BY <1>6, <1>7, <2>1, <2>2, <2>3 DEF Effects
<1>10. Becomes(t)
  BY <1>6, <1>8
<1>11. /\ t.requests = u.requests /\ t.claim = claim
       /\ requests[r].effect = "arm" =>
            t.timers \subseteq timers \union {"ack"} /\ (t.flags.settled \/ "ack" \in t.timers)
       /\ requests[r].effect # "arm" =>
            /\ t.timers \subseteq timers /\ timers \ {"ack"} \subseteq t.timers
            /\ t.flags.answering = flags.answering
            /\ \/ t.flags.settled = flags.settled /\ t.timers = timers
               \/ ~Open /\ requests[r].knows /\ t.flags.settled
  BY <1>9 DEF Quiet
<1>12. QED
  BY <1>1, <1>4, <1>5, <1>9, <1>10, <1>11, Out

-----------------------------------------------------------------------------

(* The steps of the launcher that leave the session alone.                  *)
LEMMA LauncherKeeps ==
  ASSUME IInv, Place \/ Decided \/ WriteFrame
  PROVE  IInv'
<1>1. UNCHANGED <<claim, flags, timers, requests, arrived>>
  BY DEF Place, Decided, WriteFrame
<1>2. /\ Listening' = Listening /\ (launcher'.pc = "writing" => ~Open)
      /\ launcher'.wrote # "nothing" => launcher'.wrote = claim.status
  <2>1. CASE Place
    BY <2>1 DEF Place, Listening, IInv, TypeOK, Writing
  <2>2. CASE Decided
    <3>1. ~Open
      BY <2>2 DEF Decided, IInv, Undecided
    <3>2. QED
      BY <2>2, <3>1 DEF Decided, Listening, IInv, TypeOK, Writing
  <2>3. CASE WriteFrame
    BY <2>3 DEF WriteFrame, Listening, IInv, TypeOK
  <2>4. QED
    BY <2>1, <2>2, <2>3
<1>3. launcher' \in [pc : {"placing", "waiting", "writing", "stopping", "done"},
                     wrote : Statuses \union {"nothing"}]
  <2>1. CASE Place
    BY <2>1 DEF Place, IInv, TypeOK
  <2>2. CASE Decided
    BY <2>2 DEF Decided, IInv, TypeOK
  <2>3. CASE WriteFrame
    <3>1. claim.status \in Statuses
      BY <2>3 DEF WriteFrame, IInv, Writing, Open, TypeOK
    <3>2. QED
      BY <2>3, <3>1 DEF WriteFrame
  <2>4. QED
    BY <2>1, <2>2, <2>3
<1>4. TypeOK'
  BY <1>1, <1>3 DEF IInv, TypeOK
<1>5. Open' = Open
  BY <1>1 DEF Open
<1>6. Undecided' /\ Asked' /\ Writing'
  BY <1>1, <1>2, <1>5 DEF IInv, Undecided, Asked, Writing
<1>7. Claimed'
  BY <1>1, <1>5 DEF IInv, Claimed, WinnerHolds
<1>8. QED
  BY <1>4, <1>6, <1>7 DEF IInv

(* The session with every connection closed.                                *)
Disconnected(u) ==
  [u EXCEPT !.flags.answering = FALSE,
            !.requests = [r \in 1..MaxRequests |-> [@[r] EXCEPT !.open = FALSE, !.effect = "none"]]]

(* What that leaves.                                                        *)
Silent(u, t) ==
  /\ t.claim = u.claim /\ t.timers = u.timers /\ t.flags.settled = u.flags.settled
  /\ \A n \in 1..MaxRequests :
       /\ t.requests[n].open = FALSE /\ t.requests[n].effect = "none"
       /\ t.requests[n].knows = u.requests[n].knows
       /\ t.requests[n].step = u.requests[n].step /\ t.requests[n].answer = u.requests[n].answer
       /\ u.requests[n] = NoRequest => t.requests[n] = NoRequest

(* A request that has not arrived has no connection to close.               *)
LEMMA ClosedAlready == [NoRequest EXCEPT !.open = FALSE, !.effect = "none"] = NoRequest
<1>1. PICK w : w = [NoRequest EXCEPT !.open = FALSE, !.effect = "none"]
  OBVIOUS
<1>2. NoRequest \in Request
  BY DEF NoRequest, Request, Effects
<1>3. w \in Request /\ w.kind = NoRequest.kind /\ w.step = NoRequest.step /\ w.answer = NoRequest.answer
      /\ w.open = FALSE /\ w.effect = "none" /\ w.knows = NoRequest.knows
  BY <1>1, <1>2 DEF Request, Effects
<1>4. NoRequest.open = FALSE /\ NoRequest.effect = "none"
  BY DEF NoRequest
<1>5. w = NoRequest
  BY <1>2, <1>3, <1>4 DEF Request
<1>6. QED
  BY <1>1, <1>5

(* Closing the connections leaves what the pages were told.                 *)
LEMMA AfterStop ==
  ASSUME NEW u \in Sessions, NEW t, t = Disconnected(u)
  PROVE  t \in Sessions /\ Silent(u, t)
<1>1. PICK q : q = [r \in 1..MaxRequests |-> [u.requests[r] EXCEPT !.open = FALSE, !.effect = "none"]]
  OBVIOUS
<1>2. PICK f : f = [u.flags EXCEPT !.answering = FALSE]
  OBVIOUS
<1>3. f \in [answering : BOOLEAN, finalizeAfter : BOOLEAN, settled : BOOLEAN] /\ f.settled = u.flags.settled
  BY <1>2 DEF Sessions
<1>4. ASSUME NEW n \in 1..MaxRequests
      PROVE  /\ q[n] \in Request /\ q[n].open = FALSE /\ q[n].effect = "none"
             /\ q[n].knows = u.requests[n].knows
             /\ q[n].step = u.requests[n].step /\ q[n].answer = u.requests[n].answer
             /\ u.requests[n] = NoRequest => q[n] = NoRequest
  <2>1. q[n] = [u.requests[n] EXCEPT !.open = FALSE, !.effect = "none"]
    BY <1>1
  <2>2. u.requests[n] = NoRequest => q[n] = NoRequest
    <3>1. [NoRequest EXCEPT !.open = FALSE, !.effect = "none"] = NoRequest
      BY ClosedAlready
    <3>2. QED
      BY <2>1, <3>1
  <2>3. QED
    BY <2>1, <2>2, RequestIs, CloseIs
<1>5. q \in [1..MaxRequests -> Request]
  BY <1>1, <1>4
<1>6. t = [u EXCEPT !.flags = f, !.requests = q]
  BY <1>1, <1>2 DEF Sessions, Disconnected
<1>7. t \in Sessions /\ t.claim = u.claim /\ t.timers = u.timers /\ t.flags = f /\ t.requests = q
  BY <1>3, <1>5, <1>6 DEF Sessions
<1>8. QED
  BY <1>3, <1>4, <1>7 DEF Silent

(* The teardown.                                                            *)
LEMMA StopKeeps ==
  ASSUME IInv, Stop
  PROVE  IInv'
<1>1. PICK s : s = Session
  OBVIOUS
<1>2. s \in Sessions /\ s.claim = claim /\ s.flags = flags /\ s.timers = timers /\ s.requests = requests
  BY <1>1, Known
<1>3. PICK c : c = ClaimTerminal(s, "interrupted", 0, FALSE)
  OBVIOUS
<1>4. /\ c \in Sessions /\ c.claim.status # "pending"
      /\ Open => c.claim.by = 0
      /\ ~Open => c = s
      /\ Aborts(s, c)
  <2>1. CASE Open
    <3>1. s.claim.status = "pending" /\ 0 \in 0..MaxRequests /\ FALSE \in BOOLEAN /\ "interrupted" \in Statuses
      BY <1>2, <2>1, RequestsAreCountable DEF Open, Statuses
    <3>2. c \in Sessions /\ Claims(s, c, 0, FALSE) /\ Aborts(s, c)
      BY <1>2, <1>3, <3>1, ClaimIs
    <3>3. c.claim.status # "pending" /\ c.claim.by = 0
      BY <3>2 DEF Claims
    <3>4. QED
      BY <2>1, <3>2, <3>3
  <2>2. CASE ~Open
    <3>1. c = s
      BY <1>2, <1>3, <2>2 DEF ClaimTerminal, Open
    <3>2. QED
      BY <1>2, <2>2, <3>1 DEF Aborts, Open
  <2>3. QED
    BY <2>1, <2>2
<1>5. PICK e : e = FinalizeClaim(c)
  OBVIOUS
<1>6. e \in Sessions /\ e.claim = c.claim /\ e.requests = c.requests
      /\ e.flags.settled = (c.flags.settled \/ c.claim.status # "pending")
  BY <1>4, <1>5, FinalIs
<1>7. PICK u : u = [e EXCEPT !.timers = {}]
  OBVIOUS
<1>8. u \in Sessions /\ u.claim = e.claim /\ u.requests = e.requests /\ u.flags = e.flags /\ u.timers = {}
  BY <1>6, <1>7 DEF Sessions
<1>9. PICK t : t = Disconnected(u)
  OBVIOUS
<1>10. Becomes(t) /\ launcher' = [launcher EXCEPT !.pc = "done"] /\ arrived' = arrived
  BY <1>1, <1>3, <1>5, <1>7, <1>9 DEF Stop, StopSession, Disconnected
<1>11. t \in Sessions /\ Silent(u, t)
  BY <1>8, <1>9, AfterStop
<1>12. t.claim = c.claim /\ t.timers = {} /\ u.requests = c.requests
  BY <1>6, <1>8, <1>11 DEF Silent
<1>13. t.flags.settled
  <2>1. e.flags.settled
    BY <1>4, <1>6
  <2>2. QED
    BY <1>8, <1>11, <2>1 DEF Silent
<1>14. \A n \in 1..MaxRequests :
              /\ t.requests[n].knows = requests[n].knows /\ t.requests[n].answer = requests[n].answer
              /\ t.requests[n].step = requests[n].step \/ t.requests[n].step = "aborted"
  BY <1>2, <1>4, <1>11, <1>12 DEF Aborts, Silent
<1>15. \A n \in 1..MaxRequests : requests[n] = NoRequest => t.requests[n] = NoRequest
  <2>1. \A n \in 1..MaxRequests : requests[n] = NoRequest => c.requests[n] = NoRequest
    BY <1>2, <1>4 DEF Aborts, NoRequest
  <2>2. QED
    BY <1>11, <1>12, <2>1 DEF Silent
<1>16. launcher' \in [pc : {"placing", "waiting", "writing", "stopping", "done"},
                      wrote : Statuses \union {"nothing"}] /\ launcher'.pc = "done"
       /\ launcher'.wrote = launcher.wrote
  BY <1>10 DEF IInv, TypeOK
<1>17. TypeOK'
  BY <1>10, <1>11, <1>16 DEF IInv, TypeOK, Becomes, Sessions
<1>18. CASE Open
  <2>1. t.claim.status # "pending" /\ t.claim.by = 0
    BY <1>4, <1>12, <1>18
  <2>2. \A n \in 1..MaxRequests :
           /\ t.requests[n].knows = requests[n].knows
           /\ t.requests[n].effect \in {requests[n].effect, "none"} /\ t.requests[n].answer = requests[n].answer
           /\ t.requests[n].step = requests[n].step \/ t.requests[n].step = "aborted"
           /\ requests[n] = NoRequest => t.requests[n] = NoRequest
    BY <1>11, <1>14, <1>15 DEF Silent
  <2>3. t.timers \subseteq {"ack"}
    BY <1>12
  <2>4. QED
    BY <1>10, <1>11, <1>13, <1>16, <1>17, <1>18, <2>1, <2>2, <2>3, Ended
<1>19. CASE ~Open
  <2>1. claim' = claim /\ timers' = {}
    BY <1>2, <1>4, <1>10, <1>12, <1>19 DEF Becomes
  <2>2. flags'.settled
    BY <1>10, <1>13 DEF Becomes
  <2>3. \A n \in 1..MaxRequests :
              /\ requests'[n].knows = requests[n].knows /\ requests'[n].answer = requests[n].answer
              /\ requests'[n].step = requests[n].step \/ requests'[n].step = "aborted"
              /\ requests'[n].open = FALSE /\ requests'[n].effect = "none"
              /\ requests[n] = NoRequest => requests'[n] = NoRequest
    BY <1>10, <1>11, <1>14, <1>15 DEF Becomes, Silent
  <2>4. ~Open'
    BY <1>19, <2>1 DEF Open
  <2>5. Undecided' /\ Writing'
    BY <1>16, <2>1, <2>4 DEF IInv, Undecided, Writing
  <2>6. Asked'
    BY <1>10, <2>3 DEF IInv, Asked
  <2>7. \A n \in 1..MaxRequests : requests'[n].answer = "won" \/ requests'[n].effect = "arm" => n = claim.by
    BY <1>19, <2>3 DEF IInv, Claimed
  <2>8. ASSUME claim.by # 0 PROVE WinnerHolds'
    <3>1. claim.by \in 1..MaxRequests /\ WinnerHolds
      BY <1>19, <2>8 DEF IInv, TypeOK, Claimed
    <3>2. QED
      BY <1>10, <2>1, <2>2, <2>3, <3>1 DEF WinnerHolds
  <2>9. Claimed'
    BY <2>1, <2>2, <2>7, <2>8 DEF Claimed
  <2>10. QED
    BY <1>17, <2>5, <2>6, <2>9 DEF IInv
<1>20. QED
  BY <1>18, <1>19

-----------------------------------------------------------------------------

(* A request that arrives and is told nothing, or that the session is over, *)
(* keeps the invariant.                                                     *)
LEMMA New ==
  ASSUME IInv, NEW r \in 1..MaxRequests, r = arrived + 1,
         NEW s, s = Session, NEW t \in Sessions, Becomes(t), arrived' = arrived + 1, launcher' = launcher,
         t.claim = claim, t.flags = flags,
         t.timers = timers \/ (Open /\ t.timers = timers \union {"lease"}),
         Others(s, t, r), t.requests[r].effect = "none",
         \/ t.requests[r].answer = "none"
         \/ t.requests[r].answer = "refused" /\ t.requests[r].step = "over"
  PROVE  IInv'
<1>1. TypeOK'
  BY DEF IInv, TypeOK, Becomes, Sessions
<1>2. claim' = claim /\ flags' = flags /\ (timers' = timers \/ (Open /\ timers' = timers \union {"lease"}))
  BY DEF Becomes
<1>3. /\ \A n \in 1..MaxRequests : n # r => requests'[n] = requests[n]
      /\ requests'[r].effect = "none"
      /\ requests'[r].answer = "none" \/ (requests'[r].answer = "refused" /\ requests'[r].step = "over")
  BY Known DEF Others, Becomes
<1>4. Open' = Open /\ Listening' = Listening
  BY <1>2 DEF Open, Listening
<1>5. Undecided'
  <2>1. ASSUME Open, NEW n \in 1..MaxRequests
        PROVE  /\ requests'[n].answer # "won" /\ requests'[n].effect # "arm"
               /\ requests'[n].step \in Live => requests'[n].answer # "refused"
    BY <1>3, <2>1 DEF IInv, Undecided, Live
  <2>2. QED
    BY <1>2, <1>4, <2>1 DEF IInv, Undecided
<1>6. Asked'
  <2>1. \A n \in 1..MaxRequests : n > arrived' => requests'[n] = NoRequest
    BY <1>3 DEF IInv, TypeOK, Asked
  <2>2. \A n \in 1..MaxRequests : requests'[n].step = "reading" => requests'[n].answer = "none"
    BY <1>3 DEF IInv, Asked
  <2>3. \A n \in 1..MaxRequests : requests'[n].effect = "finalize" => requests'[n].knows
    BY <1>3 DEF IInv, Asked
  <2>4. QED
    BY <2>1, <2>2, <2>3 DEF Asked
<1>7. Claimed'
  <2> SUFFICES ASSUME ~Open PROVE Claimed'
    BY <1>4 DEF Claimed
  <2>1. timers' = timers
    BY <1>2
  <2>2. \A n \in 1..MaxRequests : requests'[n].answer = "won" \/ requests'[n].effect = "arm" => n = claim.by
    BY <1>3 DEF IInv, Claimed
  <2>3. ASSUME claim.by # 0 PROVE WinnerHolds'
    <3>1. claim.by \in 1..MaxRequests /\ WinnerHolds /\ arrived \in Nat
      BY <2>3 DEF IInv, TypeOK, Claimed
    <3>2. claim.by # r /\ claim.by <= arrived'
      BY <3>1 DEF WinnerHolds
    <3>3. requests'[claim.by] = requests[claim.by]
      BY <1>3, <3>1, <3>2
    <3>4. ~requests[r].knows
      <4>1. requests[r] = NoRequest
        BY <3>1 DEF IInv, Asked
      <4>2. QED
        BY <4>1 DEF NoRequest
    <3>5. (\E n \in 1..MaxRequests : requests[n].knows) => \E n \in 1..MaxRequests : requests'[n].knows
      BY <1>3, <3>4
    <3>6. QED
      BY <1>2, <2>1, <3>1, <3>2, <3>3, <3>5 DEF WinnerHolds
  <2>4. QED
    BY <1>2, <1>4, <2>1, <2>2, <2>3 DEF IInv, Claimed
<1>8. Writing'
  BY <1>2, <1>4 DEF IInv, Writing
<1>9. QED
  BY <1>1, <1>5, <1>6, <1>7, <1>8 DEF IInv

(* A request as it arrives.                                                 *)
LEMMA NewRequestIs ==
  ASSUME NEW kind \in Kinds, NEW knows \in BOOLEAN,
         NEW w, w = [NoRequest EXCEPT !.kind = kind, !.step = "reading", !.open = TRUE, !.knows = knows]
  PROVE  w \in Request /\ w.effect = "none" /\ w.answer = "none"
<1>1. NoRequest \in Request /\ NoRequest.effect = "none" /\ NoRequest.answer = "none"
  BY DEF NoRequest, Request, Effects
<1>2. QED
  BY <1>1 DEF Request

(* The arrival of a request.                                                *)
LEMMA ArriveKeeps ==
  ASSUME IInv, NEW kind \in Kinds, Arrive(kind)
  PROVE  IInv'
<1>1. PICK s : s = Session
  OBVIOUS
<1>2. s \in Sessions /\ s.claim = claim /\ s.flags = flags /\ s.timers = timers /\ s.requests = requests
  BY <1>1, Known
<1>3. PICK r : r = arrived + 1
  OBVIOUS
<1>4. r \in 1..MaxRequests /\ arrived' = arrived + 1 /\ launcher' = launcher
  BY <1>3, RequestsAreCountable DEF Arrive, IInv, TypeOK
<1>5. PICK knows \in BOOLEAN :
        LET u == [s EXCEPT !.requests[r] =
                    [NoRequest EXCEPT !.kind = kind, !.step = "reading", !.open = TRUE, !.knows = knows]]
        IN  Becomes(IF kind \in {"heartbeat", "app"} /\ ~Open THEN Over(Send(u, r, "refused"), r)
                    ELSE IF kind = "app" THEN RenewLease(u) ELSE u)
  BY <1>1, <1>3 DEF Arrive
<1>6. PICK w : w = [NoRequest EXCEPT !.kind = kind, !.step = "reading", !.open = TRUE, !.knows = knows]
  OBVIOUS
<1>7. w \in Request /\ w.effect = "none" /\ w.answer = "none"
  BY <1>6, NewRequestIs
<1>8. PICK u : u = Put(s, r, w)
  OBVIOUS
<1>9. u \in Sessions /\ Kept(s, u) /\ Others(s, u, r) /\ u.requests[r] = w
  BY <1>2, <1>4, <1>7, <1>8, PutIs
<1>10. u.claim = claim /\ u.flags = flags /\ u.timers = timers
  BY <1>2, <1>9 DEF Kept
<1>11. u = [s EXCEPT !.requests[r] = w]
  BY <1>2, <1>8 DEF Put
<1>12. Becomes(IF kind \in {"heartbeat", "app"} /\ ~Open THEN Over(Send(u, r, "refused"), r)
               ELSE IF kind = "app" THEN RenewLease(u) ELSE u)
  BY <1>5, <1>6, <1>11
<1>13. CASE kind \in {"heartbeat", "app"} /\ ~Open
  <2>1. PICK t : t = Over(Send(u, r, "refused"), r)
    OBVIOUS
  <2>2. t \in Sessions /\ Stays(u, t, r) /\ Answers(u, t, r, "refused") /\ t.requests[r].step = "over"
    BY <1>4, <1>9, <2>1, SendOverIs
  <2>3. Becomes(t)
    BY <1>12, <1>13, <2>1
  <2>4. Others(s, t, r)
    BY <1>9, <2>2 DEF Stays, Others
  <2>5. t.claim = claim /\ t.flags = flags /\ t.timers = timers
    BY <1>10, <2>2 DEF Stays, Kept
  <2>6. t.requests[r].effect = "none"
    BY <1>7, <1>9, <2>2 DEF Stays
  <2>7. t.requests[r].answer \in {"none", "refused"}
    BY <1>7, <1>9, <2>2 DEF Answers
  <2>8. QED
    BY <1>1, <1>3, <1>4, <2>2, <2>3, <2>4, <2>5, <2>6, <2>7, New
<1>14. CASE ~(kind \in {"heartbeat", "app"} /\ ~Open) /\ kind = "app"
  <2>1. PICK t : t = RenewLease(u)
    OBVIOUS
  <2>2. /\ t \in Sessions /\ t.claim = u.claim /\ t.flags = u.flags /\ t.requests = u.requests
        /\ \/ t.timers = u.timers
           \/ u.claim.status = "pending" /\ t.timers = u.timers \union {"lease"}
    BY <1>9, <2>1, RenewIs
  <2>3. Becomes(t)
    BY <1>12, <1>14, <2>1
  <2>4. Others(s, t, r)
    BY <1>9, <2>2 DEF Others
  <2>5. t.claim = claim /\ t.flags = flags /\ (t.timers = timers \/ (Open /\ t.timers = timers \union {"lease"}))
    BY <1>10, <2>2 DEF Open
  <2>6. t.requests[r].effect = "none" /\ t.requests[r].answer = "none"
    BY <1>7, <1>9, <2>2
  <2>7. QED
    BY <1>1, <1>3, <1>4, <2>2, <2>3, <2>4, <2>5, <2>6, New
<1>15. CASE ~(kind \in {"heartbeat", "app"} /\ ~Open) /\ kind # "app"
  <2>1. Becomes(u)
    BY <1>12, <1>15
  <2>2. u.requests[r].effect = "none" /\ u.requests[r].answer = "none"
    BY <1>7, <1>9
  <2>3. QED
    BY <1>1, <1>3, <1>4, <1>9, <1>10, <2>1, <2>2, New
<1>16. QED
  BY <1>13, <1>14, <1>15

-----------------------------------------------------------------------------

(* The session is set up so.                                                *)
LEMMA Starts ==
  ASSUME Init
  PROVE  IInv
<1>1. NoRequest \in Request /\ NoRequest.effect = "none" /\ NoRequest.answer = "none" /\ NoRequest.step = "over"
  BY DEF NoRequest, Request, Effects
<1>2. TypeOK
  BY <1>1, RequestsAreCountable DEF Init, TypeOK, Pending, Statuses
<1>3. Undecided
  BY <1>1, RequestsAreCountable DEF Init, Undecided, Pending, Live
<1>4. Asked
  BY <1>1 DEF Init, Asked
<1>5. Open
  BY DEF Init, Open, Pending
<1>6. Writing /\ Claimed
  BY <1>5 DEF Init, Writing, Claimed
<1>7. QED
  BY <1>2, <1>3, <1>4, <1>6 DEF IInv

(* A step that changes nothing.                                             *)
LEMMA Stutters ==
  ASSUME IInv, UNCHANGED vars
  PROVE  IInv'
BY DEF IInv, TypeOK, Undecided, Asked, Claimed, WinnerHolds, Writing, Open, Listening, vars

(* Every state of every session, for any number of requests, satisfies the  *)
(* invariant.                                                               *)
THEOREM InvariantHolds == Spec => []IInv
<1>1. Init => IInv
  BY Starts
<1>2. IInv /\ [Next]_vars => IInv'
  <2> SUFFICES ASSUME IInv, [Next]_vars PROVE IInv'
    OBVIOUS
  <2>1. ASSUME NEW kind \in Kinds, Arrive(kind) PROVE IInv'
    BY <2>1, ArriveKeeps
  <2>2. ASSUME NEW r \in 1..MaxRequests, Serve(r) PROVE IInv'
    BY <2>2, BadBodyKeeps, HeartbeatKeeps, CancelKeeps, AcknowledgeKeeps, CallKeeps, CompleteKeeps,
       OperationKeeps, ReturnKeeps, FinishKeeps DEF Serve
  <2>3. CASE SessionTimesOut \/ LeaseLapses
    BY <2>3, TimesOutKeeps
  <2>4. CASE AcknowledgementTimesOut
    BY <2>4, AcknowledgementTimesOutKeeps
  <2>5. CASE Signal
    BY <2>5, SignalKeeps
  <2>6. CASE Place \/ Decided \/ WriteFrame
    BY <2>6, LauncherKeeps
  <2>7. CASE Stop
    BY <2>7, StopKeeps
  <2>8. CASE UNCHANGED vars
    BY <2>8, Stutters
  <2>9. QED
    BY <2>1, <2>2, <2>3, <2>4, <2>5, <2>6, <2>7, <2>8 DEF Next
<1>3. QED
  BY <1>1, <1>2, PTL DEF Spec

(* Every variable keeps its shape.                                          *)
THEOREM TypeCorrect == Spec => []TypeOK
<1>1. IInv => TypeOK
  BY DEF IInv
<1>2. QED
  BY <1>1, InvariantHolds, PTL

(* For any number of completions, cancellations, timers and signals that    *)
(* race, one request at most is told that it won, the claim is its own, it  *)
(* is never told that it lost, and the frame that is written is of the      *)
(* claim (server.mjs, claimTerminal and completedHere).                     *)
THEOREM OneAlwaysWins == Spec => []OneWinner
<1>1. IInv => OneWinner
  <2> SUFFICES ASSUME IInv PROVE OneWinner
    OBVIOUS
  <2>1. CASE Open
    BY <2>1 DEF IInv, Undecided, Writing, OneWinner
  <2>2. CASE ~Open
    BY <2>2 DEF IInv, Claimed, WinnerHolds, Writing, OneWinner
  <2>3. QED
    BY <2>1, <2>2
<1>2. QED
  BY <1>1, InvariantHolds, PTL

(* For any number of requests, the caller is not told of a decision before  *)
(* the answer of the page that made it has gone out or has nowhere to go,   *)
(* or a page has acknowledged it (server.mjs, armWhenAnswered and           *)
(* interrupt).                                                              *)
THEOREM HandOffWaits == Spec => []HandOffAfterAnswer
<1>1. IInv => HandOffAfterAnswer
  <2> SUFFICES ASSUME IInv, flags.settled, claim.by # 0 PROVE
        ~requests[claim.by].open \/ \E r \in 1..MaxRequests : requests[r].knows
    BY DEF HandOffAfterAnswer
  <2>1. ~Open
    BY DEF IInv, Undecided
  <2>2. QED
    BY <2>1 DEF IInv, Claimed, WinnerHolds
<1>2. QED
  BY <1>1, InvariantHolds, PTL

(* For any number of requests, an open session has both its timers, and a   *)
(* claimed one has its clock or an answer on its way that will start it     *)
(* (server.mjs, the comment in claimTerminal).                              *)
THEOREM BoundAlwaysRuns == Spec => []AlwaysBounded
<1>1. IInv => AlwaysBounded
  <2> SUFFICES ASSUME IInv PROVE AlwaysBounded
    OBVIOUS
  <2>1. CASE Open
    BY <2>1 DEF IInv, Undecided, AlwaysBounded
  <2>2. CASE ~Open
    <3>1. ASSUME ~flags.settled, "ack" \notin timers
          PROVE  \E r \in 1..MaxRequests : requests[r].open /\ requests[r].effect = "arm" /\ requests[r].answer # "none"
      <4>1. claim.by # 0 /\ claim.by \in 1..MaxRequests /\ WinnerHolds
        BY <2>2, <3>1 DEF IInv, TypeOK, Claimed
      <4>2. QED
        BY <3>1, <4>1 DEF WinnerHolds
    <3>2. QED
      BY <2>2, <3>1 DEF AlwaysBounded
  <2>3. QED
    BY <2>1, <2>2
<1>2. QED
  BY <1>1, InvariantHolds, PTL
===============================================================================
