---------------------------- MODULE CallbackProofs ----------------------------
(***************************************************************************)
(* Theorems about StoredCallbacks, for any questions, gates, clients and    *)
(* routers, and any number of crashes, storage errors and other writers:    *)
(* the history always reads, a gate never has two open questions, a client  *)
(* that was told its answer was taken was told so truly, and a question that *)
(* was claimed keeps its owner.                                            *)
(*                                                                         *)
(* The argument is one about optimistic appends.  What a client is about to *)
(* append was taken from the history at the revision it carries; the append *)
(* commits only if that is still the revision, hence the very history.      *)
(* A token is the revision of its claim, so no two clients hold the same;   *)
(* the record keeps the last claim and its answer (ClaimsHold), which is    *)
(* what an answer is later recognised by.                                   *)
(***************************************************************************)
EXTENDS StoredCallbacks, TLAPS

-----------------------------------------------------------------------------
(* What is true of a sound history.                                        *)

OneOpen(h) ==
  \A q, r \in Questions :
    GateOf[q] = GateOf[r] /\ IsLive(h.of[q]) /\ IsLive(h.of[r]) => q = r

ApprovedIsAnswered(h) ==
  \A q \in Questions : h.of[q].approval # NoApproval => h.of[q].status = "answered"

Sound(h) == h.valid /\ OneOpen(h) /\ ApprovedIsAnswered(h)

(* A call under way names a question, one that appends names its event.     *)
CallsAreNamed ==
  \A c \in Clients :
    /\ call[c].pc # "idle" => call[c].q \in Questions
    /\ call[c].pc = "append" => call[c].does # "nothing"

AllTyped == TypeOK /\ CallsAreNamed

(* What a client is about to append keeps the history sound, as long as     *)
(* nobody else has appended since.                                          *)
Fits(c) ==
  call[c].pc = "append" =>
    /\ call[c].rev <= revision
    /\ call[c].rev = revision => Sound(After(c, history))

AppendsFit == Sound(history) /\ \A c \in Clients : Fits(c)

-----------------------------------------------------------------------------
(* An event makes a history of a history, accepted or not.                  *)
LEMMA FoldIsHistory ==
  ASSUME NEW h \in History, NEW allowed \in BOOLEAN, NEW q \in Questions, NEW r \in RequestState
  PROVE  Fold(h, allowed, q, r) \in History
BY DEF Fold, History

(* So does replacing any number of questions.                               *)
LEMMA SupersededIsHistory ==
  ASSUME NEW h \in History, NEW Q
  PROVE  Superseded(h, Q) \in History
<1>1. NoClaim \in Claim
  BY DEF NoClaim, Claim
<1>2. \A q \in Questions : h.of[q] \in RequestState
  BY DEF History
<1>3. \A q \in Questions : [h.of[q] EXCEPT !.status = "superseded", !.owner = NoClaim] \in RequestState
  BY <1>1, <1>2 DEF RequestState
<1> QED BY <1>2, <1>3 DEF Superseded, History

(* Folding one event gives a history.                                       *)
LEMMA EventsAreHistories ==
  ASSUME NEW h \in History, NEW q \in Questions
  PROVE  /\ \A subject \in BOOLEAN : Requested(h, q, subject) \in History
         /\ \A claim \in Claim : Claimed(h, q, claim) \in History
         /\ \A router : Released(h, q, router) \in History /\ Rejected(h, q, router) \in History
         /\ \A answer \in Answer : Submitted(h, q, answer) \in History
         /\ \A approval \in Approval : Approved(h, q, approval) \in History
<1>1. NoClaim \in Claim
  BY DEF NoClaim, Claim
<1>2. h.of[q] \in RequestState
  BY DEF History
<1>3. ASSUME NEW subject \in BOOLEAN PROVE Requested(h, q, subject) \in History
  <2>1. [h.of[q] EXCEPT !.status = "pending", !.owner = NoClaim, !.subject = @ \/ subject] \in RequestState
    BY <1>1, <1>2 DEF RequestState
  <2> QED BY <2>1, FoldIsHistory DEF Requested
<1>4. ASSUME NEW claim \in Claim PROVE Claimed(h, q, claim) \in History
  <2>1. [h.of[q] EXCEPT !.status = "claimed", !.owner = claim, !.last = claim] \in RequestState
    BY <1>2 DEF RequestState
  <2> QED BY <2>1, FoldIsHistory DEF Claimed
<1>5. ASSUME NEW router PROVE Released(h, q, router) \in History
  <2>1. [h.of[q] EXCEPT !.status = "pending", !.owner = NoClaim] \in RequestState
    BY <1>1, <1>2 DEF RequestState
  <2> QED BY <2>1, FoldIsHistory DEF Released
<1>6. ASSUME NEW router PROVE Rejected(h, q, router) \in History
  BY <1>2, FoldIsHistory DEF Rejected
<1>7. ASSUME NEW answer \in Answer PROVE Submitted(h, q, answer) \in History
  <2>1. [h.of[q] EXCEPT !.status = "answered", !.owner = NoClaim, !.answer = answer] \in RequestState
    BY <1>1, <1>2 DEF RequestState
  <2> QED BY <2>1, FoldIsHistory DEF Submitted
<1>8. ASSUME NEW approval \in Approval PROVE Approved(h, q, approval) \in History
  <2>1. [h.of[q] EXCEPT !.approval = approval] \in RequestState
    BY <1>2 DEF RequestState
  <2> QED BY <2>1, FoldIsHistory DEF Approved
<1> QED BY <1>3, <1>4, <1>5, <1>6, <1>7, <1>8

(* So does the batch of a client.                                           *)
LEMMA BatchIsHistory ==
  ASSUME AllTyped, NEW c \in Clients, call[c].pc = "append"
  PROVE  After(c, history) \in History
<1> DEFINE d == call[c]
<1>1. /\ d \in CallState /\ d.q \in Questions /\ d.does # "nothing"
      /\ history \in History /\ held[c] \in [Questions -> Nat]
  BY DEF AllTyped, TypeOK, CallsAreNamed
<1>2. /\ RouterOf[c] \in Routers
      /\ ClaimAt(c, d.rev + 1) \in Claim /\ MyAnswer(c) \in Answer /\ MyApproval(c) \in Approval
  BY <1>1, ClientsAreRouters DEF CallState, ClaimAt, MyAnswer, MyApproval, Claim, Answer, Approval
<1>3. d.does \in Does /\ d.subject \in BOOLEAN
  BY <1>1 DEF CallState
<1>4. Superseded(history, d.others) \in History
  BY <1>1, SupersededIsHistory
<1>5. Requested(Superseded(history, d.others), d.q, d.subject) \in History
  BY <1>1, <1>3, <1>4, EventsAreHistories
<1>6. /\ Claimed(history, d.q, ClaimAt(c, d.rev + 1)) \in History
      /\ Released(history, d.q, RouterOf[c]) \in History
      /\ Rejected(history, d.q, RouterOf[c]) \in History
      /\ Submitted(history, d.q, MyAnswer(c)) \in History
  BY <1>1, <1>2, EventsAreHistories
<1>7. Approved(Submitted(history, d.q, MyAnswer(c)), d.q, MyApproval(c)) \in History
  BY <1>1, <1>2, <1>6, EventsAreHistories
<1> QED BY <1>1, <1>3, <1>4, <1>5, <1>6, <1>7 DEF After, Does

-----------------------------------------------------------------------------
(* What may be recorded in a sound history leaves it sound.                *)

(* Replacing open questions opens none.                                     *)
LEMMA SupersedingIsSound ==
  ASSUME NEW h \in History, Sound(h), NEW Q \in SUBSET Questions, \A q \in Q : IsLive(h.of[q])
  PROVE  /\ Sound(Superseded(h, Q))
         /\ \A q \in Questions :
              /\ IsLive(Superseded(h, Q).of[q]) => IsLive(h.of[q]) /\ q \notin Q
              /\ q \notin Q => Superseded(h, Q).of[q] = h.of[q]
<1> DEFINE g == Superseded(h, Q)
<1>1. g.valid = h.valid
  BY DEF Superseded, Sound
<1>2. ASSUME NEW q \in Questions, q \notin Q PROVE g.of[q] = h.of[q]
  BY <1>2 DEF Superseded
<1>3. ASSUME NEW q \in Q
      PROVE  g.of[q].status = "superseded" /\ g.of[q].approval = h.of[q].approval /\ h.of[q].status # "answered"
  <2>1. h.of[q] \in RequestState
    BY DEF History
  <2>2. g.of[q] = [h.of[q] EXCEPT !.status = "superseded", !.owner = NoClaim]
    BY DEF Superseded
  <2> QED BY <2>1, <2>2 DEF RequestState, IsLive
<1>4. \A q \in Questions : IsLive(g.of[q]) => IsLive(h.of[q]) /\ q \notin Q
  BY <1>2, <1>3 DEF IsLive
<1>5. OneOpen(g)
  BY <1>4 DEF OneOpen, Sound
<1>6. ApprovedIsAnswered(g)
  BY <1>2, <1>3 DEF ApprovedIsAnswered, Sound
<1> QED BY <1>1, <1>2, <1>4, <1>5, <1>6 DEF Sound

(* One accepted event at question q, which is open afterwards only if it    *)
(* was before or no other question of its gate is.                          *)
LEMMA FoldIsSound ==
  ASSUME NEW h \in History, Sound(h), NEW q \in Questions, NEW r \in RequestState, NEW allowed, allowed,
         IsLive(r) => \A x \in Questions \ {q} : GateOf[x] = GateOf[q] => ~IsLive(h.of[x]),
         r.approval # NoApproval => r.status = "answered"
  PROVE  Sound(Fold(h, allowed, q, r))
<1> DEFINE g == Fold(h, allowed, q, r)
<1>1. g = [h EXCEPT !.of[q] = r]
  BY DEF Fold
<1>2. g.valid = h.valid /\ g.of[q] = r /\ \A x \in Questions \ {q} : g.of[x] = h.of[x]
  BY <1>1 DEF History
<1>3. OneOpen(g)
  <2> SUFFICES ASSUME NEW x \in Questions, NEW y \in Questions, GateOf[x] = GateOf[y],
                      IsLive(g.of[x]), IsLive(g.of[y])
               PROVE  x = y
    BY DEF OneOpen
  <2>1. CASE x # q /\ y # q
    BY <1>2, <2>1 DEF Sound, OneOpen
  <2>2. CASE x = q \/ y = q
    BY <1>2, <2>2
  <2> QED BY <2>1, <2>2
<1>4. ApprovedIsAnswered(g)
  BY <1>2 DEF Sound, ApprovedIsAnswered
<1> QED BY <1>1, <1>2, <1>3, <1>4 DEF Sound

(* A question may be asked once the open ones of its gate are replaced.     *)
LEMMA RequestIsSound ==
  ASSUME NEW h \in History, Sound(h), NEW q \in Questions, NEW subject \in BOOLEAN,
         h.of[q].status \in {"absent", "superseded"}, ~(h.of[q].subject /\ subject),
         NEW Q, Q = {x \in Questions \ {q} : GateOf[x] = GateOf[q] /\ IsLive(h.of[x])}
  PROVE  Sound(Requested(Superseded(h, Q), q, subject))
<1> DEFINE g == Superseded(h, Q)
           r == [g.of[q] EXCEPT !.status = "pending", !.owner = NoClaim, !.subject = @ \/ subject]
           allowed == g.of[q].status \in {"absent", "superseded"} /\ ~(g.of[q].subject /\ subject)
<1>1. Sound(g) /\ g \in History /\ g.of[q] = h.of[q]
  BY SupersedingIsSound, SupersededIsHistory
<1>2. \A x \in Questions \ {q} : GateOf[x] = GateOf[q] => ~IsLive(g.of[x])
  BY SupersedingIsSound
<1>3. g.of[q] \in RequestState /\ NoClaim \in Claim
  BY <1>1 DEF History, NoClaim, Claim
<1>4. r \in RequestState /\ r.approval = g.of[q].approval
  BY <1>3 DEF RequestState
<1>5. r.approval = NoApproval
  BY <1>1, <1>4 DEF Sound, ApprovedIsAnswered
<1>6. allowed
  BY <1>1
<1>7. Sound(Fold(g, allowed, q, r))
  <2> HIDE DEF r, g, allowed
  <2> QED BY <1>1, <1>2, <1>4, <1>5, <1>6, FoldIsSound
<1> QED BY <1>7 DEF Requested

(* An event at a question that is open stays within what is open.           *)
LEMMA OpenEventsAreSound ==
  ASSUME NEW h \in History, Sound(h), NEW q \in Questions
  PROVE  /\ h.of[q].status = "pending" => \A claim \in Claim : Sound(Claimed(h, q, claim))
         /\ \A router : h.of[q].status = "claimed" /\ h.of[q].owner.router = router =>
              Sound(Released(h, q, router)) /\ Sound(Rejected(h, q, router))
         /\ \A answer \in Answer :
              h.of[q].status = "claimed" /\ h.of[q].owner.router = answer.router /\ answer.response \in Valid =>
                /\ Sound(Submitted(h, q, answer))
                /\ \A approval \in Approval : Sound(Approved(Submitted(h, q, answer), q, approval))
<1> DEFINE r == h.of[q]
<1>1. r \in RequestState /\ NoClaim \in Claim
  BY DEF History, NoClaim, Claim
<1>2. r.approval # NoApproval => r.status = "answered"
  BY DEF Sound, ApprovedIsAnswered
<1>3. IsLive(r) => \A x \in Questions \ {q} : GateOf[x] = GateOf[q] => ~IsLive(h.of[x])
  BY DEF Sound, OneOpen
<1>4. ASSUME r.status = "pending", NEW claim \in Claim PROVE Sound(Claimed(h, q, claim))
  <2> DEFINE s == [r EXCEPT !.status = "claimed", !.owner = claim, !.last = claim]
  <2>1. s \in RequestState /\ s.approval = r.approval /\ IsLive(r)
    BY <1>1, <1>4 DEF RequestState, IsLive
  <2>2. s.approval = NoApproval
    BY <1>2, <1>4, <2>1
  <2> HIDE DEF s
  <2>3. Sound(Fold(h, r.status = "pending", q, s))
    BY <1>3, <1>4, <2>1, <2>2, FoldIsSound
  <2> QED BY <2>3 DEF Claimed, s
<1>5. ASSUME NEW router, r.status = "claimed" /\ r.owner.router = router
      PROVE  Sound(Released(h, q, router)) /\ Sound(Rejected(h, q, router))
  <2> DEFINE s == [r EXCEPT !.status = "pending", !.owner = NoClaim]
             allowed == r.status = "claimed" /\ r.owner.router = router
  <2>1. s \in RequestState /\ s.approval = r.approval /\ IsLive(r)
    BY <1>1, <1>5 DEF RequestState, IsLive
  <2>2. r.approval = NoApproval
    BY <1>2, <1>5
  <2>3. Sound(Fold(h, allowed, q, s))
    <3> HIDE DEF s, r
    <3> QED BY <1>3, <1>5, <2>1, <2>2, FoldIsSound
  <2>4. Sound(Fold(h, allowed, q, r))
    BY <1>1, <1>3, <1>5, <2>1, <2>2, FoldIsSound
  <2> QED BY <2>3, <2>4 DEF Released, Rejected
<1>6. ASSUME NEW answer \in Answer,
             r.status = "claimed" /\ r.owner.router = answer.router /\ answer.response \in Valid
      PROVE  /\ Sound(Submitted(h, q, answer))
             /\ \A approval \in Approval : Sound(Approved(Submitted(h, q, answer), q, approval))
  <2> DEFINE s == [r EXCEPT !.status = "answered", !.owner = NoClaim, !.answer = answer]
             allowed == r.status = "claimed" /\ r.owner.router = answer.router /\ answer.response \in Valid
             g == Submitted(h, q, answer)
  <2>1. s \in RequestState /\ s.approval = r.approval /\ s.status = "answered" /\ ~IsLive(s)
    BY <1>1 DEF RequestState, IsLive
  <2>2. s.approval = NoApproval
    BY <1>2, <1>6, <2>1
  <2>3. Sound(Fold(h, allowed, q, s)) /\ Fold(h, allowed, q, s) = [h EXCEPT !.of[q] = s]
    <3>1. allowed
      BY <1>6
    <3>2. Fold(h, allowed, q, s) = [h EXCEPT !.of[q] = s]
      BY <3>1 DEF Fold
    <3>3. Sound(Fold(h, allowed, q, s))
      <4> HIDE DEF s, r, allowed
      <4> QED BY <2>1, <3>1, FoldIsSound
    <3> QED BY <3>2, <3>3
  <2>4. g = Fold(h, allowed, q, s)
    BY DEF Submitted
  <2>5. g \in History /\ g.of[q] = s /\ Sound(g)
    <3> HIDE DEF s, r
    <3> QED BY <2>1, <2>3, <2>4 DEF History
  <2>6. ASSUME NEW approval \in Approval PROVE Sound(Approved(g, q, approval))
    <3> DEFINE t == [g.of[q] EXCEPT !.approval = approval]
    <3> HIDE DEF s, r, g
    <3>1. t \in RequestState /\ t.status = "answered" /\ ~IsLive(t)
      BY <2>1, <2>5 DEF RequestState, IsLive
    <3> HIDE DEF t
    <3>2. Sound(Fold(g, g.of[q].approval = NoApproval, q, t))
      BY <2>2, <2>5, <3>1, FoldIsSound
    <3> QED BY <3>2 DEF Approved, t
  <2> QED BY <2>5, <2>6
<1> QED BY <1>4, <1>5, <1>6

-----------------------------------------------------------------------------
(* How calls change.                                                       *)

Told == {"nothing", "ok", "refused", "threw"}

(* A call reduced to what it was made with is a call.                       *)
LEMMA CallStates ==
  ASSUME TypeOK, NEW c \in Clients
  PROVE  NoCall \in CallState /\ Args(c) \in CallState /\ Args(c).pc = "idle" /\ Args(c).q = call[c].q
BY DEF TypeOK, CallState, NoCall, Args, Ops, Does

(* A call that returns is over, and nobody else's changes.                  *)
LEMMA ReturnsTypes ==
  ASSUME AllTyped, NEW c \in Clients, NEW told \in Told, Returns(c, told)
  PROVE  /\ call' \in [Clients -> CallState] /\ CallsAreNamed'
         /\ call'[c].pc = "idle" /\ \A x \in Clients \ {c} : call'[x] = call[x]
<1> DEFINE t == IF call[c].op = "submit" THEN [Args(c) EXCEPT !.told = told] ELSE NoCall
<1>1. call \in [Clients -> CallState] /\ TypeOK
  BY DEF AllTyped, TypeOK
<1>2. t \in CallState /\ t.pc = "idle"
  BY <1>1, CallStates DEF CallState, Told, NoCall
<1>3. call' = [call EXCEPT ![c] = t]
  BY <1>1 DEF Returns
<1> HIDE DEF t
<1> QED BY <1>1, <1>2, <1>3 DEF AllTyped, CallsAreNamed

(* A call that recorded something carries it, with the revision it read.    *)
LEMMA AppendsTypes ==
  ASSUME AllTyped, NEW c \in Clients, call[c].q \in Questions, NEW does \in Does \ {"nothing"},
         NEW Q \in SUBSET Questions, NEW subject \in BOOLEAN, NEW told \in Told,
         Appends(c, does, Q, subject, told)
  PROVE  /\ call' \in [Clients -> CallState] /\ CallsAreNamed'
         /\ call'[c].q = call[c].q /\ call'[c].response = call[c].response /\ call'[c].actor = call[c].actor
         /\ call'[c].rev = revision /\ call'[c].does = does /\ call'[c].others = Q /\ call'[c].subject = subject
         /\ \A x \in Clients \ {c} : call'[x] = call[x]
<1> DEFINE t == [Args(c) EXCEPT !.pc = "append", !.rev = revision, !.does = does,
                               !.others = Q, !.subject = subject, !.told = told]
<1>1. call \in [Clients -> CallState] /\ TypeOK /\ revision \in Nat
  BY DEF AllTyped, TypeOK
<1>2. t \in CallState /\ t.q \in Questions /\ t.does # "nothing"
  BY <1>1, CallStates DEF CallState, Told
<1>3. call' = [call EXCEPT ![c] = t]
  BY <1>1 DEF Appends
<1>4. call'[c] = t /\ Args(c) \in CallState
  BY <1>1, <1>3, CallStates
<1>5. /\ t.q = call[c].q /\ t.response = call[c].response /\ t.actor = call[c].actor
       /\ t.rev = revision /\ t.does = does /\ t.others = Q /\ t.subject = subject
  BY <1>4 DEF Args, NoCall, CallState
<1> HIDE DEF t
<1>6. call' \in [Clients -> CallState] /\ CallsAreNamed'
  BY <1>1, <1>2, <1>3 DEF AllTyped, CallsAreNamed
<1>7. \A x \in Clients \ {c} : call'[x] = call[x]
  BY <1>1, <1>3
<1> QED BY <1>4, <1>5, <1>6, <1>7

(* A call that did not change is about to append what it was.               *)
LEMMA FitsKept ==
  ASSUME NEW c \in Clients, Fits(c), call'[c] = call[c], UNCHANGED stream
  PROVE  Fits(c)'
BY DEF Fits, After, MyAnswer, MyApproval, stream

(* Once somebody else has appended, nothing is claimed of it any more.      *)
LEMMA FitsPassed ==
  ASSUME AllTyped, NEW c \in Clients, Fits(c), call'[c] = call[c], revision' = revision + 1
  PROVE  Fits(c)'
<1>1. call[c] \in CallState /\ revision \in Nat
  BY DEF AllTyped, TypeOK
<1>2. call[c].rev \in Nat
  BY <1>1 DEF CallState
<1> QED BY <1>1, <1>2 DEF Fits

-----------------------------------------------------------------------------
(* What the operations may decide to record, in terms of what they read.    *)

MayRecord(c, does, Q, subject) ==
  LET r == Asked(c) IN
  /\ does = "supersede" => \A x \in Q : IsLive(history.of[x])
  /\ does = "request" =>
       r.status \in {"absent", "superseded"} /\ ~(r.subject /\ subject) /\ Q = Others(c)
  /\ does = "claim" => r.status = "pending"
  /\ does \in {"release", "reject", "submit", "approve"} => Owns(c)
  /\ does \in {"submit", "approve"} => call[c].response \in Valid
  /\ does = "submit" => ~r.subject
  /\ does = "approve" => r.subject /\ call[c].actor # None

(* What a submission will be told once its batch is recorded.               *)
Answers(does, told) ==
  \/ does \in {"submit", "approve"} /\ told = "ok"
  \/ does = "reject" /\ told = "refused"

Decides(c) ==
  \E does \in Does \ {"nothing"}, Q \in SUBSET Questions, subject \in BOOLEAN, told \in Told :
    /\ Appends(c, does, Q, subject, told) /\ MayRecord(c, does, Q, subject)
    /\ call[c].op = "submit" => Answers(does, told)

(* What a submission may be told from the record alone.                     *)
MayTell(c, told) ==
  call[c].op = "submit" =>
    /\ told = "ok" => Asked(c).subject /\ Again(c) /\ Asked(c).approval = MyApproval(c)
    /\ told = "refused" =>
         \/ ~Asked(c).subject
         \/ call[c].actor = None \/ call[c].response \notin Valid
         \/ ~Again(c)

ReturnsTruly(c) == \E told \in Told : Returns(c, told) /\ MayTell(c, told)

(* An operation returns at once or records what it may.                     *)
LEMMA OperationsDecide ==
  ASSUME AllTyped, NEW c \in Clients, Apply(c)
  PROVE  /\ call[c].pc = "read" /\ UNCHANGED <<stream, held, spent>>
         /\ ReturnsTruly(c) \/ Decides(c)
<1>1. call[c].q \in Questions \/ call[c].pc = "idle"
  BY DEF AllTyped, CallsAreNamed
<1>2. Others(c) \in SUBSET Questions /\ \A x \in Others(c) : IsLive(history.of[x])
  BY DEF Others
<1>3. {} \in SUBSET Questions /\ FALSE \in BOOLEAN
  OBVIOUS
<1>4. ASSUME NEW does \in Does \ {"nothing"}, NEW told \in Told, Records(c, does, told),
             MayRecord(c, does, {}, FALSE), call[c].op = "submit" => Answers(does, told)
      PROVE  Decides(c)
  BY <1>3, <1>4 DEF Records, Decides
<1>5. CASE Post(c)
  <2> DEFINE subject == call[c].q \in SubjectBacked /\ ~Asked(c).subject
  <2>1. call[c].q \in Questions
    BY <1>1, <1>5 DEF Post, Applies
  <2>2. history.of[call[c].q] \in RequestState
    BY <2>1 DEF AllTyped, TypeOK, History
  <2>3. ASSUME Asked(c).status \in {"absent", "superseded"}, Appends(c, "request", Others(c), subject, "ok")
        PROVE  Decides(c)
    <3>1. subject \in BOOLEAN /\ ~(Asked(c).subject /\ subject)
      BY <2>2 DEF Asked, RequestState
    <3>2. MayRecord(c, "request", Others(c), subject)
      BY <2>3, <3>1 DEF MayRecord
    <3>3. call[c].op # "submit"
      BY <1>5 DEF Post, Applies
    <3> HIDE DEF subject
    <3> QED BY <1>2, <2>3, <3>1, <3>2, <3>3 DEF Decides, Does, Told
  <2>4. ASSUME Appends(c, "supersede", Others(c), FALSE, "ok") PROVE Decides(c)
    <3>1. MayRecord(c, "supersede", Others(c), FALSE)
      BY <1>2 DEF MayRecord
    <3>2. call[c].op # "submit"
      BY <1>5 DEF Post, Applies
    <3> QED BY <1>2, <1>3, <2>4, <3>1, <3>2 DEF Decides, Does, Told
  <2>5. ASSUME Returns(c, "ok") PROVE ReturnsTruly(c)
    BY <1>5, <2>5 DEF Post, Applies, ReturnsTruly, MayTell, Told
  <2> QED BY <1>5, <2>3, <2>4, <2>5 DEF Post, Applies
<1>6. CASE ClaimIt(c)
  <2>1. /\ call[c].pc = "read" /\ UNCHANGED <<stream, held, spent>> /\ call[c].op # "submit"
        /\ \/ Asked(c).status = "pending" /\ Records(c, "claim", "ok")
           \/ Returns(c, "refused")
    BY <1>6 DEF ClaimIt, Applies
  <2>2. Asked(c).status = "pending" => MayRecord(c, "claim", {}, FALSE)
    BY DEF MayRecord
  <2> QED BY <1>4, <2>1, <2>2 DEF ReturnsTruly, MayTell, Does, Told
<1>7. CASE SubmitPlain(c)
  <2>1. /\ call[c].pc = "read" /\ UNCHANGED <<stream, held, spent>> /\ ~Asked(c).subject
        /\ \/ Returns(c, "refused")
           \/ Owns(c) /\ call[c].response \in Valid /\ Records(c, "submit", "ok")
           \/ Owns(c) /\ Records(c, "reject", "refused")
    BY <1>7 DEF SubmitPlain, Applies
  <2>2. Owns(c) => /\ call[c].response \in Valid => MayRecord(c, "submit", {}, FALSE)
                   /\ MayRecord(c, "reject", {}, FALSE)
    BY <2>1 DEF MayRecord
  <2>3. Answers("submit", "ok") /\ Answers("reject", "refused")
    BY DEF Answers
  <2>4. MayTell(c, "refused")
    BY <2>1 DEF MayTell
  <2> QED BY <1>4, <2>1, <2>2, <2>3, <2>4 DEF ReturnsTruly, Does, Told
<1>8. CASE SubmitBacked(c)
  <2>1. call[c].pc = "read" /\ UNCHANGED <<stream, held, spent>> /\ Asked(c).subject
    BY <1>8 DEF SubmitBacked, Applies
  <2>2. CASE call[c].actor = None \/ call[c].response \notin Valid
    <3>1. Returns(c, "refused") /\ MayTell(c, "refused")
      BY <1>8, <2>2 DEF SubmitBacked, MayTell
    <3> QED BY <2>1, <3>1 DEF ReturnsTruly, Told
  <2>3. CASE ~(call[c].actor = None \/ call[c].response \notin Valid)
    <3>1. IF Again(c)
            THEN Returns(c, IF Asked(c).approval = MyApproval(c) THEN "ok" ELSE "threw")
            ELSE IF Owns(c) THEN Records(c, "approve", "ok") ELSE Returns(c, "refused")
      BY <1>8, <2>3 DEF SubmitBacked
    <3>2. CASE Again(c) /\ Asked(c).approval = MyApproval(c)
      <4>1. Returns(c, "ok") /\ MayTell(c, "ok")
        BY <2>1, <3>1, <3>2 DEF MayTell
      <4> QED BY <2>1, <4>1 DEF ReturnsTruly, Told
    <3>3. CASE Again(c) /\ Asked(c).approval # MyApproval(c)
      <4>1. Returns(c, "threw") /\ MayTell(c, "threw")
        BY <3>1, <3>3 DEF MayTell
      <4> QED BY <2>1, <4>1 DEF ReturnsTruly, Told
    <3>4. CASE ~Again(c) /\ Owns(c)
      <4>1. MayRecord(c, "approve", {}, FALSE) /\ Answers("approve", "ok")
        BY <2>1, <2>3, <3>4 DEF MayRecord, Answers
      <4> QED BY <1>4, <2>1, <3>1, <3>4, <4>1 DEF Does, Told
    <3>5. CASE ~Again(c) /\ ~Owns(c)
      <4>1. Returns(c, "refused") /\ MayTell(c, "refused")
        BY <3>1, <3>5 DEF MayTell
      <4> QED BY <2>1, <4>1 DEF ReturnsTruly, Told
    <3> QED BY <3>2, <3>3, <3>4, <3>5
  <2> QED BY <2>2, <2>3
<1>9. CASE Release(c)
  <2>1. /\ call[c].pc = "read" /\ UNCHANGED <<stream, held, spent>> /\ call[c].op # "submit"
        /\ \/ Owns(c) /\ Records(c, "release", "ok")
           \/ Returns(c, "refused")
    BY <1>9 DEF Release, Applies
  <2>2. Owns(c) => MayRecord(c, "release", {}, FALSE)
    BY DEF MayRecord
  <2> QED BY <1>4, <2>1, <2>2 DEF ReturnsTruly, MayTell, Does, Told
<1>10. CASE Supersede(c)
  <2>1. /\ call[c].q \in Questions /\ {call[c].q} \in SUBSET Questions
        /\ call[c].pc = "read" /\ call[c].op # "submit" /\ UNCHANGED <<stream, held, spent>>
    BY <1>1, <1>10 DEF Supersede, Applies
  <2>2. ASSUME IsLive(Asked(c)), Appends(c, "supersede", {call[c].q}, FALSE, "ok") PROVE Decides(c)
    <3>1. MayRecord(c, "supersede", {call[c].q}, FALSE)
      BY <2>2 DEF MayRecord, Asked
    <3> QED BY <1>3, <2>1, <2>2, <3>1 DEF Decides, Does, Told
  <2>3. Returns(c, "ok") => ReturnsTruly(c)
    BY <2>1 DEF ReturnsTruly, MayTell, Told
  <2> QED BY <1>10, <2>1, <2>2, <2>3 DEF Supersede
<1> QED BY <1>5, <1>6, <1>7, <1>8, <1>9, <1>10 DEF Apply

(* What an operation may record leaves the history it read sound.           *)
LEMMA DecidedIsSound ==
  ASSUME AllTyped, Sound(history), NEW c \in Clients, call[c].q \in Questions,
         NEW does \in Does \ {"nothing"}, NEW Q \in SUBSET Questions, NEW subject \in BOOLEAN, NEW told \in Told,
         Appends(c, does, Q, subject, told), MayRecord(c, does, Q, subject), UNCHANGED history
  PROVE  Sound(After(c, history))'
<1> DEFINE q == call[c].q
<1>1. history \in History /\ history' = history /\ call[c] \in CallState /\ revision \in Nat
  BY DEF AllTyped, TypeOK
<1>3. /\ call'[c].q = q /\ call'[c].response = call[c].response /\ call'[c].actor = call[c].actor
      /\ call'[c].rev = revision /\ call'[c].does = does /\ call'[c].others = Q /\ call'[c].subject = subject
  BY AppendsTypes
<1>4. /\ ClaimAt(c, revision + 1) \in Claim /\ MyAnswer(c) \in Answer /\ MyApproval(c) \in Approval
      /\ MyAnswer(c).router = RouterOf[c] /\ MyAnswer(c).response = call[c].response
  BY <1>1, ClientsAreRouters DEF CallState, ClaimAt, MyAnswer, MyApproval, Claim, Answer, Approval
<1>5. MyAnswer(c)' = MyAnswer(c) /\ MyApproval(c)' = MyApproval(c)
  BY <1>3 DEF MyAnswer, MyApproval
<1>6. Owns(c) => history.of[q].status = "claimed" /\ history.of[q].owner.router = RouterOf[c]
  BY DEF Owns, Asked, MyClaim, ClaimAt
<1>7. CASE does = "supersede"
  <2>1. Sound(Superseded(history, Q))
    BY <1>1, <1>7, SupersedingIsSound DEF MayRecord
  <2>2. After(c, history)' = Superseded(history, Q)
    BY <1>1, <1>3, <1>7 DEF After
  <2> QED BY <2>1, <2>2 DEF Sound, OneOpen, ApprovedIsAnswered
<1>8. CASE does = "request"
  <2>1. Q = {x \in Questions \ {q} : GateOf[x] = GateOf[q] /\ IsLive(history.of[x])}
    BY <1>8 DEF MayRecord, Others
  <2>2. Sound(Requested(Superseded(history, Q), q, subject))
    BY <1>1, <1>8, <2>1, RequestIsSound DEF MayRecord, Asked
  <2>3. After(c, history)' = Requested(Superseded(history, Q), q, subject)
    BY <1>1, <1>3, <1>8 DEF After
  <2> QED BY <2>2, <2>3 DEF Sound, OneOpen, ApprovedIsAnswered
<1>9. CASE does = "claim"
  <2>1. Sound(Claimed(history, q, ClaimAt(c, revision + 1)))
    BY <1>1, <1>4, <1>9, OpenEventsAreSound DEF MayRecord, Asked
  <2>2. After(c, history)' = Claimed(history, q, ClaimAt(c, revision + 1))
    BY <1>1, <1>3, <1>9 DEF After, ClaimAt
  <2> QED BY <2>1, <2>2 DEF Sound, OneOpen, ApprovedIsAnswered
<1>10. CASE does \in {"release", "reject"}
  <2>1. Sound(Released(history, q, RouterOf[c])) /\ Sound(Rejected(history, q, RouterOf[c]))
    BY <1>1, <1>6, <1>10, OpenEventsAreSound DEF MayRecord
  <2>2. \/ After(c, history)' = Released(history, q, RouterOf[c])
        \/ After(c, history)' = Rejected(history, q, RouterOf[c])
    BY <1>1, <1>3, <1>10 DEF After
  <2> QED BY <2>1, <2>2 DEF Sound, OneOpen, ApprovedIsAnswered
<1>11. CASE does \in {"submit", "approve"}
  <2>1. /\ Sound(Submitted(history, q, MyAnswer(c)))
        /\ Sound(Approved(Submitted(history, q, MyAnswer(c)), q, MyApproval(c)))
    BY <1>1, <1>4, <1>6, <1>11, OpenEventsAreSound DEF MayRecord
  <2>2. \/ After(c, history)' = Submitted(history, q, MyAnswer(c))
        \/ After(c, history)' = Approved(Submitted(history, q, MyAnswer(c)), q, MyApproval(c))
    BY <1>1, <1>3, <1>5, <1>11 DEF After
  <2> QED BY <2>1, <2>2 DEF Sound, OneOpen, ApprovedIsAnswered
<1> QED BY <1>7, <1>8, <1>9, <1>10, <1>11 DEF Does

-----------------------------------------------------------------------------
(* Every step keeps the types.                                             *)

(* The first state has its types.                                           *)
LEMMA InitTypes == Init => AllTyped
<1> SUFFICES ASSUME Init PROVE AllTyped
  OBVIOUS
<1>1. NoClaim \in Claim /\ NoAnswer \in Answer /\ NoApproval \in Approval
  BY DEF NoClaim, NoAnswer, NoApproval, Claim, Answer, Approval
<1>2. Unasked \in RequestState
  BY <1>1 DEF Unasked, RequestState
<1>3. history \in History
  BY <1>2 DEF Init, NoHistory, History
<1>4. NoCall \in CallState /\ NoCall.pc = "idle"
  BY DEF NoCall, CallState, Ops, Does
<1>5. call \in [Clients -> CallState] /\ CallsAreNamed
  BY <1>4 DEF Init, CallsAreNamed
<1>6. held \in [Clients -> [Questions -> Nat]]
  BY DEF Init, NoTokens
<1> QED BY <1>3, <1>5, <1>6 DEF Init, AllTyped, TypeOK

(* A step of any client keeps them.                                         *)
LEMMA NextTypes == AllTyped /\ [Next]_vars => AllTyped'
<1> SUFFICES ASSUME AllTyped, [Next]_vars PROVE AllTyped'
  OBVIOUS
<1>1. /\ history \in History /\ revision \in Nat /\ call \in [Clients -> CallState]
      /\ held \in [Clients -> [Questions -> Nat]]
      /\ others \in Nat /\ faults \in Nat /\ crashes \in Nat
  BY DEF AllTyped, TypeOK
<1>2. CASE UNCHANGED vars
  BY <1>2, <1>1 DEF vars, stream, spent, AllTyped, TypeOK, CallsAreNamed
<1>3. CASE OtherAppends
  BY <1>3, <1>1 DEF OtherAppends, AllTyped, TypeOK, CallsAreNamed
<1>4. ASSUME NEW c \in Clients, Calls(c) PROVE AllTyped'
  <2>1. PICK q \in Questions, op \in Ops, response \in Responses \cup {None}, actor \in Actors \cup {None} :
          Call(c, op, q, response, actor)
    BY <1>4 DEF Calls, Ops
  <2> DEFINE t == [NoCall EXCEPT !.pc = "read", !.op = op, !.q = q, !.response = response, !.actor = actor]
  <2>2. t \in CallState /\ t.q \in Questions /\ t.pc = "read"
    BY DEF NoCall, CallState, Does
  <2>3. call' = [call EXCEPT ![c] = t] /\ UNCHANGED <<stream, held, spent>>
    BY <2>1 DEF Call
  <2> HIDE DEF t
  <2> QED BY <1>1, <2>2, <2>3 DEF AllTyped, TypeOK, CallsAreNamed, stream, spent
<1>5. ASSUME NEW c \in Clients, Apply(c) PROVE AllTyped'
  <2>1. /\ call[c].q \in Questions /\ UNCHANGED <<stream, held, spent>>
        /\ (\E told \in Told : Returns(c, told)) \/ Decides(c)
    BY <1>5, OperationsDecide DEF ReturnsTruly, AllTyped, CallsAreNamed
  <2>2. call' \in [Clients -> CallState] /\ CallsAreNamed'
    BY <2>1, ReturnsTypes, AppendsTypes DEF Decides
  <2> QED BY <1>1, <2>1, <2>2 DEF AllTyped, TypeOK, stream, spent
<1>6. ASSUME NEW c \in Clients, Commit(c) PROVE AllTyped'
  <2>1. call[c] \in CallState /\ call[c].pc = "append" /\ call[c].told \in Told /\ call[c].q \in Questions
    BY <1>1, <1>6 DEF Commit, CallState, Told, AllTyped, CallsAreNamed
  <2>2. call' \in [Clients -> CallState] /\ CallsAreNamed'
    BY <1>6, <2>1, ReturnsTypes DEF Commit
  <2>3. history' \in History /\ revision' \in Nat
    BY <1>1, <1>6, <2>1, BatchIsHistory DEF Commit, Stores
  <2>4. held' \in [Clients -> [Questions -> Nat]]
    BY <1>1, <1>6, <2>1 DEF Commit
  <2> QED BY <1>1, <1>6, <2>2, <2>3, <2>4 DEF Commit, AllTyped, TypeOK, spent
<1>7. ASSUME NEW c \in Clients, Conflict(c) PROVE AllTyped'
  <2> DEFINE t == [Args(c) EXCEPT !.pc = "read"]
  <2>1. t \in CallState /\ t.q = call[c].q /\ t.pc = "read"
    BY CallStates DEF CallState, AllTyped
  <2>2. call' = [call EXCEPT ![c] = t] /\ UNCHANGED <<stream, held, spent>> /\ call[c].pc = "append"
    BY <1>7 DEF Conflict
  <2> HIDE DEF t
  <2> QED BY <1>1, <2>1, <2>2 DEF AllTyped, TypeOK, CallsAreNamed, stream, spent
<1>8. ASSUME NEW c \in Clients, StorageFails(c) PROVE AllTyped'
  <2>1. call' \in [Clients -> CallState] /\ CallsAreNamed'
    BY <1>8, ReturnsTypes DEF StorageFails, Told
  <2>2. history' \in History /\ revision' \in Nat
    BY <1>1, <1>8, BatchIsHistory DEF StorageFails, Stores, stream
  <2> QED BY <1>1, <1>8, <2>1, <2>2 DEF StorageFails, AllTyped, TypeOK
<1>9. ASSUME NEW c \in Clients, Crash(c) PROVE AllTyped'
  <2>1. NoCall \in CallState /\ NoCall.pc = "idle"
    BY DEF NoCall, CallState, Ops, Does
  <2>2. NoTokens \in [Questions -> Nat]
    BY DEF NoTokens
  <2>3. /\ call' = [call EXCEPT ![c] = NoCall] /\ held' = [held EXCEPT ![c] = NoTokens]
        /\ crashes' = crashes + 1 /\ UNCHANGED <<stream, others, faults>>
    BY <1>9 DEF Crash
  <2> QED BY <1>1, <2>1, <2>2, <2>3 DEF AllTyped, TypeOK, CallsAreNamed, stream
<1>10. CASE Rest
  BY <1>2, <1>10 DEF Rest
<1> QED BY <1>2, <1>3, <1>4, <1>5, <1>6, <1>7, <1>8, <1>9, <1>10 DEF Next

(* Histories, calls and tokens are what the clients take them for, and a    *)
(* call under way always names its question.                               *)
THEOREM CallbacksTyped == Spec => []AllTyped
BY InitTypes, NextTypes, PTL DEF Spec

-----------------------------------------------------------------------------
(* Every step keeps what is about to be appended in line with the history.  *)

(* A step of any client keeps every pending append in line.                 *)
LEMMA NextFits == AllTyped /\ AppendsFit /\ [Next]_vars => AppendsFit'
<1> SUFFICES ASSUME AllTyped, AppendsFit, [Next]_vars PROVE AppendsFit'
  OBVIOUS
<1>1. call \in [Clients -> CallState] /\ revision \in Nat /\ Sound(history) /\ \A x \in Clients : Fits(x)
  BY DEF AllTyped, TypeOK, AppendsFit
<1>2. ASSUME UNCHANGED stream PROVE Sound(history)'
  BY <1>1, <1>2 DEF stream, Sound, OneOpen, ApprovedIsAnswered
<1>3. ASSUME NEW c \in Clients, \A x \in Clients \ {c} : call'[x] = call[x], UNCHANGED stream, Fits(c)'
      PROVE  AppendsFit'
  BY <1>1, <1>2, <1>3, FitsKept DEF AppendsFit
<1>4. ASSUME NEW c \in Clients, call'[c].pc \in {"idle", "read"} PROVE Fits(c)'
  BY <1>4 DEF Fits
<1>5. ASSUME NEW c \in Clients, call[c].pc = "append", Stores(c), call'[c].pc = "idle",
             \A x \in Clients \ {c} : call'[x] = call[x]
      PROVE  AppendsFit'
  <2>1. Sound(After(c, history)) /\ history' = After(c, history) /\ revision' = revision + 1
    BY <1>1, <1>5 DEF Stores, Fits
  <2>2. Sound(history)'
    BY <2>1 DEF Sound, OneOpen, ApprovedIsAnswered
  <2>3. \A x \in Clients \ {c} : Fits(x)'
    BY <1>1, <1>5, <2>1, FitsPassed
  <2> QED BY <1>4, <1>5, <2>2, <2>3 DEF AppendsFit
<1>6. CASE UNCHANGED vars
  BY <1>1, <1>2, <1>6, FitsKept DEF vars, AppendsFit
<1>7. CASE OtherAppends
  <2>1. Sound(history)'
    BY <1>1, <1>7 DEF OtherAppends, Sound, OneOpen, ApprovedIsAnswered
  <2> QED BY <1>1, <1>7, <2>1, FitsPassed DEF OtherAppends, AppendsFit
<1>8. ASSUME NEW c \in Clients, Calls(c) PROVE AppendsFit'
  <2>1. call'[c].pc = "read" /\ (\A x \in Clients \ {c} : call'[x] = call[x]) /\ UNCHANGED stream
    BY <1>1, <1>8 DEF Calls, Call, NoCall
  <2> QED BY <1>3, <1>4, <2>1
<1>9. ASSUME NEW c \in Clients, Apply(c) PROVE AppendsFit'
  <2>1. /\ call[c].q \in Questions /\ UNCHANGED stream
        /\ (\E told \in Told : Returns(c, told)) \/ Decides(c)
    BY <1>9, OperationsDecide DEF ReturnsTruly, stream, AllTyped, CallsAreNamed
  <2>2. ASSUME NEW told \in Told, Returns(c, told) PROVE AppendsFit'
    BY <1>3, <1>4, <2>1, <2>2, ReturnsTypes
  <2>3. ASSUME NEW does \in Does \ {"nothing"}, NEW Q \in SUBSET Questions, NEW subject \in BOOLEAN,
               NEW told \in Told, Appends(c, does, Q, subject, told), MayRecord(c, does, Q, subject)
        PROVE  AppendsFit'
    <3>1. Sound(After(c, history))'
      BY <1>1, <2>1, <2>3, DecidedIsSound DEF stream
    <3>2. call'[c].rev = revision /\ revision' = revision /\ \A x \in Clients \ {c} : call'[x] = call[x]
      BY <2>1, <2>3, AppendsTypes DEF stream
    <3>3. Fits(c)'
      BY <1>1, <3>1, <3>2 DEF Fits
    <3> QED BY <1>3, <2>1, <3>2, <3>3
  <2> QED BY <2>1, <2>2, <2>3 DEF Decides
<1>10. ASSUME NEW c \in Clients, Commit(c) PROVE AppendsFit'
  <2>1. call[c].told \in Told
    BY <1>1 DEF CallState, Told
  <2> QED BY <1>5, <1>10, <2>1, ReturnsTypes DEF Commit
<1>11. ASSUME NEW c \in Clients, Conflict(c) PROVE AppendsFit'
  <2>1. [Args(c) EXCEPT !.pc = "read"].pc = "read"
    BY CallStates DEF AllTyped, CallState
  <2>2. call'[c].pc = "read" /\ (\A x \in Clients \ {c} : call'[x] = call[x]) /\ UNCHANGED stream
    BY <1>1, <1>11, <2>1 DEF Conflict
  <2> QED BY <1>3, <1>4, <2>2
<1>12. ASSUME NEW c \in Clients, StorageFails(c) PROVE AppendsFit'
  <2>1. call[c].pc = "append" /\ call'[c].pc = "idle" /\ \A x \in Clients \ {c} : call'[x] = call[x]
    BY <1>12, ReturnsTypes DEF StorageFails, Told
  <2>2. CASE Stores(c)
    BY <1>5, <2>1, <2>2
  <2>3. CASE UNCHANGED stream
    BY <1>3, <1>4, <2>1, <2>3
  <2> QED BY <1>12, <2>2, <2>3 DEF StorageFails
<1>13. ASSUME NEW c \in Clients, Crash(c) PROVE AppendsFit'
  <2>1. call'[c].pc = "idle" /\ (\A x \in Clients \ {c} : call'[x] = call[x]) /\ UNCHANGED stream
    BY <1>1, <1>13 DEF Crash, NoCall
  <2> QED BY <1>3, <1>4, <2>1
<1>14. CASE Rest
  BY <1>6, <1>14 DEF Rest
<1> QED BY <1>6, <1>7, <1>8, <1>9, <1>10, <1>11, <1>12, <1>13, <1>14 DEF Next

(* Nothing is pending at first.                                             *)
LEMMA InitFits == Init => AppendsFit
<1> SUFFICES ASSUME Init PROVE AppendsFit
  OBVIOUS
<1>1. history.valid /\ \A q \in Questions :
        history.of[q].status = "absent" /\ history.of[q].approval = NoApproval
  BY DEF Init, NoHistory, Unasked
<1>2. Sound(history)
  BY <1>1 DEF Sound, OneOpen, IsLive, ApprovedIsAnswered
<1>3. \A c \in Clients : Fits(c)
  BY DEF Init, Fits, NoCall
<1> QED BY <1>2, <1>3 DEF AppendsFit

(* The inductive invariant holds throughout.                                *)
LEMMA AppendsAlwaysFit == Spec => []AppendsFit
BY CallbacksTyped, InitFits, NextFits, PTL DEF Spec

(* Whatever any number of clients post, claim, answer, release and          *)
(* supersede at the same time, and whatever a storage error hid from them:  *)
(* the history of the questions can always be read again.                   *)
THEOREM HistoryAlwaysReads == Spec => []HistoryReads
<1>1. AppendsFit => HistoryReads
  BY DEF AppendsFit, Sound, HistoryReads
<1> QED BY <1>1, AppendsAlwaysFit, PTL

(* A gate never has two open questions, so a question that was replaced by  *)
(* a newer one cannot be answered.                                          *)
THEOREM GatesHaveOneQuestion == Spec => []OneQuestionPerGate
<1>1. AppendsFit => OneQuestionPerGate
  BY DEF AppendsFit, Sound, OneOpen, OneQuestionPerGate
<1> QED BY <1>1, AppendsAlwaysFit, PTL

-----------------------------------------------------------------------------
(* What an append that commits makes of each question.                     *)

Replaced(r)               == [r EXCEPT !.status = "superseded", !.owner = NoClaim]
Reopened(r, subject)      == [r EXCEPT !.status = "pending", !.owner = NoClaim, !.subject = @ \/ subject]
Taken(r, claim)           == [r EXCEPT !.status = "claimed", !.owner = claim, !.last = claim]
Freed(r)                  == [r EXCEPT !.status = "pending", !.owner = NoClaim]
Closed(r, answer)         == [r EXCEPT !.status = "answered", !.owner = NoClaim, !.answer = answer]
Bound(r, answer, approval) == [Closed(r, answer) EXCEPT !.approval = approval]

(* The question c asked about, by what it was allowed to record.            *)
BecomesAsked(c, s) ==
  LET r == Asked(c) IN
  \/ /\ call[c].does = "request" /\ r.status \in {"absent", "superseded"}
     /\ s = Reopened(r, call[c].subject)
  \/ call[c].does = "claim" /\ r.status = "pending" /\ s = Taken(r, ClaimAt(c, revision + 1))
  \/ call[c].does = "release" /\ Owns(c) /\ s = Freed(r)
  \/ call[c].does = "reject" /\ Owns(c) /\ s = r
  \/ call[c].does = "submit" /\ Owns(c) /\ ~r.subject /\ s = Closed(r, MyAnswer(c))
  \/ /\ call[c].does = "approve" /\ Owns(c) /\ r.subject
     /\ call[c].actor # None /\ call[c].response \in Valid
     /\ s = Bound(r, MyAnswer(c), MyApproval(c))

(* Any other question is left alone or replaced.                            *)
Becomes(c, q, s) ==
  \/ q = call[c].q /\ BecomesAsked(c, s)
  \/ (q # call[c].q \/ call[c].does = "supersede") /\ s = history.of[q]
  \/ /\ q # call[c].q \/ call[c].does = "supersede"
     /\ IsLive(history.of[q]) /\ s = Replaced(history.of[q])

(* A batch that was allowed when it was decided, and commits on the very    *)
(* history it was decided on, does to each question what it was meant to.   *)
LEMMA StoredBecomes ==
  ASSUME AllTyped, Sound(history), NEW c \in Clients, call[c].pc = "append", Stores(c),
         MayRecord(c, call[c].does, call[c].others, call[c].subject), NEW q \in Questions
  PROVE  Becomes(c, q, history'.of[q])
<1> DEFINE d == call[c]
           p == call[c].q
           r == history.of[p]
<1>1. /\ p \in Questions /\ d \in CallState /\ d.does \in Does \ {"nothing"} /\ d.others \in SUBSET Questions
      /\ history \in History /\ r \in RequestState
  BY DEF AllTyped, TypeOK, CallsAreNamed, CallState, History
<1>2. history' = After(c, history) /\ d.rev = revision
  BY DEF Stores
<1>3. Asked(c) = r
  BY DEF Asked
<1>4. ASSUME NEW x \in Questions, NEW Q
      PROVE  /\ x \notin Q => Superseded(history, Q).of[x] = history.of[x]
             /\ \/ Superseded(history, Q).of[x] = history.of[x]
                \/ IsLive(history.of[x]) /\ Superseded(history, Q).of[x] = Replaced(history.of[x])
  BY DEF Superseded, Replaced
<1>5. ASSUME NEW h \in History, NEW allowed, NEW s
      PROVE  /\ q # p => Fold(h, allowed, p, s).of[q] = h.of[q]
             /\ allowed => Fold(h, allowed, p, s).of[p] = s
  BY <1>1 DEF Fold, History
<1>6. CASE d.does = "supersede"
  <2>1. history'.of[q] = Superseded(history, d.others).of[q]
    BY <1>2, <1>6 DEF After
  <2> QED BY <1>4, <1>6, <2>1 DEF Becomes
<1>7. CASE d.does = "request"
  <2> DEFINE g == Superseded(history, d.others)
             s == Reopened(g.of[p], d.subject)
             allowed == g.of[p].status \in {"absent", "superseded"} /\ ~(g.of[p].subject /\ d.subject)
  <2>1. history' = Fold(g, allowed, p, s)
    BY <1>2, <1>7 DEF After, Requested, Reopened
  <2>2. g.of[p] = r /\ g \in History
    BY <1>1, <1>4, <1>7, SupersededIsHistory DEF MayRecord, Others
  <2>3. allowed /\ r.status \in {"absent", "superseded"}
    BY <1>3, <1>7, <2>2 DEF MayRecord
  <2>4. q # p => history'.of[q] = g.of[q]
    <3> HIDE DEF s, allowed, g, p
    <3> QED BY <1>5, <2>1, <2>2
  <2>5. history'.of[p] = s /\ s = Reopened(r, d.subject)
    <3>1. s = Reopened(r, d.subject)
      BY <2>2
    <3> HIDE DEF s, allowed, g
    <3> QED BY <1>5, <2>1, <2>2, <2>3, <3>1
  <2>6. CASE q = p
    BY <1>3, <1>7, <2>3, <2>5, <2>6 DEF Becomes, BecomesAsked
  <2>7. CASE q # p
    BY <1>4, <2>4, <2>7 DEF Becomes
  <2> QED BY <2>6, <2>7
<1>8. CASE d.does \in {"claim", "release", "reject"}
  <2>1. PICK allowed, s : history' = Fold(history, allowed, p, s) /\ allowed /\ BecomesAsked(c, s)
    <3>1. CASE d.does = "claim"
      BY <1>2, <1>3, <1>8, <3>1 DEF After, Claimed, Taken, BecomesAsked, MayRecord
    <3>2. CASE d.does \in {"release", "reject"}
      <4>1. Owns(c) /\ r.status = "claimed" /\ r.owner.router = RouterOf[c]
        BY <1>3, <3>2 DEF MayRecord, Owns, MyClaim, ClaimAt
      <4> QED BY <1>2, <1>3, <3>2, <4>1 DEF After, Released, Rejected, Freed, BecomesAsked
    <3> QED BY <1>8, <3>1, <3>2
  <2>2. /\ q # p => history'.of[q] = history.of[q]
        /\ history'.of[p] = s
    BY <1>1, <1>5, <2>1
  <2> QED BY <2>1, <2>2 DEF Becomes
<1>9. CASE d.does \in {"submit", "approve"}
  <2> DEFINE answer == MyAnswer(c)
             allowed == r.status = "claimed" /\ r.owner.router = answer.router /\ answer.response \in Valid
             g == Submitted(history, p, answer)
  <2>1. Owns(c) /\ allowed /\ d.response \in Valid
    BY <1>3, <1>9 DEF MayRecord, Owns, MyClaim, ClaimAt, MyAnswer
  <2>2. g = Fold(history, allowed, p, Closed(r, answer))
    BY DEF Submitted, Closed
  <2>3. (q # p => g.of[q] = history.of[q]) /\ g.of[p] = Closed(r, answer)
    <3> HIDE DEF allowed, g, answer
    <3> QED BY <1>1, <1>5, <2>1, <2>2
  <2>4. CASE d.does = "submit"
    <3>1. history' = g /\ ~r.subject
      BY <1>2, <1>3, <2>4 DEF After, MayRecord
    <3> QED BY <1>3, <2>1, <2>3, <2>4, <3>1 DEF Becomes, BecomesAsked
  <2>5. CASE d.does = "approve"
    <3> DEFINE t == [g.of[p] EXCEPT !.approval = MyApproval(c)]
    <3>1. history' = Fold(g, g.of[p].approval = NoApproval, p, t) /\ r.subject /\ d.actor # None
      BY <1>2, <1>3, <2>5 DEF After, Approved, MayRecord
    <3>2. MyAnswer(c) \in Answer
      BY <1>1, ClientsAreRouters DEF CallState, MyAnswer, Answer
    <3>3. g \in History
      BY <1>1, <3>2, EventsAreHistories
    <3>4. g.of[p].approval = NoApproval
      <4>1. g.of[p].approval = r.approval
        BY <1>1, <2>3 DEF Closed, RequestState
      <4> QED BY <1>1, <2>1, <4>1 DEF Sound, ApprovedIsAnswered
    <3>5. t = Bound(r, answer, MyApproval(c))
      BY <2>3 DEF Bound
    <3>6. (q # p => history'.of[q] = g.of[q]) /\ history'.of[p] = t
      <4> HIDE DEF t, g
      <4> QED BY <1>5, <3>1, <3>3, <3>4
    <3> HIDE DEF t, g
    <3> QED BY <1>3, <2>1, <2>3, <2>5, <3>1, <3>5, <3>6 DEF Becomes, BecomesAsked
  <2> QED BY <1>9, <2>4, <2>5
<1> QED BY <1>1, <1>6, <1>7, <1>8, <1>9 DEF Does

-----------------------------------------------------------------------------
(* Claims and answers.                                                     *)

(* A claim on record is the last one made; an approval stands with its      *)
(* answer, of a question that has a subject; tokens are revisions.          *)
RecordFits(r, n) ==
  /\ r.status = "claimed" => r.owner = r.last /\ r.last.token # 0
  /\ r.status # "claimed" => r.owner = NoClaim
  /\ r.last.token <= n
  /\ r.approval # NoApproval =>
       /\ r.subject /\ r.approval.actor # None /\ r.approval.response \in Valid
       /\ r.answer = [router |-> r.approval.router, response |-> r.approval.response]

RecordsFit == \A q \in Questions : RecordFits(history.of[q], revision)

(* No two clients hold the same token of a question.                        *)
TokensDiffer ==
  \A c \in Clients, q \in Questions :
    /\ held[c][q] <= revision
    /\ \A d \in Clients \ {c} : held[c][q] = held[d][q] => held[c][q] = 0

(* As long as nobody else has appended, an operation may still record what  *)
(* it decided, and its caller will be told so.                              *)
Stands(c) ==
  /\ call[c].op = "submit" => call[c].q \in Questions
  /\ call[c].pc = "append" =>
       /\ call[c].rev <= revision
       /\ call[c].op = "submit" => Answers(call[c].does, call[c].told)
       /\ call[c].rev = revision => MayRecord(c, call[c].does, call[c].others, call[c].subject)

(* What the caller of a submission was told, in terms of the record.        *)
ToldTruly(c) ==
  LET r == Asked(c) IN
  call[c].pc = "idle" /\ call[c].op = "submit" =>
    /\ call[c].told = "ok" =>
         /\ r.status = "answered" /\ r.answer = MyAnswer(c) /\ r.last = MyClaim(c)
         /\ r.subject => r.approval = MyApproval(c)
    /\ call[c].told = "refused" => ~(r.last = MyClaim(c) /\ r.approval = MyApproval(c))

ClaimsHold == RecordsFit /\ TokensDiffer /\ \A c \in Clients : Stands(c) /\ ToldTruly(c)

(* The records are what their names say.                                    *)
LEMMA RecordFields ==
  ASSUME NEW r \in RequestState
  PROVE  /\ NoClaim \in Claim /\ NoClaim.token = 0
         /\ /\ Replaced(r).status = "superseded" /\ Replaced(r).owner = NoClaim
            /\ Replaced(r).last = r.last /\ Replaced(r).approval = r.approval
            /\ Replaced(r).subject = r.subject /\ Replaced(r).answer = r.answer
         /\ \A subject :
              /\ Reopened(r, subject).status = "pending" /\ Reopened(r, subject).owner = NoClaim
              /\ Reopened(r, subject).last = r.last /\ Reopened(r, subject).approval = r.approval
              /\ Reopened(r, subject).subject = (r.subject \/ subject) /\ Reopened(r, subject).answer = r.answer
         /\ \A claim :
              /\ Taken(r, claim).status = "claimed" /\ Taken(r, claim).owner = claim
              /\ Taken(r, claim).last = claim /\ Taken(r, claim).approval = r.approval
              /\ Taken(r, claim).subject = r.subject /\ Taken(r, claim).answer = r.answer
         /\ /\ Freed(r).status = "pending" /\ Freed(r).owner = NoClaim
            /\ Freed(r).last = r.last /\ Freed(r).approval = r.approval
            /\ Freed(r).subject = r.subject /\ Freed(r).answer = r.answer
         /\ \A answer :
              /\ Closed(r, answer).status = "answered" /\ Closed(r, answer).owner = NoClaim
              /\ Closed(r, answer).last = r.last /\ Closed(r, answer).approval = r.approval
              /\ Closed(r, answer).subject = r.subject /\ Closed(r, answer).answer = answer
         /\ \A answer, approval :
              /\ Bound(r, answer, approval).status = "answered" /\ Bound(r, answer, approval).owner = NoClaim
              /\ Bound(r, answer, approval).last = r.last /\ Bound(r, answer, approval).approval = approval
              /\ Bound(r, answer, approval).subject = r.subject /\ Bound(r, answer, approval).answer = answer
<1>1. NoClaim \in Claim /\ NoClaim.token = 0
  BY DEF NoClaim, Claim
<1> QED BY <1>1 DEF RequestState, Replaced, Reopened, Taken, Freed, Closed, Bound

(* An approval names its router, so it is one.                              *)
LEMMA ApprovalIsSome ==
  ASSUME NEW c \in Clients
  PROVE  /\ MyApproval(c) # NoApproval
         /\ MyApproval(c).router = RouterOf[c] /\ MyApproval(c).response = call[c].response
         /\ MyApproval(c).actor = call[c].actor
         /\ MyAnswer(c) = [router |-> MyApproval(c).router, response |-> MyApproval(c).response]
<1>1. RouterOf[c] \in Routers /\ RouterOf[c] # None
  BY ClientsAreRouters, NoneIsNothing
<1>2. MyApproval(c).router = RouterOf[c] /\ NoApproval.router = None
  BY DEF MyApproval, NoApproval
<1> QED BY <1>1, <1>2 DEF MyApproval, MyAnswer

(* The fit of a record depends on its fields alone.                         *)
LEMMA FitKept ==
  ASSUME NEW r, NEW s, NEW n \in Nat, r.last.token \in Nat, RecordFits(r, n),
         s.last = r.last, s.approval = r.approval, s.answer = r.answer,
         r.subject => s.subject, s.status # "claimed", s.owner = NoClaim
  PROVE  RecordFits(s, n + 1)
BY DEF RecordFits

(* A batch that commits leaves records that fit.                            *)
LEMMA StoredFit ==
  ASSUME AllTyped, Sound(history), RecordsFit, NEW c \in Clients, NEW q \in Questions, NEW s, Becomes(c, q, s),
         call[c].q \in Questions
  PROVE  RecordFits(s, revision + 1)
<1> DEFINE r == history.of[q]
<1>1. /\ r \in RequestState /\ r.last.token \in Nat /\ revision \in Nat /\ r.subject \in BOOLEAN
      /\ RecordFits(r, revision)
  BY DEF AllTyped, TypeOK, History, RequestState, Claim, RecordsFit
<1>2. r.approval # NoApproval => r.status = "answered"
  BY DEF Sound, ApprovedIsAnswered
<1>3. CASE s = r
  <2> HIDE DEF r
  <2> QED BY <1>1, <1>3 DEF RecordFits
<1>4. CASE s = Replaced(r)
  <2> HIDE DEF r
  <2>1. s.status # "claimed"
    BY <1>1, <1>4, RecordFields
  <2> QED BY <1>1, <1>4, <2>1, RecordFields, FitKept
<1>5. CASE q = call[c].q /\ BecomesAsked(c, s)
  <2>1. Asked(c) = r
    BY <1>5 DEF Asked
  <2>2. ClaimAt(c, revision + 1).token = revision + 1
    BY DEF ClaimAt
  <2>3. CASE \E subject : s = Reopened(r, subject)
    <3> HIDE DEF r
    <3>1. s.status # "claimed"
      BY <1>1, <2>3, RecordFields
    <3> QED BY <1>1, <2>3, <3>1, RecordFields, FitKept
  <2>4. CASE r.status = "pending" /\ s = Taken(r, ClaimAt(c, revision + 1))
    <3> HIDE DEF r
    <3>1. /\ s.status = "claimed" /\ s.owner = s.last /\ s.last.token = revision + 1
          /\ s.approval = NoApproval
      BY <1>1, <1>2, <2>2, <2>4, RecordFields
    <3> QED BY <1>1, <3>1 DEF RecordFits
  <2>5. CASE s = Freed(r)
    <3> HIDE DEF r
    <3>1. s.status # "claimed"
      BY <1>1, <2>5, RecordFields
    <3> QED BY <1>1, <2>5, <3>1, RecordFields, FitKept
  <2>6. CASE s = Closed(r, MyAnswer(c)) /\ Owns(c)
    <3>1. r.status = "claimed"
      BY <2>1, <2>6 DEF Owns
    <3> HIDE DEF r
    <3>2. /\ s.status # "claimed" /\ s.owner = NoClaim /\ s.approval = NoApproval
          /\ s.last = r.last
      BY <1>1, <1>2, <2>6, <3>1, RecordFields
    <3> QED BY <1>1, <3>2 DEF RecordFits
  <2>7. CASE /\ Owns(c) /\ r.subject /\ call[c].actor # None /\ call[c].response \in Valid
             /\ s = Bound(r, MyAnswer(c), MyApproval(c))
    <3> HIDE DEF r
    <3>1. /\ s.status # "claimed" /\ s.owner = NoClaim /\ s.last = r.last /\ s.subject
          /\ s.approval = MyApproval(c) /\ s.answer = MyAnswer(c)
      BY <1>1, <2>7, RecordFields
    <3> QED BY <1>1, <2>7, <3>1, ApprovalIsSome DEF RecordFits
  <2> QED BY <1>3, <1>5, <2>1, <2>3, <2>4, <2>5, <2>6, <2>7 DEF BecomesAsked
<1> QED BY <1>3, <1>4, <1>5 DEF Becomes

(* What is answered is answered for good.                                   *)
LEMMA AnsweredStay ==
  ASSUME NEW c \in Clients, NEW q \in Questions, NEW s, Becomes(c, q, s), history.of[q].status = "answered"
  PROVE  s = history.of[q]
BY DEF Becomes, BecomesAsked, Asked, IsLive, Owns

(* Nobody else makes a claim or an approval under the token of a client.    *)
LEMMA OthersClaim ==
  ASSUME AllTyped, RecordsFit, TokensDiffer, NEW c \in Clients, NEW q \in Questions, NEW s, Becomes(c, q, s),
         NEW x \in Clients \ {c}, NEW approval, approval # NoApproval,
         ~(history.of[q].last = ClaimAt(x, held[x][q]) /\ history.of[q].approval = approval)
  PROVE  ~(s.last = ClaimAt(x, held[x][q]) /\ s.approval = approval)
<1> DEFINE r == history.of[q]
           mine == ClaimAt(x, held[x][q])
<1>1. /\ r \in RequestState /\ revision \in Nat /\ RecordFits(r, revision)
      /\ held[x][q] \in Nat /\ held[x][q] <= revision /\ held[c][q] \in Nat
      /\ held[c][q] = held[x][q] => held[c][q] = 0
  BY DEF AllTyped, TypeOK, History, RecordsFit, TokensDiffer
<1>2. mine.token = held[x][q]
  BY DEF ClaimAt
<1>3. CASE s.last = r.last /\ s.approval = r.approval
  BY <1>3
<1>4. CASE s.last = ClaimAt(c, revision + 1)
  BY <1>1, <1>2, <1>4 DEF ClaimAt
<1>5. CASE q = call[c].q /\ Owns(c) /\ s.last = r.last
  <2>1. r.status = "claimed" /\ r.last = ClaimAt(c, held[c][q]) /\ r.last.token # 0
    BY <1>1, <1>5 DEF Owns, Asked, MyClaim, RecordFits
  <2>2. r.last.token = held[c][q]
    BY <2>1 DEF ClaimAt
  <2> QED BY <1>1, <1>2, <1>5, <2>1, <2>2
<1>6. CASE s = r \/ s = Replaced(r)
  <2> HIDE DEF r
  <2> QED BY <1>1, <1>3, <1>6, RecordFields
<1>7. CASE q = call[c].q /\ BecomesAsked(c, s)
  <2>1. Asked(c) = r
    BY <1>7 DEF Asked
  <2>2. \/ s = r
        \/ \E subject : s = Reopened(r, subject)
        \/ s = Taken(r, ClaimAt(c, revision + 1))
        \/ s = Freed(r)
        \/ Owns(c) /\ s = Closed(r, MyAnswer(c))
        \/ Owns(c) /\ s = Bound(r, MyAnswer(c), MyApproval(c))
    BY <1>7, <2>1 DEF BecomesAsked
  <2> HIDE DEF r
  <2>3. \/ s.last = r.last /\ s.approval = r.approval
        \/ s.last = ClaimAt(c, revision + 1)
        \/ Owns(c) /\ s.last = r.last
    BY <1>1, <2>2, RecordFields
  <2> QED BY <1>3, <1>4, <1>5, <1>7, <2>3
<1> QED BY <1>6, <1>7 DEF Becomes

(* A call that returns keeps its arguments if it was a submission, and is   *)
(* forgotten otherwise.                                                     *)
LEMMA ReturnsTells ==
  ASSUME TypeOK, NEW c \in Clients, NEW told \in Told, Returns(c, told)
  PROVE  /\ call'[c].op = "submit" =>
              /\ call[c].op = "submit" /\ call'[c].told = told
              /\ call'[c].q = call[c].q /\ call'[c].response = call[c].response /\ call'[c].actor = call[c].actor
         /\ call'[c].pc = "idle"
<1> DEFINE t == IF call[c].op = "submit" THEN [Args(c) EXCEPT !.told = told] ELSE NoCall
<1>1. call'[c] = t
  BY DEF TypeOK, Returns
<1>2. NoCall.op = "none" /\ NoCall.pc = "idle"
  BY DEF NoCall
<1>3. Args(c) \in CallState /\ Args(c).pc = "idle"
  BY CallStates
<1>4. /\ Args(c).q = call[c].q /\ Args(c).response = call[c].response /\ Args(c).actor = call[c].actor
  BY DEF Args, NoCall
<1>5. CASE call[c].op = "submit"
  <2> DEFINE u == [Args(c) EXCEPT !.told = told]
  <2>1. /\ u.told = told /\ u.q = Args(c).q /\ u.response = Args(c).response
        /\ u.actor = Args(c).actor /\ u.pc = "idle"
    BY <1>3 DEF CallState
  <2>2. call'[c] = u
    BY <1>1, <1>5
  <2> HIDE DEF u
  <2> QED BY <1>4, <1>5, <2>1, <2>2
<1>6. CASE call[c].op # "submit"
  <2>1. call'[c] = NoCall
    BY <1>1, <1>6
  <2> QED BY <1>2, <2>1
<1> QED BY <1>5, <1>6

(* A client that does nothing while nothing is stored was told the truth.   *)
LEMMA StandsKept ==
  ASSUME NEW c \in Clients, Stands(c), ToldTruly(c), call'[c] = call[c],
         held'[c] = held[c], UNCHANGED stream
  PROVE  Stands(c)' /\ ToldTruly(c)'
<1>1. history' = history /\ revision' = revision
  BY DEF stream
<1>2. Asked(c)' = Asked(c) /\ MyClaim(c)' = MyClaim(c) /\ MyAnswer(c)' = MyAnswer(c)
      /\ MyApproval(c)' = MyApproval(c) /\ Others(c)' = Others(c)
  BY <1>1 DEF Asked, MyClaim, MyAnswer, MyApproval, Others
<1>3. Owns(c)' = Owns(c)
  BY <1>2 DEF Owns
<1>4. Stands(c)'
  BY <1>1, <1>2, <1>3 DEF Stands, MayRecord
<1> QED BY <1>2, <1>4 DEF ToldTruly

(* Nor does what another client stores change what it was told.             *)
LEMMA ToldKept ==
  ASSUME AllTyped, RecordsFit, TokensDiffer, NEW c \in Clients, NEW x \in Clients \ {c}, Stands(x), ToldTruly(x),
         call'[x] = call[x], held'[x] = held[x], revision' = revision + 1,
         \A q \in Questions : Becomes(c, q, history'.of[q])
  PROVE  Stands(x)' /\ ToldTruly(x)'
<1>1. Stands(x)'
  <2>1. call[x].rev \in Nat /\ revision \in Nat
    BY DEF AllTyped, TypeOK, CallState
  <2>2. call[x].pc = "append" => call[x].rev <= revision /\ call[x].rev # revision + 1
    BY <2>1 DEF Stands
  <2> QED BY <2>1, <2>2 DEF Stands
<1>2. MyAnswer(x)' = MyAnswer(x) /\ MyApproval(x)' = MyApproval(x) /\ MyClaim(x)' = MyClaim(x)
  BY DEF MyAnswer, MyApproval, MyClaim
<1>3. ASSUME call[x].pc = "idle", call[x].op = "submit", call[x].told = "ok"
      PROVE  Asked(x)' = Asked(x)
  <2>1. call[x].q \in Questions /\ history.of[call[x].q].status = "answered"
    BY <1>3 DEF Stands, ToldTruly, Asked
  <2> QED BY <2>1, AnsweredStay DEF Asked
<1>4. ASSUME call[x].pc = "idle", call[x].op = "submit", call[x].told = "refused"
      PROVE  ~(Asked(x)'.last = MyClaim(x) /\ Asked(x)'.approval = MyApproval(x))
  <2>1. call[x].q \in Questions /\ ~(history.of[call[x].q].last = ClaimAt(x, held[x][call[x].q])
                                     /\ history.of[call[x].q].approval = MyApproval(x))
    BY <1>4 DEF Stands, ToldTruly, Asked, MyClaim
  <2>2. MyApproval(x) # NoApproval
    BY ApprovalIsSome
  <2>3. Becomes(c, call[x].q, history'.of[call[x].q])
    BY <2>1
  <2>4. ~(history'.of[call[x].q].last = ClaimAt(x, held[x][call[x].q])
          /\ history'.of[call[x].q].approval = MyApproval(x))
    BY <2>1, <2>2, <2>3, OthersClaim
  <2> QED BY <2>4 DEF Asked, MyClaim
<1>5. ToldTruly(x)'
  BY <1>2, <1>3, <1>4 DEF ToldTruly
<1> QED BY <1>1, <1>5

(* What a submission is told from the record alone is true.                 *)
LEMMA TellsTruly ==
  ASSUME AllTyped, Sound(history), RecordsFit, NEW c \in Clients, call[c].q \in Questions,
         NEW told \in Told, Returns(c, told), MayTell(c, told), UNCHANGED <<stream, held, spent>>
  PROVE  Stands(c)' /\ ToldTruly(c)'
<1> DEFINE r == Asked(c)
<1>1. TypeOK /\ history' = history /\ held' = held /\ r \in RequestState /\ RecordFits(r, revision)
  BY DEF AllTyped, TypeOK, stream, History, Asked, RecordsFit
<1>2. /\ call'[c].op = "submit" =>
           /\ call[c].op = "submit" /\ call'[c].told = told
           /\ call'[c].q = call[c].q /\ call'[c].response = call[c].response /\ call'[c].actor = call[c].actor
      /\ call'[c].pc = "idle"
  BY <1>1, ReturnsTells
<1>3. Stands(c)'
  BY <1>2 DEF Stands
<1> SUFFICES ASSUME call'[c].op = "submit" PROVE ToldTruly(c)'
  BY <1>3 DEF ToldTruly
<1>4. /\ Asked(c)' = r /\ MyAnswer(c)' = MyAnswer(c) /\ MyApproval(c)' = MyApproval(c)
      /\ MyClaim(c)' = MyClaim(c)
  BY <1>1, <1>2 DEF Asked, MyAnswer, MyApproval, MyClaim
<1>5. /\ r.approval # NoApproval =>
           /\ r.subject /\ r.approval.actor # None /\ r.approval.response \in Valid
           /\ r.answer = [router |-> r.approval.router, response |-> r.approval.response]
      /\ r.approval # NoApproval => r.status = "answered"
  BY <1>1 DEF RecordFits, Asked, Sound, ApprovedIsAnswered
<1>6. told = "ok" => r.status = "answered" /\ r.answer = MyAnswer(c) /\ r.last = MyClaim(c) /\ r.approval = MyApproval(c)
  BY <1>2, <1>5, ApprovalIsSome DEF MayTell, Again
<1>7. told = "refused" => ~(r.last = MyClaim(c) /\ r.approval = MyApproval(c))
  BY <1>2, <1>5, ApprovalIsSome DEF MayTell, Again
<1> QED BY <1>2, <1>4, <1>6, <1>7 DEF ToldTruly

(* So is what it is told once its batch is recorded.                        *)
LEMMA CommitTellsTruly ==
  ASSUME AllTyped, Sound(history), RecordsFit, NEW c \in Clients, call[c].q \in Questions, call[c].pc = "append",
         NEW told \in Told, Returns(c, told), call[c].op = "submit" => told = "threw" \/ Answers(call[c].does, told),
         Becomes(c, call[c].q, history'.of[call[c].q]), call[c].op = "submit" => held'[c] = held[c]
  PROVE  Stands(c)' /\ ToldTruly(c)'
<1> DEFINE q == call[c].q
           r == history.of[q]
           s == history'.of[q]
<1>1. TypeOK /\ r \in RequestState /\ RecordFits(r, revision) /\ Asked(c) = r
  BY DEF AllTyped, TypeOK, History, Asked, RecordsFit
<1>2. /\ call'[c].op = "submit" =>
           /\ call[c].op = "submit" /\ call'[c].told = told
           /\ call'[c].q = q /\ call'[c].response = call[c].response /\ call'[c].actor = call[c].actor
      /\ call'[c].pc = "idle"
  BY <1>1, ReturnsTells
<1>3. Stands(c)'
  BY <1>2 DEF Stands
<1> SUFFICES ASSUME call'[c].op = "submit" PROVE ToldTruly(c)'
  BY <1>3 DEF ToldTruly
<1>4. held'[c] = held[c]
  BY <1>2
<1>5. /\ Asked(c)' = s /\ MyAnswer(c)' = MyAnswer(c) /\ MyApproval(c)' = MyApproval(c)
      /\ MyClaim(c)' = MyClaim(c)
  BY <1>2, <1>4 DEF Asked, MyAnswer, MyApproval, MyClaim
<1>6. r.status = "claimed" => r.approval = NoApproval /\ r.owner = r.last
  BY <1>1 DEF RecordFits, Sound, ApprovedIsAnswered
<1>7. Owns(c) => r.status = "claimed" /\ r.owner = MyClaim(c) /\ r.last = MyClaim(c) /\ r.approval = NoApproval
  BY <1>1, <1>6 DEF Owns
<1>8. ASSUME told = "ok"
      PROVE  /\ s.status = "answered" /\ s.answer = MyAnswer(c) /\ s.last = MyClaim(c)
             /\ s.subject => s.approval = MyApproval(c)
  <2>1. call[c].does \in {"submit", "approve"}
    BY <1>2, <1>8 DEF Answers
  <2>2. \/ Owns(c) /\ ~r.subject /\ s = Closed(r, MyAnswer(c))
        \/ Owns(c) /\ r.subject /\ s = Bound(r, MyAnswer(c), MyApproval(c))
    BY <1>1, <2>1 DEF Becomes, BecomesAsked
  <2> HIDE DEF r, s
  <2> QED BY <1>1, <1>7, <2>2, RecordFields
<1>9. ASSUME told = "refused" PROVE ~(s.last = MyClaim(c) /\ s.approval = MyApproval(c))
  <2>1. call[c].does = "reject"
    BY <1>2, <1>9 DEF Answers
  <2>2. Owns(c) /\ s = r
    BY <1>1, <2>1 DEF Becomes, BecomesAsked
  <2> QED BY <1>7, <2>2, ApprovalIsSome
<1> QED BY <1>2, <1>5, <1>8, <1>9 DEF ToldTruly

(* Tokens stay apart when one of them is new.                               *)
LEMMA TokensKept ==
  ASSUME AllTyped, TokensDiffer, NEW c \in Clients, revision' = revision + 1,
         \/ held' = held
         \/ call[c].q \in Questions /\ held' = [held EXCEPT ![c][call[c].q] = revision + 1]
  PROVE  TokensDiffer'
<1>1. revision \in Nat /\ held \in [Clients -> [Questions -> Nat]]
  BY DEF AllTyped, TypeOK
<1>2. CASE held' = held
  BY <1>1, <1>2 DEF TokensDiffer
<1>3. CASE call[c].q \in Questions /\ held' = [held EXCEPT ![c][call[c].q] = revision + 1]
  <2>1. \A x \in Clients, q \in Questions :
          held'[x][q] = IF x = c /\ q = call[c].q THEN revision + 1 ELSE held[x][q]
    BY <1>1, <1>3
  <2>2. \A x \in Clients, q \in Questions : held[x][q] \in Nat /\ held[x][q] <= revision
    BY <1>1 DEF TokensDiffer
  <2> QED BY <1>1, <2>1, <2>2 DEF TokensDiffer
<1> QED BY <1>2, <1>3

(* At first nobody holds a claim and nothing is pending.                    *)
LEMMA InitClaims == Init => ClaimsHold
<1> SUFFICES ASSUME Init PROVE ClaimsHold
  OBVIOUS
<1>1. NoClaim.token = 0
  BY DEF NoClaim
<1>2. \A q \in Questions :
        /\ history.of[q].status = "absent" /\ history.of[q].owner = NoClaim /\ history.of[q].last = NoClaim
        /\ history.of[q].approval = NoApproval
  BY DEF Init, NoHistory, Unasked
<1>3. RecordsFit
  BY <1>1, <1>2 DEF Init, RecordsFit, RecordFits
<1>4. TokensDiffer
  BY DEF Init, NoTokens, TokensDiffer
<1>5. \A c \in Clients : call[c].pc = "idle" /\ call[c].op = "none"
  BY DEF Init, NoCall
<1> QED BY <1>3, <1>4, <1>5 DEF ClaimsHold, Stands, ToldTruly

(* Every step keeps claims, tokens and answers together.                    *)
LEMMA NextClaims == AllTyped /\ AppendsFit /\ ClaimsHold /\ [Next]_vars => ClaimsHold'
<1> SUFFICES ASSUME AllTyped, AppendsFit, ClaimsHold, [Next]_vars PROVE ClaimsHold'
  OBVIOUS
<1>1. /\ call \in [Clients -> CallState] /\ held \in [Clients -> [Questions -> Nat]] /\ revision \in Nat
      /\ TypeOK /\ Sound(history) /\ RecordsFit /\ TokensDiffer
      /\ \A c \in Clients : Stands(c) /\ ToldTruly(c)
  BY DEF AllTyped, TypeOK, AppendsFit, ClaimsHold
<1>2. ASSUME UNCHANGED stream PROVE RecordsFit'
  BY <1>1, <1>2 DEF stream, RecordsFit
<1>3. ASSUME UNCHANGED <<stream, held>> PROVE TokensDiffer'
  BY <1>1, <1>3 DEF stream, TokensDiffer
<1>4. ASSUME NEW c \in Clients, \A x \in Clients \ {c} : call'[x] = call[x], UNCHANGED <<stream, held>>,
             Stands(c)' /\ ToldTruly(c)'
      PROVE  ClaimsHold'
  <2>1. \A x \in Clients \ {c} : Stands(x)' /\ ToldTruly(x)'
    BY <1>1, <1>4, StandsKept
  <2> QED BY <1>2, <1>3, <1>4, <2>1 DEF ClaimsHold
<1>5. ASSUME NEW c \in Clients, call[c].pc = "append", Stores(c), NEW told \in Told, Returns(c, told),
             call[c].op = "submit" => told = "threw" \/ Answers(call[c].does, told),
             \/ held' = held
             \/ call[c].does = "claim" /\ held' = [held EXCEPT ![c][call[c].q] = revision + 1]
      PROVE  ClaimsHold'
  <2>1. /\ call[c].q \in Questions /\ MayRecord(c, call[c].does, call[c].others, call[c].subject)
        /\ revision' = revision + 1
        /\ call[c].op = "submit" => Answers(call[c].does, call[c].told)
    BY <1>1, <1>5 DEF Stores, Stands, AllTyped, CallsAreNamed
  <2>2. \A q \in Questions : Becomes(c, q, history'.of[q])
    BY <1>1, <1>5, <2>1, StoredBecomes
  <2>3. RecordsFit'
    BY <1>1, <2>1, <2>2, StoredFit DEF RecordsFit
  <2>4. TokensDiffer'
    BY <1>1, <1>5, <2>1, TokensKept
  <2>5. call[c].op = "submit" => held'[c] = held[c]
    BY <1>5, <2>1 DEF Answers
  <2>6. Stands(c)' /\ ToldTruly(c)'
    BY <1>1, <1>5, <2>1, <2>2, <2>5, CommitTellsTruly
  <2>7. \A x \in Clients \ {c} : call'[x] = call[x] /\ held'[x] = held[x]
    BY <1>1, <1>5, ReturnsTypes
  <2>8. ASSUME NEW x \in Clients \ {c} PROVE Stands(x)' /\ ToldTruly(x)'
    BY <1>1, <2>1, <2>2, <2>7, ToldKept
  <2> QED BY <2>3, <2>4, <2>6, <2>8 DEF ClaimsHold
<1>6. CASE UNCHANGED vars
  <2>1. UNCHANGED <<stream, held, call>>
    BY <1>6 DEF vars
  <2> QED BY <1>1, <1>2, <1>3, <2>1, StandsKept DEF ClaimsHold
<1>7. CASE OtherAppends
  <2>1. history' = history /\ call' = call /\ held' = held /\ revision' = revision + 1
    BY <1>7 DEF OtherAppends
  <2>2. RecordsFit'
    <3> SUFFICES ASSUME NEW q \in Questions PROVE RecordFits(history.of[q], revision + 1)
      BY <2>1 DEF RecordsFit
    <3>1. history.of[q].last.token \in Nat /\ RecordFits(history.of[q], revision)
      BY <1>1 DEF TypeOK, History, RequestState, Claim, RecordsFit
    <3> QED BY <1>1, <3>1 DEF RecordFits
  <2>3. TokensDiffer'
    BY <1>1, <2>1 DEF TokensDiffer
  <2>4. ASSUME NEW c \in Clients PROVE Stands(c)' /\ ToldTruly(c)'
    <3>1. call[c].rev \in Nat
      BY <1>1 DEF CallState
    <3>2. Stands(c)'
      BY <1>1, <2>1, <3>1 DEF Stands
    <3>3. ToldTruly(c)'
      BY <1>1, <2>1 DEF ToldTruly, Asked, MyAnswer, MyApproval, MyClaim
    <3> QED BY <3>2, <3>3
  <2> QED BY <2>2, <2>3, <2>4 DEF ClaimsHold
<1>8. ASSUME NEW c \in Clients, Calls(c) PROVE ClaimsHold'
  <2>1. PICK q \in Questions : \E op, response, actor : Call(c, op, q, response, actor)
    BY <1>8 DEF Calls
  <2>2. /\ call'[c].pc = "read" /\ call'[c].q = q /\ (\A x \in Clients \ {c} : call'[x] = call[x])
        /\ UNCHANGED <<stream, held>>
    BY <1>1, <2>1 DEF Call, NoCall
  <2>3. Stands(c)' /\ ToldTruly(c)'
    BY <2>2 DEF Stands, ToldTruly
  <2> QED BY <1>4, <2>2, <2>3
<1>9. ASSUME NEW c \in Clients, Apply(c) PROVE ClaimsHold'
  <2>1. /\ call[c].q \in Questions /\ UNCHANGED <<stream, held, spent>> /\ UNCHANGED <<stream, held>>
        /\ ReturnsTruly(c) \/ Decides(c)
    BY <1>9, OperationsDecide DEF AllTyped, CallsAreNamed
  <2>2. ASSUME NEW told \in Told, Returns(c, told), MayTell(c, told) PROVE ClaimsHold'
    <3>1. Stands(c)' /\ ToldTruly(c)'
      BY <1>1, <2>1, <2>2, TellsTruly
    <3>2. \A x \in Clients \ {c} : call'[x] = call[x]
      BY <2>2, ReturnsTypes
    <3> QED BY <1>4, <2>1, <3>1, <3>2
  <2>3. ASSUME NEW does \in Does \ {"nothing"}, NEW Q \in SUBSET Questions, NEW subject \in BOOLEAN,
               NEW told \in Told, Appends(c, does, Q, subject, told), MayRecord(c, does, Q, subject),
               call[c].op = "submit" => Answers(does, told)
        PROVE  ClaimsHold'
    <3>1. /\ call'[c].q = call[c].q /\ call'[c].response = call[c].response /\ call'[c].actor = call[c].actor
          /\ call'[c].rev = revision /\ call'[c].does = does /\ call'[c].others = Q /\ call'[c].subject = subject
          /\ \A x \in Clients \ {c} : call'[x] = call[x]
      BY <2>1, <2>3, AppendsTypes
    <3>2. call'[c].pc = "append" /\ call'[c].told = told /\ call'[c].op = call[c].op
      <4> DEFINE t == [Args(c) EXCEPT !.pc = "append", !.rev = revision, !.does = does,
                                     !.others = Q, !.subject = subject, !.told = told]
      <4>1. call'[c] = t
        BY <1>1, <2>3 DEF Appends
      <4>2. Args(c) \in CallState /\ Args(c).op = call[c].op
        BY <1>1, CallStates DEF Args, NoCall
      <4>3. t.pc = "append" /\ t.told = told /\ t.op = call[c].op
        BY <4>2 DEF CallState
      <4> HIDE DEF t
      <4> QED BY <4>1, <4>3
    <3>3. history' = history /\ held' = held /\ revision' = revision
      BY <2>1 DEF stream
    <3>4. Asked(c)' = Asked(c) /\ MyClaim(c)' = MyClaim(c) /\ Others(c)' = Others(c)
      BY <3>1, <3>3 DEF Asked, MyClaim, Others
    <3>5. Owns(c)' = Owns(c)
      BY <3>4 DEF Owns
    <3>6. MayRecord(c, call[c].does, call[c].others, call[c].subject)'
      BY <2>3, <3>1, <3>3, <3>4, <3>5 DEF MayRecord
    <3>7. Stands(c)' /\ ToldTruly(c)'
      BY <1>1, <2>1, <2>3, <3>1, <3>2, <3>3, <3>6 DEF Stands, ToldTruly
    <3> QED BY <1>4, <2>1, <3>1, <3>7
  <2> QED BY <2>1, <2>2, <2>3 DEF Decides, ReturnsTruly
<1>10. ASSUME NEW c \in Clients, Commit(c) PROVE ClaimsHold'
  <2>1. call[c].told \in Told
    BY <1>1 DEF CallState, Told
  <2>2. call[c].op = "submit" => Answers(call[c].does, call[c].told)
    BY <1>1, <1>10 DEF Commit, Stands
  <2> QED BY <1>5, <1>10, <2>1, <2>2 DEF Commit
<1>11. ASSUME NEW c \in Clients, Conflict(c) PROVE ClaimsHold'
  <2> DEFINE t == [Args(c) EXCEPT !.pc = "read"]
  <2>1. t.pc = "read" /\ t.q = call[c].q
    BY <1>1, CallStates DEF CallState
  <2>2. call[c].q \in Questions /\ UNCHANGED <<stream, held>>
    BY <1>11 DEF Conflict, AllTyped, CallsAreNamed
  <2>3. call'[c] = t /\ \A x \in Clients \ {c} : call'[x] = call[x]
    BY <1>1, <1>11 DEF Conflict
  <2> HIDE DEF t
  <2>4. Stands(c)' /\ ToldTruly(c)'
    BY <2>1, <2>2, <2>3 DEF Stands, ToldTruly
  <2> QED BY <1>4, <2>2, <2>3, <2>4
<1>12. ASSUME NEW c \in Clients, StorageFails(c) PROVE ClaimsHold'
  <2>1. call[c].pc = "append" /\ Returns(c, "threw") /\ held' = held /\ "threw" \in Told
    BY <1>12 DEF StorageFails, Told
  <2>2. CASE Stores(c)
    BY <1>5, <2>1, <2>2
  <2>3. CASE UNCHANGED stream
    <3>1. \A x \in Clients \ {c} : call'[x] = call[x]
      BY <2>1, ReturnsTypes
    <3>2. /\ call'[c].op = "submit" => call[c].op = "submit" /\ call'[c].told = "threw" /\ call'[c].q = call[c].q
          /\ call'[c].pc = "idle"
      BY <1>1, <2>1, ReturnsTells
    <3>3. Stands(c)' /\ ToldTruly(c)'
      BY <1>1, <3>2 DEF Stands, ToldTruly
    <3> QED BY <1>4, <2>1, <2>3, <3>1, <3>3
  <2> QED BY <1>12, <2>2, <2>3 DEF StorageFails
<1>13. ASSUME NEW c \in Clients, Crash(c) PROVE ClaimsHold'
  <2>1. /\ call'[c].pc = "idle" /\ call'[c].op = "none" /\ UNCHANGED stream
        /\ \A x \in Clients \ {c} : call'[x] = call[x] /\ held'[x] = held[x]
    BY <1>1, <1>13 DEF Crash, NoCall
  <2>2. \A q \in Questions : held'[c][q] = 0
    BY <1>1, <1>13 DEF Crash, NoTokens
  <2>3. TokensDiffer'
    <3>1. \A x \in Clients, q \in Questions : held'[x][q] = (IF x = c THEN 0 ELSE held[x][q])
      BY <2>1, <2>2
    <3> QED BY <1>1, <2>1, <3>1 DEF TokensDiffer, stream
  <2>4. Stands(c)' /\ ToldTruly(c)'
    BY <2>1 DEF Stands, ToldTruly
  <2>5. \A x \in Clients \ {c} : Stands(x)' /\ ToldTruly(x)'
    BY <1>1, <2>1, StandsKept
  <2> QED BY <1>2, <2>1, <2>3, <2>4, <2>5 DEF ClaimsHold
<1>14. CASE Rest
  BY <1>6, <1>14 DEF Rest
<1> QED BY <1>6, <1>7, <1>8, <1>9, <1>10, <1>11, <1>12, <1>13, <1>14 DEF Next

(* Claims, tokens and answers agree throughout.                             *)
LEMMA ClaimsAlwaysHold == Spec => []ClaimsHold
BY CallbacksTyped, AppendsAlwaysFit, InitClaims, NextClaims, PTL DEF Spec

(* A submission that was told it is accepted is the one on record, under    *)
(* its claim and with its approval; one that is on record with its approval *)
(* is never told it was refused, whatever error hid it the first time.      *)
THEOREM SubmitsAlwaysToldTruly == Spec => []SubmitsAreToldTruly
<1>1. ASSUME AllTyped, AppendsFit, ClaimsHold PROVE SubmitsAreToldTruly
  <2> SUFFICES ASSUME NEW c \in Clients, call[c].pc = "idle", call[c].op = "submit"
               PROVE  LET r == Asked(c)
                          isRecorded == /\ r.answer = MyAnswer(c) /\ r.last = MyClaim(c)
                                        /\ r.subject => r.approval = MyApproval(c) IN
                      /\ call[c].told = "ok" => r.status = "answered" /\ isRecorded
                      /\ call[c].told = "refused" /\ r.subject => ~isRecorded
    BY DEF SubmitsAreToldTruly
  <2>1. ToldTruly(c)
    BY <1>1 DEF ClaimsHold
  <2> QED BY <2>1 DEF ToldTruly
<1> QED BY <1>1, CallbacksTyped, AppendsAlwaysFit, ClaimsAlwaysHold, PTL

-----------------------------------------------------------------------------
(* Owners keep their claims.                                               *)

(* A batch of another client leaves the owner of a question or replaces     *)
(* the question.                                                            *)
LEMMA OwnersStay ==
  ASSUME AllTyped, RecordsFit, TokensDiffer, NEW c \in Clients, NEW q \in Questions,
         NEW s, Becomes(c, q, s), NEW x \in Clients,
         held[x][q] # 0, history.of[q].owner = ClaimAt(x, held[x][q])
  PROVE  \/ s.owner = history.of[q].owner
         \/ s.status = "superseded"
         \/ x = c /\ call[x].q = q /\ call[x].does \in {"release", "submit", "approve"}
<1> DEFINE r == history.of[q]
<1>1. r \in RequestState /\ RecordFits(r, revision)
  BY DEF AllTyped, TypeOK, History, RecordsFit
<1>2. r.status = "claimed"
  <2>1. ClaimAt(x, held[x][q]).token # NoClaim.token
    BY DEF ClaimAt, NoClaim
  <2> QED BY <1>1, <2>1 DEF RecordFits
<1>3. ASSUME q = call[c].q, Owns(c) PROVE x = c
  <2>1. ClaimAt(c, held[c][q]) = ClaimAt(x, held[x][q])
    BY <1>3 DEF Owns, Asked, MyClaim
  <2>2. held[c][q] = held[x][q]
    BY <2>1 DEF ClaimAt
  <2> QED BY <2>2 DEF TokensDiffer
<1>4. CASE s = Replaced(r)
  <2> HIDE DEF r
  <2> QED BY <1>1, <1>4, RecordFields
<1>5. CASE q = call[c].q /\ BecomesAsked(c, s)
  <2>1. Asked(c) = r
    BY <1>5 DEF Asked
  <2>2. \/ call[c].does \in {"release", "submit", "approve"} /\ Owns(c)
        \/ s = r
    BY <1>2, <1>5, <2>1 DEF BecomesAsked
  <2> QED BY <1>3, <1>5, <2>2
<1> QED BY <1>4, <1>5 DEF Becomes

(* A client that was told its claim won stays the owner until it releases   *)
(* or answers the question itself, dies, or the question is superseded: no  *)
(* client of the same name, however it interleaves with it, releases,       *)
(* claims or answers it.                                                    *)
THEOREM OwnersAlwaysKeep == Spec => OwnersKeepClaims
<1>1. ASSUME AllTyped, AppendsFit, ClaimsHold, [Next]_vars, NEW x \in Clients, NEW q \in Questions,
             held[x][q] # 0, history.of[q].owner = ClaimAt(x, held[x][q])
      PROVE  \/ history'.of[q].owner = history.of[q].owner
             \/ history'.of[q].status = "superseded"
             \/ call[x].q = q /\ call[x].does \in {"release", "submit", "approve"}
  <2>1. RecordsFit /\ TokensDiffer /\ Sound(history)
    BY <1>1 DEF ClaimsHold, AppendsFit
  <2>2. ASSUME NEW c \in Clients, call[c].pc = "append", Stores(c)
        PROVE  \/ history'.of[q].owner = history.of[q].owner
               \/ history'.of[q].status = "superseded"
               \/ call[x].q = q /\ call[x].does \in {"release", "submit", "approve"}
    <3>1. MayRecord(c, call[c].does, call[c].others, call[c].subject)
      BY <1>1, <2>2 DEF Stores, ClaimsHold, Stands
    <3>2. Becomes(c, q, history'.of[q])
      BY <1>1, <2>1, <2>2, <3>1, StoredBecomes
    <3> QED BY <1>1, <2>1, <3>2, OwnersStay
  <2>3. CASE history' = history
    BY <2>3
  <2>4. history' = history \/ \E c \in Clients : call[c].pc = "append" /\ Stores(c)
    <3>1. ASSUME NEW c \in Clients, Apply(c) PROVE history' = history
      BY <1>1, <3>1, OperationsDecide DEF stream
    <3> QED BY <1>1, <3>1 DEF Next, OtherAppends, Rest, Calls, Call, Commit, Conflict, StorageFails, Crash, vars, stream
  <2> QED BY <2>2, <2>3, <2>4
<1>2. AllTyped /\ AppendsFit /\ ClaimsHold /\ [Next]_vars =>
        [\A c \in Clients, q \in Questions :
           held[c][q] # 0 /\ history.of[q].owner = ClaimAt(c, held[c][q]) =>
             \/ history'.of[q].owner = history.of[q].owner
             \/ history'.of[q].status = "superseded"
             \/ call[c].q = q /\ call[c].does \in {"release", "submit", "approve"}]_vars
  BY <1>1
<1> QED BY <1>2, CallbacksTyped, AppendsAlwaysFit, ClaimsAlwaysHold, PTL DEF Spec, OwnersKeepClaims
=============================================================================
