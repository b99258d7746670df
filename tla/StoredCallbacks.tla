---------------------------- MODULE StoredCallbacks ----------------------------
(***************************************************************************)
(* Callback clients over the stored history of one run, in any number of    *)
(* processes: createStoredCallbackClient of packages/runtime/src/callback/  *)
(* stored-client.ts, around the in-memory client of client.ts.  They share  *)
(* nothing but the event stream of the run, to which the executor of the    *)
(* run and others append as well.                                          *)
(*                                                                         *)
(* Every operation goes through change(): read the stream, fold it, apply   *)
(* the operation to the fold, append what it recorded at the revision read, *)
(* and start again when somebody else appended in between.  Reading ends    *)
(* and applying begins in one step of JavaScript, so one action here does   *)
(* both.  A client writes with one operation at a time.                     *)
(***************************************************************************)
EXTENDS CallbackHistory

CONSTANTS
  Clients,          \* open stored clients
  RouterOf,         \* the router each of them claims for; names may be shared
  MaxRevision,      \* bound: the revision from which on nothing is called
  MaxOthers,        \* bound: appends by writers that are no callback clients
  MaxFaults,        \* bound: appends that throw a storage error
  MaxCrashes        \* bound: processes that die

ASSUME ClientsAreRouters == RouterOf \in [Clients -> Routers]

VARIABLES
  history,    \* the fold of the stored callback events
  revision,   \* the revision of the stream
  call,       \* the operation of each client
  held,       \* the claim token each client was last told, by question
  others, faults, crashes

stream == <<history, revision>>
spent  == <<others, faults, crashes>>
vars   == <<stream, call, held, spent>>

Ops  == {"none", "post", "claim", "submit", "release", "supersede"}
Does == {"nothing", "request", "supersede", "claim", "release", "reject", "submit", "approve"}

(* What was called, what it is about to append and at which revision, and   *)
(* how it ends.  A finished submission is remembered until the next call.   *)
CallState ==
  [pc : {"idle", "read", "append"}, op : Ops, q : Questions \cup {None},
   response : Responses \cup {None}, actor : Actors \cup {None},
   rev : Nat, does : Does, others : SUBSET Questions, subject : BOOLEAN,
   told : {"nothing", "ok", "refused", "threw"}]

NoCall == [pc |-> "idle", op |-> "none", q |-> None, response |-> None, actor |-> None,
           rev |-> 0, does |-> "nothing", others |-> {}, subject |-> FALSE, told |-> "nothing"]

NoTokens == [q \in Questions |-> 0]

(* randomUUID: a token is known by the revision its claim is recorded at.   *)
ClaimAt(c, token) == [router |-> RouterOf[c], token |-> token]
MyClaim(c)        == ClaimAt(c, held[c][call[c].q])
MyAnswer(c)       == [router |-> RouterOf[c], response |-> call[c].response]
MyApproval(c)     == [router |-> RouterOf[c], response |-> call[c].response, actor |-> call[c].actor]

Asked(c) == history.of[call[c].q]

-----------------------------------------------------------------------------
(* What a call was made with.                                               *)
Args(c) == [NoCall EXCEPT !.op = call[c].op, !.q = call[c].q,
                          !.response = call[c].response, !.actor = call[c].actor]

Returns(c, told) ==
  call' = [call EXCEPT ![c] = IF @.op = "submit" THEN [Args(c) EXCEPT !.told = told] ELSE NoCall]

(* The operation recorded something: it is appended as one batch.           *)
Appends(c, does, Q, subject, told) ==
  call' = [call EXCEPT ![c] = [Args(c) EXCEPT !.pc = "append", !.rev = revision, !.does = does,
                                              !.others = Q, !.subject = subject, !.told = told]]

Records(c, does, told) == Appends(c, does, {}, FALSE, told)

Applies(c, op) ==
  /\ call[c].pc = "read" /\ call[c].op = op
  /\ UNCHANGED <<stream, held, spent>>

Call(c, op, q, response, actor) ==
  /\ call[c].pc = "idle" /\ revision < MaxRevision
  /\ call' = [call EXCEPT ![c] = [NoCall EXCEPT !.pc = "read", !.op = op, !.q = q,
                                                !.response = response, !.actor = actor]]
  /\ UNCHANGED <<stream, held, spent>>

Calls(c) ==
  \E q \in Questions :
    \/ \E op \in Ops \ {"none", "submit"} : Call(c, op, q, None, None)
    \/ \E response \in Responses : \E actor \in IF q \in SubjectBacked THEN Actors \cup {None} ELSE {None} :
         Call(c, "submit", q, response, actor)

(* Broken, for mutation testing: only a claimed question is replaced.      *)
OthersClaimed(c) ==
  {q \in Questions \ {call[c].q} : GateOf[q] = GateOf[call[c].q] /\ history.of[q].status = "claimed"}

(* The questions of the same gate that a new one takes the place of.        *)
Others(c) ==
  {q \in Questions \ {call[c].q} : GateOf[q] = GateOf[call[c].q] /\ IsLive(history.of[q])}

(* post.  The subject goes with the question the first time only.  It is    *)
(* the one the content of the request names, so the comparison with what is *)
(* stored cannot fail.                                                      *)
Post(c) ==
  LET asks == Asked(c).status \in {"absent", "superseded"} IN
  /\ Applies(c, "post")
  /\ IF asks
       THEN Appends(c, "request", Others(c), call[c].q \in SubjectBacked /\ ~Asked(c).subject, "ok")
       ELSE IF Others(c) # {} THEN Appends(c, "supersede", Others(c), FALSE, "ok")
                              ELSE Returns(c, "ok")

ClaimIt(c) ==
  /\ Applies(c, "claim")
  /\ IF Asked(c).status = "pending" THEN Records(c, "claim", "ok") ELSE Returns(c, "refused")

(* Broken, for mutation testing: the router's name is enough.               *)
OwnsByName(c) == Asked(c).status = "claimed" /\ Asked(c).owner.router = RouterOf[c]

(* The claim token is that of the claim that stands, the router its router. *)
Owns(c) == Asked(c).status = "claimed" /\ Asked(c).owner = MyClaim(c)

(* submit, of a question without an approval subject: client.submit.  An    *)
(* answer that does not fit the schema is recorded as rejected.             *)
SubmitPlain(c) ==
  /\ Applies(c, "submit") /\ ~Asked(c).subject
  /\ IF ~Owns(c) THEN Returns(c, "refused")
     ELSE IF call[c].response \in Valid THEN Records(c, "submit", "ok")
                                        ELSE Records(c, "reject", "refused")

(* Broken, for mutation testing: a retry is not told from a second answer.  *)
NeverAgain(c) == FALSE

(* The same submission as the one recorded, by the router of its claim.     *)
Again(c) == Asked(c).status = "answered" /\ Asked(c).last = MyClaim(c)

(* submit, of a question with one: it needs an actor and a decision; what   *)
(* is recorded already is answered from the record; the approval goes into  *)
(* the same batch as the submission.  The error for an approval without a   *)
(* submission is left out: ApprovedIsAnswered in CallbackProofs.            *)
SubmitBacked(c) ==
  /\ Applies(c, "submit") /\ Asked(c).subject
  /\ CASE call[c].actor = None \/ call[c].response \notin Valid -> Returns(c, "refused")
       [] call[c].actor # None /\ call[c].response \in Valid ->
            IF Again(c)
              THEN Returns(c, IF Asked(c).approval = MyApproval(c) THEN "ok" ELSE "threw")
              ELSE IF Owns(c) THEN Records(c, "approve", "ok") ELSE Returns(c, "refused")

(* release asks for the token alone; the token names its router.            *)
Release(c) ==
  /\ Applies(c, "release")
  /\ IF Owns(c) THEN Records(c, "release", "ok") ELSE Returns(c, "refused")

Supersede(c) ==
  /\ Applies(c, "supersede")
  /\ IF IsLive(Asked(c)) THEN Appends(c, "supersede", {call[c].q}, FALSE, "ok") ELSE Returns(c, "ok")

-----------------------------------------------------------------------------
(* The history after the batch of client c.                                 *)
After(c, h) ==
  LET d == call[c] IN
  CASE d.does = "supersede" -> Superseded(h, d.others)
    [] d.does = "request"   -> Requested(Superseded(h, d.others), d.q, d.subject)
    [] d.does = "claim"     -> Claimed(h, d.q, ClaimAt(c, d.rev + 1))
    [] d.does = "release"   -> Released(h, d.q, RouterOf[c])
    [] d.does = "reject"    -> Rejected(h, d.q, RouterOf[c])
    [] d.does = "submit"    -> Submitted(h, d.q, MyAnswer(c))
    [] d.does = "approve"   -> Approved(Submitted(h, d.q, MyAnswer(c)), d.q, MyApproval(c))

Stores(c) ==
  /\ call[c].rev = revision
  /\ history' = After(c, history)
  /\ revision' = revision + 1

Commit(c) ==
  /\ call[c].pc = "append"
  /\ Stores(c)
  /\ held' = IF call[c].does = "claim" THEN [held EXCEPT ![c][call[c].q] = revision + 1] ELSE held
  /\ Returns(c, call[c].told)
  /\ UNCHANGED spent

(* Broken, for mutation testing: the batch is appended where the stream is. *)
AppendsRegardless(c) ==
  /\ call[c].pc = "append"
  /\ call[c].rev # revision
  /\ history' = After(c, history)
  /\ revision' = revision + 1
  /\ Returns(c, call[c].told)
  /\ UNCHANGED <<held, spent>>

(* REVISION_CONFLICT: the operation is applied again to what is there now.  *)
Conflict(c) ==
  /\ call[c].pc = "append"
  /\ call[c].rev # revision
  /\ call' = [call EXCEPT ![c] = [Args(c) EXCEPT !.pc = "read"]]
  /\ UNCHANGED <<stream, held, spent>>

(* Any other error reaches the caller, though the batch may be committed:   *)
(* of a claim it then never learns the token.                               *)
StorageFails(c) ==
  /\ call[c].pc = "append"
  /\ faults < MaxFaults
  /\ faults' = faults + 1
  /\ Stores(c) \/ UNCHANGED stream
  /\ Returns(c, "threw")
  /\ UNCHANGED <<held, others, crashes>>

(* The process of a client dies; another opens a client in its place.       *)
Crash(c) ==
  /\ call[c].pc # "idle" \/ held[c] # NoTokens
  /\ crashes < MaxCrashes
  /\ crashes' = crashes + 1
  /\ call' = [call EXCEPT ![c] = NoCall]
  /\ held' = [held EXCEPT ![c] = NoTokens]
  /\ UNCHANGED <<stream, others, faults>>

OtherAppends ==
  /\ others < MaxOthers
  /\ others' = others + 1
  /\ revision' = revision + 1
  /\ UNCHANGED <<history, call, held, faults, crashes>>

-----------------------------------------------------------------------------
Init ==
  /\ history = NoHistory /\ revision = 1
  /\ call = [c \in Clients |-> NoCall]
  /\ held = [c \in Clients |-> NoTokens]
  /\ others = 0 /\ faults = 0 /\ crashes = 0

Apply(c) ==
  Post(c) \/ ClaimIt(c) \/ SubmitPlain(c) \/ SubmitBacked(c) \/ Release(c) \/ Supersede(c)

(* At the bound the clients rest.                                           *)
Rest ==
  /\ revision >= MaxRevision /\ \A c \in Clients : call[c].pc = "idle"
  /\ UNCHANGED vars

Next ==
  \/ OtherAppends \/ Rest
  \/ \E c \in Clients :
       \/ Calls(c) \/ Apply(c)
       \/ Commit(c) \/ Conflict(c) \/ StorageFails(c)
       \/ Crash(c)

Spec == Init /\ [][Next]_vars

-----------------------------------------------------------------------------
TypeOK ==
  /\ history \in History /\ revision \in Nat
  /\ call \in [Clients -> CallState]
  /\ held \in [Clients -> [Questions -> Nat]]
  /\ others \in Nat /\ faults \in Nat /\ crashes \in Nat

(* No client ever appends an event that the next read of the history would  *)
(* refuse, however many clients wrote since it read: the questions of the   *)
(* run can always be read again.                                            *)
HistoryReads == history.valid

(* Two posts for one gate, by clients that did not see each other's         *)
(* question, never leave two questions of the gate open: a question that    *)
(* was replaced cannot be answered.                                         *)
OneQuestionPerGate ==
  \A q, r \in Questions :
    GateOf[q] = GateOf[r] /\ IsLive(history.of[q]) /\ IsLive(history.of[r]) => q = r

(* A client that was told its claim won stays the owner of the question     *)
(* until it releases or answers it itself, it dies, or the question is      *)
(* superseded: no other client, not even one of the same name, releases,    *)
(* claims or answers it.                                                    *)
OwnersKeepClaims ==
  [][\A c \in Clients, q \in Questions :
       held[c][q] # 0 /\ history.of[q].owner = ClaimAt(c, held[c][q]) =>
         \/ history'.of[q].owner = history.of[q].owner
         \/ history'.of[q].status = "superseded"
         \/ call[c].q = q /\ call[c].does \in {"release", "submit", "approve"}]_vars

(* A submission that was reported accepted is the one on record, by the     *)
(* claim it was made under and with the approval that binds it; and one     *)
(* that is on record with its approval is never reported refused, even if   *)
(* an error hid it from its router the first time.                          *)
SubmitsAreToldTruly ==
  \A c \in Clients :
    LET r == Asked(c)
        isRecorded == /\ r.answer = MyAnswer(c) /\ r.last = MyClaim(c)
                      /\ r.subject => r.approval = MyApproval(c) IN
    call[c].pc = "idle" /\ call[c].op = "submit" =>
      /\ call[c].told = "ok" => r.status = "answered" /\ isRecorded
      /\ call[c].told = "refused" /\ r.subject => ~isRecorded
================================================================================
