---------------------------- MODULE GraphExecutor ----------------------------
(***************************************************************************)
(* The graph executor of packages/runtime/src/runtime/graph-executor.ts:    *)
(* it folds the events a run has recorded into graph state, asks the graph  *)
(* what to do, records the decision, runs the dispatched node attempts and  *)
(* records what becomes of them.  Any number of executors may be created    *)
(* over one stored run; they share nothing but its event stream, which      *)
(* accepts an append only at the revision the writer expects, and which     *)
(* others may append to as well.                                           *)
(*                                                                         *)
(* The stream is represented by what readFolded makes of it.  The fold runs *)
(* from the left, so folding each batch as it is committed and folding the  *)
(* whole stream on every read agree; a batch the fold refuses makes every   *)
(* later fold fail (valid = FALSE).  The revision is only ever compared, so *)
(* it counts batches rather than events.                                   *)
(*                                                                         *)
(* An action runs from one await to the next: JavaScript interleaves        *)
(* nowhere else.  Preflight checks are left out (no preflight policy), and  *)
(* the identity that a dead engine reports is taken to be a declared one:   *)
(* readFolded reads no stream with another (see Preflight).                 *)
(***************************************************************************)
EXTENDS Naturals, Sequences

CONSTANTS
  Executors,          \* executors over the run, in any number of processes
  Positions,          \* the dispatch positions the graph can mint
  EnginePositions,    \* those of nodes with an engine lane
  RetrySafe,          \* those of nodes bound with retrySafe: true
  NoPosition,         \* "no position": the target of a plain run()
  GraphInitial,       \* graph.initialState()
  Reduce(_, _),       \* graph.reduce(state, event)
  ReduceAll(_, _),    \* reduce over the node-dispatched events of one decision
  Decide(_),          \* graph.decide(state): [kind, positions]
  Results,            \* the results a node may complete with
  Slots,              \* attempts of one position one executor can have alive
  Exclusive,          \* the host holds a process lock: one executor at a time
  HostWaits,          \* the host calls again only when no attempt is left over
  MaxGrants,          \* bound: starts and resumes recorded per position
  MaxCrashes,         \* bound: processes that die with work in hand
  MaxFaults,          \* bound: aborts, and appends that throw a storage error
  MaxWaits,           \* bound: attempts whose action policy says wait
  MaxOthers           \* bound: appends by writers that are no executors

ASSUME EnginePositionsArePositions == EnginePositions \subseteq Positions
ASSUME NoPositionIsNone            == NoPosition \notin Positions
ASSUME SwitchesAreBoolean          == Exclusive \in BOOLEAN /\ HostWaits \in BOOLEAN
ASSUME SlotsGiven                  == Slots # {}

VARIABLES
  log,        \* the stored stream, folded
  up,         \* executors that exist in a living process
  running,    \* the `running` flag of each executor
  target,     \* the position its pending resume names, or NoPosition
  pc,         \* where its pending operation stands
  snap,       \* what its last read of the stream returned
  appendRev,  \* its appendRevision
  task,       \* its node attempts
  outcome,    \* how its last operation ended
  ran,        \* history: the grants node code was begun under, per position
  called,     \* history: how many engine calls were made, per position
  crashes, faults, waits, others    \* spent from the bounds

exec   == <<up, running, target, pc, outcome, snap>>
spent  == <<crashes, faults, waits, others>>
vars   == <<log, exec, appendRev, task, ran, called, spent>>

-----------------------------------------------------------------------------
(* The fold of the stream                                                  *)

Statuses == {"none", "in-flight", "paused", "settled"}

(* A FoldedAttempt, with the count of the start and resume events and of   *)
(* the pause events recorded for the position so far.                      *)
Attempt == [status : Statuses, started : BOOLEAN, retrySafe : BOOLEAN,
            seq : Nat, grants : Nat, pauses : Nat]

NoAttempt == [status |-> "none", started |-> FALSE, retrySafe |-> FALSE,
              seq |-> 0, grants |-> 0, pauses |-> 0]

EmptyLog == [rev |-> 1, valid |-> TRUE, gstate |-> GraphInitial,
             attempts |-> [p \in Positions |-> NoAttempt]]

Event(type, p, result) == [type |-> type, position |-> p, result |-> result]

(* fail('INVALID_EVENT'): the fold refuses the event.                      *)
Fold(f, allowed, g) == IF allowed THEN g ELSE [f EXCEPT !.valid = FALSE]

FoldDispatches(f, P) ==
  LET d == Decide(f.gstate) IN
  Fold(f, /\ d.kind = "dispatch"
          /\ P \subseteq d.positions
          /\ \A p \in P : f.attempts[p].status = "none",
       [f EXCEPT !.gstate = ReduceAll(@, P),
                 !.attempts = [p \in Positions |->
                    IF p \in P THEN [NoAttempt EXCEPT !.status = "in-flight"]
                               ELSE f.attempts[p]]])

(* Broken, for mutation testing: every node counts as retrySafe.           *)
FoldStartRetrySafe(f, p) ==
  LET a == f.attempts[p] IN
  Fold(f, a.status = "in-flight" /\ ~a.started,
       [f EXCEPT !.attempts[p] = [a EXCEPT !.started = TRUE, !.retrySafe = TRUE, !.grants = a.grants + 1]])

FoldStart(f, p) ==
  LET a == f.attempts[p] IN
  Fold(f, a.status = "in-flight" /\ ~a.started,
       [f EXCEPT !.attempts[p] = [a EXCEPT !.started = TRUE,
                                           !.retrySafe = p \in RetrySafe,
                                           !.grants = a.grants + 1]])

FoldReceipt(f, p, sequence) ==
  LET a == f.attempts[p] IN
  Fold(f, a.status = "in-flight" /\ a.started /\ sequence = a.seq + 1 /\ p \in EnginePositions,
       [f EXCEPT !.gstate = Reduce(@, Event("engine-attempt-recorded", p, "none")),
                 !.attempts[p].seq = sequence])

FoldResume(f, p) ==
  LET a == f.attempts[p] IN
  Fold(f, a.status = "paused" \/ (a.status = "in-flight" /\ a.started),
       [f EXCEPT !.gstate = Reduce(@, Event("node-resumed", p, "none")),
                 !.attempts[p] = [a EXCEPT !.status = "in-flight", !.grants = a.grants + 1]])

FoldPause(f, p) ==
  LET a == f.attempts[p] IN
  Fold(f, a.status = "in-flight",
       [f EXCEPT !.gstate = Reduce(@, Event("node-paused", p, "none")),
                 !.attempts[p] = [a EXCEPT !.status = "paused", !.pauses = a.pauses + 1]])

(* Broken, for mutation testing: the graph is not told.                    *)
FoldSettleUntold(f, p, type, result) ==
  Fold(f, f.attempts[p].status = "in-flight", [f EXCEPT !.attempts[p].status = "settled"])

FoldSettle(f, p, type, result) ==
  LET a == f.attempts[p] IN
  Fold(f, a.status = "in-flight",
       [f EXCEPT !.gstate = Reduce(@, Event(type, p, result)),
                 !.attempts[p] = [a EXCEPT !.status = "settled"]])

InFlight(f) == {p \in Positions : f.attempts[p].status = "in-flight"}

-----------------------------------------------------------------------------
(* Appends.  An append commits at the expected revision or not at all; a   *)
(* storage error may hide a commit that took place (the segment is linked  *)
(* before its directory is synced).  appendBatch and enqueueBatch advance  *)
(* the executor's appendRevision only when the store returns.              *)

Stored(f) == [f EXCEPT !.rev = log.rev + 1]

(* Broken, for mutation testing: a revision once read is good for ever.    *)
CommitsAnyway(e, expected, f) ==
  /\ expected <= log.rev
  /\ log' = Stored(f)
  /\ appendRev' = [appendRev EXCEPT ![e] = log.rev + 1]
  /\ UNCHANGED faults

Commits(e, expected, f) ==
  /\ expected = log.rev
  /\ log' = Stored(f)
  /\ appendRev' = [appendRev EXCEPT ![e] = log.rev + 1]
  /\ UNCHANGED faults

Conflicts(expected) ==
  /\ expected # log.rev
  /\ UNCHANGED <<log, appendRev, faults>>

StorageFails(expected, f) ==
  /\ faults < MaxFaults
  /\ faults' = faults + 1
  /\ \/ UNCHANGED log
     \/ expected = log.rev /\ log' = Stored(f)
  /\ UNCHANGED appendRev

Throws(expected, f) == Conflicts(expected) \/ StorageFails(expected, f)

-----------------------------------------------------------------------------
(* Node attempts.  A task is one appendOutcome call: it records the start, *)
(* then runs the attempt (executeNodeAttempt), then records what came of   *)
(* it.  grant (history) numbers the start or resume record it acts on; seq *)
(* is its engineSequence, calls the engine calls it made, out the outcome  *)
(* it holds, and fg says that drive still awaits it.                       *)

Steps == {"none", "start", "ready", "run", "receipt", "fact", "result"}
Outs  == {"none", "completed", "failed", "paused"}

Task == [step : Steps, grant : Nat, seq : Nat, calls : Nat, out : Outs, fg : BOOLEAN]

NoTask == [step |-> "none", grant |-> 0, seq |-> 0, calls |-> 0, out |-> "none", fg |-> FALSE]

NewTask(step, grant, seq) ==
  [NoTask EXCEPT !.step = step, !.grant = grant, !.seq = seq, !.fg = TRUE]

Live(e)       == {k \in Positions \X Slots : task[e][k].step # "none"}
Foreground(e) == {k \in Live(e) : task[e][k].fg}

NoTasks == [k \in Positions \X Slots |-> NoTask]

(* drive awaits all attempts of a decision together: the first that throws *)
(* rejects the operation, and the others go on without anyone awaiting.    *)
Disowned(tasks) == [k \in Positions \X Slots |-> [tasks[k] EXCEPT !.fg = FALSE]]

Leave(e, how) ==
  /\ running' = [running EXCEPT ![e] = FALSE]
  /\ target'  = [target EXCEPT ![e] = NoPosition]
  /\ pc'      = [pc EXCEPT ![e] = "idle"]
  /\ outcome' = [outcome EXCEPT ![e] = how]
  /\ snap' = [snap EXCEPT ![e] = EmptyLog]
  /\ UNCHANGED up

Rejects(e) == Leave(e, "rejected")

(* What was read is forgotten once the attempts are under way, or when the *)
(* stream is about to be read again.                                       *)
At(e, place, t) ==
  /\ pc' = [pc EXCEPT ![e] = place]
  /\ target' = [target EXCEPT ![e] = t]
  /\ snap' = IF place \in {"read", "await"} THEN [snap EXCEPT ![e] = EmptyLog] ELSE snap
  /\ UNCHANGED <<up, running, outcome>>

SetTask(e, k, t) == task' = [task EXCEPT ![e][k] = t]

(* The task is over because its append threw.                              *)
TaskThrows(e, k) ==
  LET rest == [task[e] EXCEPT ![k] = NoTask] IN
  IF task[e][k].fg
    THEN /\ task' = [task EXCEPT ![e] = Disowned(rest)]
         /\ Rejects(e)
    ELSE /\ task' = [task EXCEPT ![e] = rest]
         /\ UNCHANGED exec

(* The append of folded batch f by task k: on commit the task becomes t.   *)
TaskAppends(e, k, f, t) ==
  \/ Commits(e, appendRev[e], f) /\ SetTask(e, k, t) /\ UNCHANGED exec
  \/ Throws(appendRev[e], f) /\ TaskThrows(e, k)

AppendStart(e, k) ==
  LET p == k[1]  t == task[e][k] IN
  /\ t.step = "start"
  /\ TaskAppends(e, k, FoldStart(log, p),
                 [t EXCEPT !.step = "ready", !.grant = log.attempts[p].grants + 1])
  /\ UNCHANGED <<ran, called, crashes, waits, others>>

(* The attempt ends before node code runs: the input or the workspace is   *)
(* refused, no engine of the lane is left, the policy denies, or it waits. *)
SkipRun(e, k) ==
  /\ task[e][k].step = "ready"
  /\ \/ SetTask(e, k, [task[e][k] EXCEPT !.step = "result", !.out = "failed"]) /\ UNCHANGED waits
     \/ /\ waits < MaxWaits
        /\ waits' = waits + 1
        /\ SetTask(e, k, [task[e][k] EXCEPT !.step = "result", !.out = "paused"])
  /\ UNCHANGED <<log, exec, appendRev, ran, called, crashes, faults, others>>

IsEngine(k) == k[1] \in EnginePositions

CallEngine(e, k) ==
  called' = IF IsEngine(k) THEN [called EXCEPT ![k[1]] = @ + 1] ELSE called

Invoke(e, k) ==
  LET t == task[e][k] IN
  /\ t.step = "ready"
  /\ SetTask(e, k, [t EXCEPT !.step = "run", !.calls = 1])
  /\ ran' = [ran EXCEPT ![k[1]] = Append(@, t.grant)]
  /\ CallEngine(e, k)
  /\ UNCHANGED <<log, exec, appendRev, spent>>

(* Data node code returns or throws; an engine call returns in some way.   *)
(* A result the graph refuses or the stream has no room for is recorded as *)
(* a failure, so "failed" stands for those as well.                        *)
RunReturns(e, k) ==
  LET t == task[e][k] IN
  /\ t.step = "run"
  /\ \E out \in {"completed", "failed"} :
       SetTask(e, k, [t EXCEPT !.step = IF IsEngine(k) THEN "receipt" ELSE "result",
                               !.out = out])
  /\ UNCHANGED <<log, exec, appendRev, ran, called, spent>>

(* recordEngineAttempt: every call is recorded before its result, or its   *)
(* failure, is acted on.  A failure that proves the lane dead is recorded  *)
(* as a fact next.                                                         *)
AppendReceipt(e, k) ==
  LET t == task[e][k] IN
  /\ t.step = "receipt"
  /\ \E step \in {"result"} \cup (IF t.out = "failed" THEN {"fact"} ELSE {}) :
       TaskAppends(e, k, FoldReceipt(log, k[1], t.seq + 1),
                   [t EXCEPT !.step = step, !.seq = @ + 1])
  /\ UNCHANGED <<ran, called, crashes, waits, others>>

(* recordModelUnavailable, then one live fallback of the route if it has   *)
(* one.  A fact that cannot be recorded fails the attempt, not the run.    *)
AppendFact(e, k) ==
  LET t == task[e][k]
      fails == [t EXCEPT !.step = "result"] IN
  /\ t.step = "fact"
  /\ \/ /\ t.calls = 1
        /\ Commits(e, appendRev[e], log)
        /\ SetTask(e, k, [t EXCEPT !.step = "run", !.calls = 2])
        /\ CallEngine(e, k)
     \/ /\ Commits(e, appendRev[e], log) \/ Throws(appendRev[e], log)
        /\ SetTask(e, k, fails)
        /\ UNCHANGED called
  /\ UNCHANGED <<exec, ran, crashes, waits, others>>

AppendOutcome(e, k) ==
  LET p == k[1]  t == task[e][k] IN
  /\ t.step = "result"
  /\ \/ /\ t.out = "paused"
        /\ TaskAppends(e, k, FoldPause(log, p), NoTask)
     \/ /\ t.out = "failed"
        /\ TaskAppends(e, k, FoldSettle(log, p, "node-failed", "none"), NoTask)
     \/ /\ t.out = "completed"
        /\ \E r \in Results :
             TaskAppends(e, k, FoldSettle(log, p, "node-completed", r), NoTask)
  /\ UNCHANGED <<ran, called, crashes, waits, others>>

-----------------------------------------------------------------------------
(* The operations of an executor.                                          *)

Create(e) ==
  /\ ~up[e]
  /\ Exclusive => \A x \in Executors : ~up[x]
  /\ up' = [up EXCEPT ![e] = TRUE]
  /\ appendRev' = [appendRev EXCEPT ![e] = EmptyLog.rev]
  /\ UNCHANGED <<log, running, target, pc, outcome, snap, task, ran, called, spent>>

(* run() and resume(position): exclusively() refuses a call only while     *)
(* `running` is set, which attempts left over by a rejected operation do   *)
(* not keep set.                                                           *)
Call(e, t) ==
  /\ up[e] /\ ~running[e]
  /\ HostWaits => Live(e) = {}
  /\ t \in Positions => log.attempts[t].grants < MaxGrants
  /\ running' = [running EXCEPT ![e] = TRUE]
  /\ target' = [target EXCEPT ![e] = t]
  /\ pc' = [pc EXCEPT ![e] = "read"]
  /\ outcome' = [outcome EXCEPT ![e] = "none"]
  /\ UNCHANGED <<log, up, snap, appendRev, task, ran, called, spent>>

(* readFolded: the events are read, and folded only once they arrived.     *)
Read(e) ==
  /\ pc[e] = "read"
  /\ snap' = [snap EXCEPT ![e] = log]
  /\ pc' = [pc EXCEPT ![e] = "fold"]
  /\ UNCHANGED <<log, up, running, target, outcome, appendRev, task, ran, called, spent>>

Abort(e) ==
  /\ pc[e] = "read"
  /\ faults < MaxFaults
  /\ faults' = faults + 1
  /\ Rejects(e)
  /\ UNCHANGED <<log, appendRev, task, ran, called, crashes, waits, others>>

(* The fold refuses the stream, or succeeds and sets the executor's        *)
(* appendRevision as its last act.                                         *)
Folds(e) ==
  /\ pc[e] = "fold"
  /\ appendRev' = IF snap[e].valid THEN [appendRev EXCEPT ![e] = snap[e].rev] ELSE appendRev

Opens(f, P) == InFlight(f) = {} /\ \A p \in P : f.attempts[p].status = "none"

(* drive: what the decision on the folded state leads to.  An empty one,   *)
(* and a terminal or a new one over work in flight, are refused.           *)
Decides(e) ==
  LET f == snap[e]  d == Decide(f.gstate) IN
  /\ Folds(e) /\ target[e] = NoPosition
  /\ CASE ~f.valid -> Rejects(e)
       [] f.valid /\ d.kind # "dispatch" ->
            IF InFlight(f) = {} THEN Leave(e, d.kind) ELSE Rejects(e)
       [] f.valid /\ d.kind = "dispatch" /\ d.positions = {} ->
            IF InFlight(f) = {} THEN Rejects(e) ELSE Leave(e, "waiting")
       [] f.valid /\ d.kind = "dispatch" /\ d.positions # {} ->
            IF Opens(f, d.positions) THEN At(e, "dispatch", NoPosition) ELSE Rejects(e)
  /\ UNCHANGED <<log, task, ran, called, spent>>

(* The decided positions, for as long as snap is not read anew.            *)
Decided(e) == Decide(snap[e].gstate).positions

Spawns(e, tasks) ==
  \E s \in Slots :
    /\ \A p \in DOMAIN tasks : task[e][<<p, s>>].step = "none"
    /\ task' = [task EXCEPT ![e] = [k \in Positions \X Slots |->
         IF k[1] \in DOMAIN tasks /\ k[2] = s THEN tasks[k[1]] ELSE @[k]]]

(* Broken, for mutation testing: the batch is recorded in part.            *)
AppendDispatchInPart(e) ==
  LET P == {CHOOSE p \in Decided(e) : TRUE}  f == FoldDispatches(log, P) IN
  /\ pc[e] = "dispatch"
  /\ \/ /\ Commits(e, snap[e].rev, f)
        /\ Spawns(e, [p \in P |-> NewTask("start", 0, 0)])
        /\ At(e, "await", NoPosition)
     \/ Conflicts(snap[e].rev) /\ At(e, "read", NoPosition) /\ UNCHANGED task
  /\ UNCHANGED <<ran, called, crashes, waits, others>>

(* A decision lost to another writer is dropped and taken again.           *)
AppendDispatch(e) ==
  LET f == FoldDispatches(log, Decided(e)) IN
  /\ pc[e] = "dispatch"
  /\ \/ /\ Commits(e, snap[e].rev, f)
        /\ Spawns(e, [p \in Decided(e) |-> NewTask("start", 0, 0)])
        /\ At(e, "await", NoPosition)
     \/ Conflicts(snap[e].rev) /\ At(e, "read", NoPosition) /\ UNCHANGED task
     \/ StorageFails(snap[e].rev, f) /\ Rejects(e) /\ UNCHANGED task
  /\ UNCHANGED <<ran, called, crashes, waits, others>>

(* Broken, for mutation testing: a settled attempt may be resumed.         *)
WasStarted(a) == a.status # "paused" /\ a.started

Uncertain(a) == a.status = "in-flight" /\ a.started

(* resumePosition: settled and unknown positions are refused; an attempt   *)
(* that may have run and must not run twice unasked is to be paused; one   *)
(* that paused or may run again is to be resumed; one that was dispatched  *)
(* and not started is run as it stands.                                    *)
DecidesResume(e) ==
  LET p == target[e]  a == snap[e].attempts[p] IN
  /\ Folds(e) /\ p # NoPosition
  /\ \/ /\ ~snap[e].valid \/ a.status \in {"none", "settled"}
        /\ Rejects(e) /\ UNCHANGED task
     \/ /\ snap[e].valid /\ Uncertain(a) /\ ~a.retrySafe
        /\ At(e, "reconcile", p) /\ UNCHANGED task
     \/ /\ snap[e].valid /\ (a.status = "paused" \/ (Uncertain(a) /\ a.retrySafe))
        /\ At(e, "resume", p) /\ UNCHANGED task
     \/ /\ snap[e].valid /\ a.status = "in-flight" /\ ~a.started
        /\ Spawns(e, [q \in {p} |-> NewTask("start", 0, a.seq)])
        /\ At(e, "await", p)
  /\ UNCHANGED <<log, ran, called, spent>>

(* Broken, for mutation testing: lost receipts stay lost.                  *)
NeverRecovers(e, p) == FALSE

(* A receipt of unknown identity marks the engine call that may have been  *)
(* made and not recorded.                                                  *)
Recovers(e, p)      == Uncertain(snap[e].attempts[p]) /\ p \in EnginePositions
WithRecovery(e, p)  == IF Recovers(e, p) THEN FoldReceipt(log, p, snap[e].attempts[p].seq + 1)
                                         ELSE log
SeqAfter(e, p)      == snap[e].attempts[p].seq + (IF Recovers(e, p) THEN 1 ELSE 0)

AppendReconcile(e) ==
  LET p == target[e]  f == FoldPause(WithRecovery(e, p), p) IN
  /\ pc[e] = "reconcile"
  /\ \/ Commits(e, snap[e].rev, f) /\ At(e, "read", NoPosition)
     \/ Throws(snap[e].rev, f) /\ Rejects(e)
  /\ UNCHANGED <<task, ran, called, crashes, waits, others>>

(* Broken, for mutation testing: an attempt goes ahead without its record. *)
AppendResumeRegardless(e) ==
  LET p == target[e]  f == FoldResume(WithRecovery(e, p), p) IN
  /\ pc[e] = "resume"
  /\ Commits(e, snap[e].rev, f) \/ Throws(snap[e].rev, f)
  /\ Spawns(e, [q \in {p} |-> NewTask("ready", snap[e].attempts[p].grants + 1, SeqAfter(e, p))])
  /\ At(e, "await", p)
  /\ UNCHANGED <<ran, called, crashes, waits, others>>

AppendResume(e) ==
  LET p == target[e]
      f == FoldResume(WithRecovery(e, p), p)
      step == IF snap[e].attempts[p].started THEN "ready" ELSE "start" IN
  /\ pc[e] = "resume"
  /\ \/ /\ Commits(e, snap[e].rev, f)
        /\ Spawns(e, [q \in {p} |-> NewTask(step, log.attempts[p].grants + 1, SeqAfter(e, p))])
        /\ At(e, "await", p)
     \/ Throws(snap[e].rev, f) /\ Rejects(e) /\ UNCHANGED task
  /\ UNCHANGED <<ran, called, crashes, waits, others>>

(* Every awaited attempt has recorded its outcome: drive goes round again. *)
Awaited(e) ==
  /\ pc[e] = "await"
  /\ Foreground(e) = {}
  /\ At(e, "read", NoPosition)
  /\ UNCHANGED <<log, appendRev, task, ran, called, spent>>

(* Broken, for mutation testing: attempts outlive their process.           *)
GoneButAtWork(e) ==
  /\ up' = [up EXCEPT ![e] = FALSE]
  /\ running' = [running EXCEPT ![e] = FALSE]
  /\ target' = [target EXCEPT ![e] = NoPosition]
  /\ pc' = [pc EXCEPT ![e] = "idle"]
  /\ outcome' = [outcome EXCEPT ![e] = "none"]
  /\ snap' = [snap EXCEPT ![e] = EmptyLog]
  /\ UNCHANGED <<log, appendRev, task, ran, called, faults, waits, others>>

(* The process ends, in good order or not; what it had in hand is gone.    *)
Gone(e) ==
  /\ up' = [up EXCEPT ![e] = FALSE]
  /\ running' = [running EXCEPT ![e] = FALSE]
  /\ target' = [target EXCEPT ![e] = NoPosition]
  /\ pc' = [pc EXCEPT ![e] = "idle"]
  /\ outcome' = [outcome EXCEPT ![e] = "none"]
  /\ snap' = [snap EXCEPT ![e] = EmptyLog]
  /\ appendRev' = [appendRev EXCEPT ![e] = EmptyLog.rev]
  /\ task' = [task EXCEPT ![e] = NoTasks]
  /\ UNCHANGED <<log, ran, called, faults, waits, others>>

Close(e) == up[e] /\ ~running[e] /\ Live(e) = {} /\ Gone(e) /\ UNCHANGED crashes

Crash(e) ==
  /\ up[e] /\ (running[e] \/ Live(e) # {})
  /\ crashes < MaxCrashes
  /\ crashes' = crashes + 1
  /\ Gone(e)

(* The stream is shared with writers that are no executors: the callback   *)
(* clients of a run record questions, claims and answers there.  The fold  *)
(* passes over their events.                                               *)
OtherAppends ==
  /\ others < MaxOthers
  /\ others' = others + 1
  /\ log' = Stored(log)
  /\ UNCHANGED <<exec, appendRev, task, ran, called, crashes, faults, waits>>

-----------------------------------------------------------------------------
Init ==
  /\ log = EmptyLog
  /\ up = [e \in Executors |-> FALSE]
  /\ running = [e \in Executors |-> FALSE]
  /\ target = [e \in Executors |-> NoPosition]
  /\ pc = [e \in Executors |-> "idle"]
  /\ snap = [e \in Executors |-> EmptyLog]
  /\ appendRev = [e \in Executors |-> EmptyLog.rev]
  /\ task = [e \in Executors |-> NoTasks]
  /\ outcome = [e \in Executors |-> "none"]
  /\ ran = [p \in Positions |-> <<>>]
  /\ called = [p \in Positions |-> 0]
  /\ crashes = 0 /\ faults = 0 /\ waits = 0 /\ others = 0

TaskStep(e, k) ==
  \/ AppendStart(e, k) \/ SkipRun(e, k) \/ Invoke(e, k) \/ RunReturns(e, k)
  \/ AppendReceipt(e, k) \/ AppendFact(e, k) \/ AppendOutcome(e, k)

OperationStep(e) ==
  \/ Read(e) \/ Decides(e) \/ AppendDispatch(e)
  \/ DecidesResume(e) \/ AppendReconcile(e) \/ AppendResume(e) \/ Awaited(e)

HostStep(e) ==
  \/ Create(e) \/ Close(e) \/ Crash(e) \/ Abort(e)
  \/ \E t \in Positions \cup {NoPosition} : Call(e, t)

Next ==
  \/ OtherAppends
  \/ \E e \in Executors :
       \/ HostStep(e)
       \/ OperationStep(e)
       \/ \E k \in Positions \X Slots : TaskStep(e, k)

Spec == Init /\ [][Next]_vars

(* JavaScript runs what is ready, the store answers, engines and node code *)
(* are cut off by the attempt's deadline, and a host keeps an executor up, *)
(* calls run() and resumes every position that is left open.               *)
Fairness ==
  /\ WF_vars(\E e \in Executors : Create(e))
  /\ \A e \in Executors :
       /\ WF_vars(OperationStep(e))
       /\ \A k \in Positions \X Slots : WF_vars(TaskStep(e, k))
       /\ \A t \in Positions \cup {NoPosition} : SF_vars(Call(e, t))

FairSpec == Spec /\ Fairness

-----------------------------------------------------------------------------
(* Graph states are whatever the operations of the graph return.          *)
IsLog(f) ==
  f \in [rev : Nat, valid : BOOLEAN, gstate : {f.gstate}, attempts : [Positions -> Attempt]]

TypeOK ==
  /\ IsLog(log)
  /\ snap = [e \in Executors |-> snap[e]] /\ \A e \in Executors : IsLog(snap[e])
  /\ up \in [Executors -> BOOLEAN] /\ running \in [Executors -> BOOLEAN]
  /\ target \in [Executors -> Positions \cup {NoPosition}]
  /\ pc \in [Executors -> {"idle", "read", "fold", "dispatch", "reconcile", "resume", "await"}]
  /\ outcome = [e \in Executors |-> outcome[e]]
  /\ appendRev \in [Executors -> Nat]
  /\ task \in [Executors -> [Positions \X Slots -> Task]]
  /\ ran \in [Positions -> Seq(Nat)] /\ called \in [Positions -> Nat]
  /\ crashes \in Nat /\ faults \in Nat /\ waits \in Nat /\ others \in Nat

(* No executor ever records an event that readFolded refuses as out of     *)
(* place: whatever others wrote since it read, and whatever it lost in a   *)
(* crash, the stream folds, so that the run can be taken up again.         *)
LogFolds == log.valid

(* Every recorded start or resume of a position is acted on at most once,  *)
(* by one attempt: node code does not run without a record of its own that *)
(* it may have.                                                            *)
OneRunPerGrant ==
  \A p \in Positions :
    /\ \A i \in 1..Len(ran[p]) : ran[p][i] <= log.attempts[p].grants
    /\ \A i, j \in 1..Len(ran[p]) : ran[p][i] = ran[p][j] => i = j

(* Node code not bound retrySafe runs once, and once more only after a     *)
(* pause was recorded in between, that is after the host was asked.        *)
RerunOnlyAfterPause ==
  \A p \in Positions \ RetrySafe :
    Len(ran[p]) <= 1 + log.attempts[p].pauses

(* The receipts recorded for a position that is closed account for every   *)
(* engine call made for it: a call whose receipt was lost with its process *)
(* is covered by the receipt of unknown identity that recovery adds.       *)
ReceiptsCoverCalls ==
  \A p \in EnginePositions :
    log.attempts[p].status \in {"paused", "settled"} => called[p] <= log.attempts[p].seq

(* Under a process lock an attempt at work works on a position that is     *)
(* open in the record: nobody settled or paused it behind its back, and no *)
(* second attempt is at work on it.                                        *)
WorkIsOpen ==
  \A e \in Executors : \A k \in Live(e) :
    /\ log.attempts[k[1]].status = "in-flight"
    /\ \A x \in Executors : \A h \in Live(x) : h[1] = k[1] => x = e /\ h = k

(* A run that was reported complete or failed stays as it was reported:    *)
(* nobody who still has an executor on it records anything of its graph.   *)
FinalIsFinal ==
  [][(\E e \in Executors : outcome[e] \in {"complete", "fail"}) =>
       log' = [log EXCEPT !.rev = log'.rev]]_vars

(* The host is told how its run ended: complete or failed, not waiting for *)
(* ever and not rejected for ever.                                         *)
RunConcludes == <>(\E e \in Executors : outcome[e] \in {"complete", "fail"})
=============================================================================
