------------------------ MODULE GraphExecutorProofs ------------------------
(***************************************************************************)
(* Theorems about GraphExecutor, for every number of executors and          *)
(* positions and every bound.  For every graph (every Reduce, ReduceAll and *)
(* Decide): every value has its type; what is stored of a run folds         *)
(* (LogFolds); a worker runs at most once for a grant to run                *)
(* (OneRunPerGrant) and again only when its attempt was resumed             *)
(* (RerunOnlyAfterPause); under a process lock work is on open positions    *)
(* (WorkIsOpen) and receipts cover calls (ReceiptsCoverCalls).  With a dag  *)
(* for its graph it implements DagRun, and what was reported final stays.   *)
(*                                                                          *)
(* The argument: an executor decides on the log it read (ReadIsPast), and   *)
(* appends at the revision it read, so that what it appends was decided on  *)
(* the log it is appended to (StreamInv). A grant is held by one attempt of *)
(* one executor and used once, and the runs of a position are of different  *)
(* grants it was given (GrantInv).  Under the lock an attempt at work knows *)
(* every call made for its position and every receipt of one (HeldInv).     *)
(* What is recorded tells the graph of the dispatch it asked for or of one  *)
(* outcome (Told), which is a step of DagRun.  The record and the dag agree *)
(* on what is open (IsLinked), so that nothing is open when the dag ended,  *)
(* and whoever reports an end reports that of the log (FinalInv).           *)
(***************************************************************************)
EXTENDS DagExecutor, FiniteSetTheorems, TLAPS

(* Folding events into a log, whether the fold accepts them or not, gives  *)
(* a log.                                                                  *)
LEMMA FoldsAreLogs ==
  ASSUME NEW f, IsLog(f), NEW p \in Positions, NEW n \in Nat, NEW type, NEW r
  PROVE  /\ IsLog(FoldStart(f, p))
         /\ IsLog(FoldReceipt(f, p, n)) /\ IsLog(FoldResume(f, p))
         /\ IsLog(FoldPause(f, p)) /\ IsLog(FoldSettle(f, p, type, r))
<1>1. f.attempts[p] \in Attempt
  BY DEF IsLog
<1>1a. f.attempts[p].grants + 1 \in Nat /\ f.attempts[p].pauses + 1 \in Nat
  BY <1>1 DEF Attempt
<1>2. IsLog([f EXCEPT !.valid = FALSE])
  BY DEF IsLog
<1>4. IsLog(FoldStart(f, p))
  <2>1. ASSUME NEW b \in BOOLEAN
        PROVE  [f.attempts[p] EXCEPT !.started = TRUE, !.retrySafe = b,
                                     !.grants = f.attempts[p].grants + 1] \in Attempt
    BY <1>1, <1>1a DEF Attempt
  <2>2. [f.attempts[p] EXCEPT !.started = TRUE, !.retrySafe = p \in RetrySafe,
                              !.grants = f.attempts[p].grants + 1] \in Attempt
    <3>1. (p \in RetrySafe) \in BOOLEAN
      OBVIOUS
    <3>2. QED
      BY <2>1, <3>1, Zenon
  <2>3. QED
    BY <1>2, <2>2 DEF FoldStart, Fold, IsLog
<1>5. IsLog(FoldReceipt(f, p, n))
  BY <1>1, <1>2 DEF FoldReceipt, Fold, IsLog, Attempt
<1>6. IsLog(FoldResume(f, p))
  <2>1. [f.attempts[p] EXCEPT !.status = "in-flight", !.grants = f.attempts[p].grants + 1] \in Attempt
    BY <1>1, <1>1a DEF Attempt, Statuses
  <2>2. QED
    BY <1>2, <2>1 DEF FoldResume, Fold, IsLog
<1>7. IsLog(FoldPause(f, p))
  <2>1. [f.attempts[p] EXCEPT !.status = "paused", !.pauses = f.attempts[p].pauses + 1] \in Attempt
    BY <1>1, <1>1a DEF Attempt, Statuses
  <2>2. QED
    BY <1>2, <2>1 DEF FoldPause, Fold, IsLog
<1>8. IsLog(FoldSettle(f, p, type, r))
  <2>1. [f.attempts[p] EXCEPT !.status = "settled"] \in Attempt
    BY <1>1 DEF Attempt, Statuses
  <2>2. QED
    BY <1>2, <2>1 DEF FoldSettle, Fold, IsLog
<1>9. QED
  BY <1>4, <1>5, <1>6, <1>7, <1>8

(* Folding the dispatches of one decision gives a log.                      *)
LEMMA DispatchesAreLogs ==
  ASSUME NEW f, IsLog(f), NEW P
  PROVE  IsLog(FoldDispatches(f, P))
<1>1. IsLog([f EXCEPT !.valid = FALSE])
  BY DEF IsLog
<1>2. QED
  BY <1>1 DEF FoldDispatches, Fold, IsLog, Attempt, NoAttempt, Statuses

-----------------------------------------------------------------------------
(* TypeOK in the parts that actions leave alone or change together.  To    *)
(* be inductive it must add that a resume under way has a position.        *)
StreamTyped  == IsLog(log) /\ appendRev \in [Executors -> Nat] /\ faults \in Nat
(* Of an executor: what it read, where it stands, and what it resumes.      *)
ControlTyped ==
  /\ snap = [e \in Executors |-> snap[e]] /\ \A e \in Executors : IsLog(snap[e])
  /\ up \in [Executors -> BOOLEAN] /\ running \in [Executors -> BOOLEAN]
  /\ target \in [Executors -> Positions \cup {NoPosition}]
  /\ pc \in [Executors -> {"idle", "read", "fold", "dispatch", "reconcile", "resume", "await"}]
  /\ outcome = [e \in Executors |-> outcome[e]]
  /\ \A e \in Executors : pc[e] \in {"reconcile", "resume"} => target[e] \in Positions
TasksTyped   == task \in [Executors -> [Positions \X Slots -> Task]]
(* The counts of what happened.                                             *)
HistoryTyped ==
  /\ ran \in [Positions -> Seq(Nat)] /\ called \in [Positions -> Nat]
  /\ crashes \in Nat /\ waits \in Nat /\ others \in Nat

(* TypeOK, with the position of a resume.                                   *)
AllTyped == StreamTyped /\ ControlTyped /\ TasksTyped /\ HistoryTyped

(* The parts make up TypeOK.                                                *)
LEMMA TypeParts == AllTyped => TypeOK
  BY DEF TypeOK, AllTyped, StreamTyped, ControlTyped, TasksTyped, HistoryTyped

(* The stream of a run nobody started is a log.                             *)
LEMMA EmptyLogIsLog == IsLog(EmptyLog)
  BY DEF EmptyLog, NoAttempt, IsLog, Attempt, Statuses

(* An append, whatever comes of it, leaves a log.                          *)
LEMMA AppendTypes ==
  ASSUME StreamTyped, NEW e \in Executors, NEW f, IsLog(f), NEW x,
         Commits(e, x, f) \/ Throws(x, f)
  PROVE  StreamTyped'
<1>1. log.rev + 1 \in Nat
  BY DEF StreamTyped, IsLog
<1>2. IsLog(Stored(f))
  BY <1>1 DEF Stored, IsLog
<1>3. QED
  BY <1>1, <1>2 DEF Commits, Throws, Conflicts, StorageFails, StreamTyped

(* An executor that leaves, moves on or stays put keeps its types.          *)
LEMMA ControlTypes ==
  ASSUME ControlTyped, NEW e \in Executors, NEW how,
         NEW place \in {"read", "dispatch", "reconcile", "resume", "await"},
         NEW t \in Positions \cup {NoPosition},
         place \in {"reconcile", "resume"} => t \in Positions,
         Leave(e, how) \/ At(e, place, t) \/ UNCHANGED exec
  PROVE  ControlTyped'
<1>1. IsLog(EmptyLog)
  BY EmptyLogIsLog
<1>2. CASE Leave(e, how)
  BY <1>1, <1>2 DEF Leave, ControlTyped
<1>3. CASE At(e, place, t)
  BY <1>1, <1>3 DEF At, ControlTyped
<1>4. CASE UNCHANGED exec
  BY <1>4 DEF exec, ControlTyped
<1>5. QED
  BY <1>2, <1>3, <1>4

(* A new attempt is one.                                                    *)
LEMMA NewTaskIsTask ==
  ASSUME NEW step \in Steps, NEW grant \in Nat, NEW n \in Nat
  PROVE  NewTask(step, grant, n) \in Task /\ NoTask \in Task
  BY DEF NewTask, NoTask, Task, Steps, Outs

(* Replacing one attempt keeps the type of all.                             *)
LEMMA SetTaskTypes ==
  ASSUME TasksTyped, NEW e \in Executors, NEW k \in Positions \X Slots, NEW t \in Task,
         SetTask(e, k, t)
  PROVE  TasksTyped'
  BY DEF TasksTyped, SetTask

(* So does setting attempts going.                                          *)
LEMMA SpawnTypes ==
  ASSUME TasksTyped, NEW e \in Executors, NEW tasks,
         \A p \in DOMAIN tasks : tasks[p] \in Task, Spawns(e, tasks)
  PROVE  TasksTyped'
  BY DEF TasksTyped, Spawns

(* An attempt that throws leaves the others, and its executor, of their     *)
(* types.                                                                   *)
LEMMA TaskThrowsTypes ==
  ASSUME TasksTyped, ControlTyped, NEW e \in Executors, NEW k \in Positions \X Slots,
         TaskThrows(e, k)
  PROVE  TasksTyped' /\ ControlTyped'
<1>1. NoTask \in Task
  BY DEF NoTask, Task, Steps, Outs
<1>2. [task[e] EXCEPT ![k] = NoTask] \in [Positions \X Slots -> Task]
  BY <1>1 DEF TasksTyped
<1>3. Disowned([task[e] EXCEPT ![k] = NoTask]) \in [Positions \X Slots -> Task]
  BY <1>2 DEF Disowned, Task
<1>4. TasksTyped'
  BY <1>2, <1>3 DEF TaskThrows, TasksTyped
<1>5. ControlTyped'
  BY ControlTypes DEF TaskThrows, Rejects
<1>6. QED
  BY <1>4, <1>5

(* An append by an attempt keeps all types, whatever comes of it.           *)
LEMMA TaskAppendsTypes ==
  ASSUME StreamTyped, TasksTyped, ControlTyped, NEW e \in Executors,
         NEW k \in Positions \X Slots, NEW f, IsLog(f), NEW t \in Task,
         TaskAppends(e, k, f, t)
  PROVE  StreamTyped' /\ TasksTyped' /\ ControlTyped'
<1>1. CASE Commits(e, appendRev[e], f) /\ SetTask(e, k, t) /\ UNCHANGED exec
  BY <1>1, AppendTypes, SetTaskTypes, ControlTypes
<1>2. CASE Throws(appendRev[e], f) /\ TaskThrows(e, k)
  BY <1>2, AppendTypes, TaskThrowsTypes
<1>3. QED
  BY <1>1, <1>2 DEF TaskAppends

(* Every step of an attempt keeps all types.                                *)
LEMMA TaskStepTypes ==
  ASSUME AllTyped, NEW e \in Executors, NEW k \in Positions \X Slots, TaskStep(e, k)
  PROVE  AllTyped'
<1> USE DEF AllTyped
<1> DEFINE t == task[e][k]
<1>1. k[1] \in Positions /\ t \in Task /\ IsLog(log) /\ log.attempts[k[1]] \in Attempt
  BY DEF TasksTyped, StreamTyped, IsLog
<1>2. t.seq + 1 \in Nat /\ log.attempts[k[1]].grants + 1 \in Nat
  BY <1>1 DEF Task, Attempt
<1>3. NoTask \in Task
  BY NewTaskIsTask DEF Steps
<1>4. ASSUME HistoryTyped, CallEngine(e, k)
      PROVE  called' \in [Positions -> Nat]
  BY <1>1, <1>4 DEF CallEngine, HistoryTyped
<1>5. CASE AppendStart(e, k)
  <2>1. [t EXCEPT !.step = "ready", !.grant = log.attempts[k[1]].grants + 1] \in Task
    BY <1>1, <1>2 DEF Task, Steps
  <2>2. IsLog(FoldStart(log, k[1]))
    BY <1>1, FoldsAreLogs
  <2>3. StreamTyped' /\ TasksTyped' /\ ControlTyped'
    BY <1>5, <2>1, <2>2, TaskAppendsTypes DEF AppendStart
  <2>4. QED
    BY <1>5, <2>3 DEF AppendStart, HistoryTyped
<1>6. CASE SkipRun(e, k)
  <2>1. /\ [t EXCEPT !.step = "result", !.out = "failed"] \in Task
        /\ [t EXCEPT !.step = "result", !.out = "paused"] \in Task
    BY <1>1 DEF Task, Steps, Outs
  <2>2. TasksTyped'
    BY <1>6, <2>1, SetTaskTypes DEF SkipRun
  <2>3. QED
    BY <1>6, <2>2 DEF SkipRun, exec, StreamTyped, ControlTyped, HistoryTyped
<1>7. CASE Invoke(e, k)
  <2>1. [t EXCEPT !.step = "run", !.calls = 1] \in Task
    BY <1>1 DEF Task, Steps
  <2>2. TasksTyped'
    BY <1>7, <2>1, SetTaskTypes DEF Invoke
  <2>3. HistoryTyped'
    BY <1>1, <1>4, <1>7 DEF Invoke, HistoryTyped, spent, Task
  <2>4. QED
    BY <1>7, <2>2, <2>3 DEF Invoke, exec, spent, StreamTyped, ControlTyped
<1>8. CASE RunReturns(e, k)
  <2>1. ASSUME NEW out \in {"completed", "failed"}
        PROVE  [t EXCEPT !.step = IF IsEngine(k) THEN "receipt" ELSE "result", !.out = out] \in Task
    BY <1>1 DEF Task, Steps, Outs
  <2>2. TasksTyped'
    BY <1>8, <2>1, SetTaskTypes DEF RunReturns
  <2>3. QED
    BY <1>8, <2>2 DEF RunReturns, exec, spent, StreamTyped, ControlTyped, HistoryTyped
<1>9. CASE AppendReceipt(e, k)
  <2>1. PICK step \in {"result", "fact"} :
          TaskAppends(e, k, FoldReceipt(log, k[1], t.seq + 1), [t EXCEPT !.step = step, !.seq = @ + 1])
    BY <1>9 DEF AppendReceipt
  <2>2. [t EXCEPT !.step = step, !.seq = @ + 1] \in Task
    BY <1>1, <1>2 DEF Task, Steps
  <2>3. IsLog(FoldReceipt(log, k[1], t.seq + 1))
    BY <1>1, <1>2, FoldsAreLogs
  <2>4. StreamTyped' /\ TasksTyped' /\ ControlTyped'
    BY <2>1, <2>2, <2>3, TaskAppendsTypes
  <2>5. QED
    BY <1>9, <2>4 DEF AppendReceipt, HistoryTyped
<1>10. CASE AppendFact(e, k)
  <2>1. /\ [t EXCEPT !.step = "run", !.calls = 2] \in Task
        /\ [t EXCEPT !.step = "result"] \in Task
    BY <1>1 DEF Task, Steps
  <2>2. StreamTyped'
    BY <1>1, <1>10, AppendTypes DEF AppendFact
  <2>3. TasksTyped'
    BY <1>10, <2>1, SetTaskTypes DEF AppendFact
  <2>4. QED
    BY <1>4, <1>10, <2>2, <2>3 DEF AppendFact, exec, ControlTyped, HistoryTyped
<1>11. CASE AppendOutcome(e, k)
  <2>1. PICK f : IsLog(f) /\ TaskAppends(e, k, f, NoTask)
    BY <1>1, <1>11, FoldsAreLogs DEF AppendOutcome
  <2>2. StreamTyped' /\ TasksTyped' /\ ControlTyped'
    BY <1>3, <2>1, TaskAppendsTypes
  <2>3. QED
    BY <1>11, <2>2 DEF AppendOutcome, HistoryTyped
<1>12. QED
  BY <1>5, <1>6, <1>7, <1>8, <1>9, <1>10, <1>11 DEF TaskStep

(* Every step of an operation keeps all types.                              *)
LEMMA OperationStepTypes ==
  ASSUME AllTyped, NEW e \in Executors, OperationStep(e)
  PROVE  AllTyped'
<1> USE DEF AllTyped
<1>1. IsLog(log) /\ IsLog(snap[e]) /\ target[e] \in Positions \cup {NoPosition}
  BY DEF StreamTyped, ControlTyped
<1>2. ASSUME NEW p \in Positions
      PROVE  snap[e].attempts[p] \in Attempt /\ log.attempts[p] \in Attempt
  BY <1>1 DEF IsLog
<1>3. ASSUME Folds(e), UNCHANGED <<log, spent>>
      PROVE  StreamTyped'
  BY <1>1, <1>3 DEF Folds, StreamTyped, IsLog, spent
<1>4. ASSUME NEW p \in Positions, target[e] = p
      PROVE  IsLog(WithRecovery(e, p)) /\ SeqAfter(e, p) \in Nat
  <2>1. snap[e].attempts[p].seq + 1 \in Nat /\ snap[e].attempts[p].seq \in Nat
    BY <1>2 DEF Attempt
  <2>2. QED
    BY <1>1, <2>1, FoldsAreLogs DEF WithRecovery, SeqAfter
<1>5. CASE Read(e)
  BY <1>1, <1>5 DEF Read, spent, StreamTyped, ControlTyped, TasksTyped, HistoryTyped
<1>6. CASE Decides(e)
  <2>1. StreamTyped' /\ TasksTyped' /\ HistoryTyped'
    BY <1>3, <1>6 DEF Decides, TasksTyped, HistoryTyped, spent
  <2>2. (\E how : Leave(e, how)) \/ At(e, "dispatch", NoPosition)
    BY <1>6 DEF Decides, Rejects
  <2>3. QED
    BY <2>1, <2>2, ControlTypes
<1>7. CASE AppendDispatch(e)
  <2>1. IsLog(FoldDispatches(log, Decided(e)))
    BY <1>1, DispatchesAreLogs
  <2>2. StreamTyped'
    BY <1>7, <2>1, AppendTypes DEF AppendDispatch, Throws
  <2>3. ControlTyped'
    BY <1>7, ControlTypes DEF AppendDispatch, Rejects
  <2>4. TasksTyped'
    <3>1. ASSUME NEW p
          PROVE  NewTask("start", 0, 0) \in Task
      BY NewTaskIsTask DEF Steps
    <3>2. QED
      BY <1>7, <3>1, SpawnTypes DEF AppendDispatch, TasksTyped
  <2>5. QED
    BY <1>7, <2>2, <2>3, <2>4 DEF AppendDispatch, HistoryTyped
<1>8. CASE DecidesResume(e)
  <2>1. target[e] \in Positions
    BY <1>1, <1>8 DEF DecidesResume
  <2>2. StreamTyped' /\ HistoryTyped'
    BY <1>3, <1>8 DEF DecidesResume, HistoryTyped, spent
  <2>3. ControlTyped'
    BY <1>8, <2>1, ControlTypes DEF DecidesResume, Rejects
  <2>4. NewTask("start", 0, snap[e].attempts[target[e]].seq) \in Task
    BY <1>2, <2>1, NewTaskIsTask DEF Steps, Attempt
  <2>5. TasksTyped'
    BY <1>8, <2>4, SpawnTypes DEF DecidesResume, TasksTyped
  <2>6. QED
    BY <2>2, <2>3, <2>5
<1>9. CASE AppendReconcile(e) /\ target[e] \in Positions
  <2>1. IsLog(FoldPause(WithRecovery(e, target[e]), target[e]))
    BY <1>4, <1>9, FoldsAreLogs
  <2>2. StreamTyped'
    BY <1>9, <2>1, AppendTypes DEF AppendReconcile
  <2>3. ControlTyped'
    BY <1>9, ControlTypes DEF AppendReconcile, Rejects
  <2>4. QED
    BY <1>9, <2>2, <2>3 DEF AppendReconcile, TasksTyped, HistoryTyped
<1>10. CASE AppendResume(e) /\ target[e] \in Positions
  <2> DEFINE p == target[e]
  <2>1. IsLog(FoldResume(WithRecovery(e, p), p))
    BY <1>4, <1>10, FoldsAreLogs
  <2>2. StreamTyped'
    BY <1>10, <2>1, AppendTypes DEF AppendResume
  <2>3. ControlTyped'
    BY <1>10, ControlTypes DEF AppendResume, Rejects
  <2>4. log.attempts[p].grants + 1 \in Nat /\ SeqAfter(e, p) \in Nat
    BY <1>2, <1>4, <1>10 DEF Attempt
  <2>5. ASSUME NEW step \in {"ready", "start"}
        PROVE  NewTask(step, log.attempts[p].grants + 1, SeqAfter(e, p)) \in Task
    BY <2>4, NewTaskIsTask DEF Steps
  <2>6. TasksTyped'
    BY <1>10, <2>5, SpawnTypes DEF AppendResume, TasksTyped
  <2>7. QED
    BY <1>10, <2>2, <2>3, <2>6 DEF AppendResume, HistoryTyped
<1>11. CASE Awaited(e)
  <2>1. ControlTyped'
    BY <1>11, ControlTypes DEF Awaited
  <2>2. QED
    BY <1>11, <2>1 DEF Awaited, spent, StreamTyped, TasksTyped, HistoryTyped
<1>12. pc[e] \in {"reconcile", "resume"} => target[e] \in Positions
  BY DEF ControlTyped
<1>13. QED
  BY <1>5, <1>6, <1>7, <1>8, <1>9, <1>10, <1>11, <1>12
  DEF OperationStep, AppendReconcile, AppendResume

(* Every step of the host, and a crash, keeps all types.                    *)
LEMMA HostStepTypes ==
  ASSUME AllTyped, NEW e \in Executors, HostStep(e)
  PROVE  AllTyped'
<1> USE DEF AllTyped
<1>1. NoTasks \in [Positions \X Slots -> Task] /\ EmptyLog.rev \in Nat /\ IsLog(EmptyLog)
  BY EmptyLogIsLog, NewTaskIsTask DEF NoTasks, EmptyLog, Steps
<1>2. ASSUME Gone(e), crashes' \in Nat
      PROVE  AllTyped'
  BY <1>1, <1>2 DEF Gone, StreamTyped, ControlTyped, TasksTyped, HistoryTyped
<1>3. CASE Create(e)
  BY <1>1, <1>3 DEF Create, spent, StreamTyped, ControlTyped, TasksTyped, HistoryTyped
<1>4. CASE Close(e)
  BY <1>2, <1>4 DEF Close, HistoryTyped
<1>5. CASE Crash(e)
  BY <1>2, <1>5 DEF Crash, HistoryTyped
<1>6. CASE Abort(e)
  <2>1. ControlTyped'
    BY <1>6, ControlTypes DEF Abort, Rejects
  <2>2. StreamTyped'
    BY <1>6 DEF Abort, StreamTyped
  <2>3. TasksTyped' /\ HistoryTyped'
    BY <1>6 DEF Abort, TasksTyped, HistoryTyped
  <2>4. QED
    BY <2>1, <2>2, <2>3
<1>7. ASSUME NEW t \in Positions \cup {NoPosition}, Call(e, t)
      PROVE  AllTyped'
  BY <1>7 DEF Call, spent, StreamTyped, ControlTyped, TasksTyped, HistoryTyped
<1>8. QED
  BY <1>3, <1>4, <1>5, <1>6, <1>7 DEF HostStep

(* The initial states have their types.                                     *)
LEMMA InitTypes == Init => AllTyped
<1> SUFFICES ASSUME Init PROVE AllTyped
  OBVIOUS
<1>1. NoTasks \in [Positions \X Slots -> Task] /\ EmptyLog.rev \in Nat /\ IsLog(EmptyLog)
  BY EmptyLogIsLog, NewTaskIsTask DEF NoTasks, EmptyLog, Steps
<1>2. QED
  BY <1>1 DEF Init, AllTyped, StreamTyped, ControlTyped, TasksTyped, HistoryTyped

(* Every step keeps them.                                                   *)
LEMMA NextTypes == AllTyped /\ [Next]_vars => AllTyped'
<1> SUFFICES ASSUME AllTyped, [Next]_vars PROVE AllTyped'
  OBVIOUS
<1>1. CASE UNCHANGED vars
  BY <1>1 DEF vars, exec, spent, AllTyped, StreamTyped, ControlTyped, TasksTyped, HistoryTyped
<1>2. CASE OtherAppends
  <2>1. log.rev + 1 \in Nat /\ IsLog(log)
    BY DEF AllTyped, StreamTyped, IsLog
  <2>2. IsLog(log)'
    BY <1>2, <2>1 DEF OtherAppends, Stored, IsLog
  <2>3. ControlTyped'
    BY <1>2 DEF OtherAppends, exec, AllTyped, ControlTyped
  <2>4. StreamTyped' /\ TasksTyped'
    BY <1>2, <2>2 DEF OtherAppends, AllTyped, StreamTyped, TasksTyped
  <2>5. HistoryTyped'
    BY <1>2 DEF OtherAppends, AllTyped, HistoryTyped
  <2>6. QED
    BY <2>3, <2>4, <2>5 DEF AllTyped
<1>3. CASE Next
  BY <1>2, <1>3, HostStepTypes, OperationStepTypes, TaskStepTypes DEF Next
<1>4. QED
  BY <1>1, <1>3

(* All parts of the state always have their types.                          *)
LEMMA AlwaysTyped == Spec => []AllTyped
  BY InitTypes, NextTypes, PTL DEF Spec

(* The variables keep their types, whatever the graph operations return.   *)
THEOREM TypeCorrect == Spec => []TypeOK
  BY AlwaysTyped, TypeParts, PTL

-----------------------------------------------------------------------------
(* The stream folds.  What has to be known of an executor e: what it read  *)
(* is no newer than the stream, and is the stream if it is as new; what it *)
(* decided follows from what it read; it has attempts at work only when it *)
(* awaits them or has given up on them, one for a position; and as long as *)
(* nobody else wrote, what these hold agrees with the stream.              *)
Deciding == {"fold", "dispatch", "reconcile", "resume"}

Agrees(k, t) ==
  LET a == log.attempts[k[1]] IN
  /\ a.status = "in-flight"
  /\ a.started <=> t.step # "start"
  /\ a.seq = t.seq

ReadIsPast(e) == appendRev[e] <= log.rev /\ snap[e].rev <= log.rev

ReadIsFresh(e) == pc[e] \in Deciding /\ snap[e].rev = log.rev => snap[e] = log

DecisionFollows(e) ==
  /\ pc[e] = "dispatch" =>
       /\ Decide(snap[e].gstate).kind = "dispatch"
       /\ \A p \in Decided(e) : snap[e].attempts[p].status = "none"
  /\ pc[e] = "reconcile" => Uncertain(snap[e].attempts[target[e]])
  /\ pc[e] = "resume" =>
       LET a == snap[e].attempts[target[e]] IN
       a.status = "paused" \/ (Uncertain(a) /\ a.retrySafe)

WorkIsAwaited(e) ==
  /\ ~up[e] => pc[e] = "idle" /\ Live(e) = {}
  /\ pc[e] = "read" \/ pc[e] \in Deciding => Live(e) = {}
  /\ pc[e] = "await" => Live(e) = Foreground(e)

WorkIsInStep(e) ==
  /\ appendRev[e] = log.rev => \A k \in Live(e) : Agrees(k, task[e][k])
  /\ \A h, k \in Live(e) : h[1] = k[1] => h = k
  /\ \A k \in Live(e) : task[e][k].step \in {"receipt", "fact"} => k[1] \in EnginePositions

(* An executor in step with the stream.                                     *)
InStep(e) == ReadIsPast(e) /\ ReadIsFresh(e) /\ DecisionFollows(e) /\ WorkIsAwaited(e) /\ WorkIsInStep(e)

(* The invariant of the stream.                                             *)
StreamInv == LogFolds /\ log.rev >= 1 /\ \A e \in Executors : InStep(e)

(* g is f after an accepted event for p.                                   *)
Extends(f, g, p) ==
  /\ IsLog(g) /\ g.valid
  /\ \A q \in Positions \ {p} : g.attempts[q] = f.attempts[q]

(* The fold accepts the start of a dispatched attempt that was not started. *)
LEMMA StartAccepted ==
  ASSUME NEW f, IsLog(f), f.valid, NEW p \in Positions,
         f.attempts[p].status = "in-flight", ~f.attempts[p].started
  PROVE  LET g == FoldStart(f, p) IN
         /\ Extends(f, g, p)
         /\ g.attempts[p].status = "in-flight" /\ g.attempts[p].started
         /\ g.attempts[p].seq = f.attempts[p].seq
         /\ g.attempts[p].grants = f.attempts[p].grants + 1
<1>1. IsLog(FoldStart(f, p)) /\ f.attempts[p] \in Attempt
  BY FoldsAreLogs, 0 \in Nat DEF IsLog
<1>2. FoldStart(f, p) = [f EXCEPT !.attempts[p] = [f.attempts[p] EXCEPT
         !.started = TRUE, !.retrySafe = p \in RetrySafe, !.grants = f.attempts[p].grants + 1]]
  BY DEF FoldStart, Fold
<1>3. QED
  BY <1>1, <1>2 DEF Extends, IsLog, Attempt

(* It accepts the next receipt of a started attempt of an engine node.      *)
LEMMA ReceiptAccepted ==
  ASSUME NEW f, IsLog(f), f.valid, NEW p \in EnginePositions,
         f.attempts[p].status = "in-flight", f.attempts[p].started
  PROVE  LET g == FoldReceipt(f, p, f.attempts[p].seq + 1) IN
         /\ Extends(f, g, p)
         /\ g.attempts[p].status = "in-flight" /\ g.attempts[p].started
         /\ g.attempts[p].seq = f.attempts[p].seq + 1
         /\ g.attempts[p].grants = f.attempts[p].grants
<1>1. p \in Positions /\ f.attempts[p].seq + 1 \in Nat
  BY EnginePositionsArePositions DEF IsLog, Attempt
<1>2. IsLog(FoldReceipt(f, p, f.attempts[p].seq + 1))
  BY <1>1, FoldsAreLogs
<1>3. QED
  BY <1>1, <1>2 DEF FoldReceipt, Fold, Extends, IsLog, Attempt

(* It accepts the resume of a paused or uncertain attempt.                  *)
LEMMA ResumeAccepted ==
  ASSUME NEW f, IsLog(f), f.valid, NEW p \in Positions,
         f.attempts[p].status = "paused" \/ Uncertain(f.attempts[p])
  PROVE  LET g == FoldResume(f, p) IN
         /\ Extends(f, g, p)
         /\ g.attempts[p].status = "in-flight" /\ g.attempts[p].started = f.attempts[p].started
         /\ g.attempts[p].seq = f.attempts[p].seq
         /\ g.attempts[p].grants = f.attempts[p].grants + 1
<1>1. IsLog(FoldResume(f, p)) /\ f.attempts[p] \in Attempt
  BY FoldsAreLogs, 0 \in Nat DEF IsLog
<1>2. FoldResume(f, p) = [f EXCEPT
         !.gstate = Reduce(f.gstate, Event("node-resumed", p, "none")),
         !.attempts[p] = [f.attempts[p] EXCEPT !.status = "in-flight",
                                               !.grants = f.attempts[p].grants + 1]]
  BY DEF FoldResume, Fold, Uncertain
<1>3. QED
  BY <1>1, <1>2 DEF Extends, IsLog, Attempt

(* It accepts the pause and the end of an attempt in flight.                *)
LEMMA EndAccepted ==
  ASSUME NEW f, IsLog(f), f.valid, NEW p \in Positions, f.attempts[p].status = "in-flight",
         NEW type, NEW r
  PROVE  /\ Extends(f, FoldPause(f, p), p) /\ Extends(f, FoldSettle(f, p, type, r), p)
         /\ FoldPause(f, p).attempts[p].status # "none"
         /\ FoldPause(f, p).attempts[p].grants = f.attempts[p].grants
         /\ FoldPause(f, p).attempts[p].status # "in-flight"
         /\ FoldPause(f, p).attempts[p].seq = f.attempts[p].seq
         /\ FoldSettle(f, p, type, r).attempts[p].status # "none"
         /\ FoldSettle(f, p, type, r).attempts[p].grants = f.attempts[p].grants
         /\ FoldSettle(f, p, type, r).attempts[p].status # "in-flight"
         /\ FoldSettle(f, p, type, r).attempts[p].seq = f.attempts[p].seq
<1>1. IsLog(FoldPause(f, p)) /\ IsLog(FoldSettle(f, p, type, r))
  BY FoldsAreLogs, 0 \in Nat
<1>2. QED
  BY <1>1 DEF FoldPause, FoldSettle, Fold, Extends, IsLog, Attempt

(* It accepts the dispatch of what the graph decided and nobody dispatched. *)
LEMMA DispatchAccepted ==
  ASSUME NEW f, IsLog(f), f.valid, Decide(f.gstate).kind = "dispatch",
         NEW P, P = Decide(f.gstate).positions, \A p \in P : f.attempts[p].status = "none"
  PROVE  LET g == FoldDispatches(f, P) IN
         /\ IsLog(g) /\ g.valid
         /\ \A p \in Positions :
              IF p \in P THEN g.attempts[p] = [NoAttempt EXCEPT !.status = "in-flight"]
                         ELSE g.attempts[p] = f.attempts[p]
<1>1. IsLog(FoldDispatches(f, P))
  BY DispatchesAreLogs
<1>2. FoldDispatches(f, P) = [f EXCEPT
         !.gstate = ReduceAll(f.gstate, P),
         !.attempts = [p \in Positions |->
            IF p \in P THEN [NoAttempt EXCEPT !.status = "in-flight"] ELSE f.attempts[p]]]
  BY DEF FoldDispatches, Fold
<1>3. FoldDispatches(f, P).attempts = [p \in Positions |->
         IF p \in P THEN [NoAttempt EXCEPT !.status = "in-flight"] ELSE f.attempts[p]]
  BY <1>2 DEF IsLog
<1>4. FoldDispatches(f, P).valid
  BY <1>2 DEF IsLog
<1>5. QED
  BY <1>1, <1>3, <1>4

(* What an executor does is none of another executor's concern, as long as *)
(* the stream it may change only grows.                                    *)
Idle(e) == UNCHANGED <<up[e], pc[e], target[e], snap[e], appendRev[e], task[e]>>

Grows == log' = log \/ log'.rev = log.rev + 1

(* An executor that did nothing is in step with a stream that stands still  *)
(* or grew.                                                                 *)
LEMMA OthersInStep ==
  ASSUME AllTyped, NEW e \in Executors, InStep(e), Idle(e), Grows
  PROVE  InStep(e)'
<1>1. log.rev \in Nat /\ appendRev[e] \in Nat /\ snap[e].rev \in Nat
  BY DEF AllTyped, StreamTyped, ControlTyped, IsLog
<1>2. ReadIsPast(e)'
  BY <1>1 DEF InStep, ReadIsPast, Idle, Grows
<1>3. ReadIsFresh(e)'
  BY <1>1 DEF InStep, ReadIsPast, ReadIsFresh, Idle, Grows
<1>4. DecisionFollows(e)'
  BY DEF InStep, DecisionFollows, Decided, Idle
<1>5. WorkIsAwaited(e)'
  BY DEF InStep, WorkIsAwaited, Live, Foreground, Idle
<1>6. WorkIsInStep(e)'
  <2>1. Live(e)' = Live(e)
    BY DEF Live, Idle
  <2>2. CASE log' = log
    BY <2>1, <2>2 DEF InStep, WorkIsInStep, Agrees, Idle
  <2>3. CASE log'.rev = log.rev + 1
    <3>1. appendRev'[e] # log'.rev
      BY <1>1, <2>3 DEF InStep, ReadIsPast, Idle
    <3>2. QED
      BY <2>1, <3>1 DEF InStep, WorkIsInStep, Idle
  <2>4. QED
    BY <2>2, <2>3 DEF Grows
<1>7. QED
  BY <1>2, <1>3, <1>4, <1>5, <1>6 DEF InStep

(* An executor with attempts at work awaits them or has given up on them.  *)
LEMMA AtWork ==
  ASSUME AllTyped, NEW e \in Executors, InStep(e), Live(e) # {}
  PROVE  up[e] /\ pc[e] \in {"idle", "await"}
  BY DEF InStep, WorkIsAwaited, Deciding, AllTyped, ControlTyped

(* The append of an attempt, if what it records is acceptable as long as   *)
(* nobody else wrote, and t is what then becomes of the attempt.           *)
Fits(e, k, f, t) ==
  /\ t = NoTask \/ /\ t.step # "none" /\ t.fg = task[e][k].fg
                   /\ t.step \in {"receipt", "fact"} => k[1] \in EnginePositions
  /\ appendRev[e] = log.rev =>
       /\ Extends(log, f, k[1])
       /\ t = NoTask \/ /\ f.attempts[k[1]].status = "in-flight"
                        /\ f.attempts[k[1]].started <=> t.step # "start"
                        /\ f.attempts[k[1]].seq = t.seq

(* An attempt whose append committed is in step with the stream it          *)
(* extended.                                                                *)
LEMMA CommitInStep ==
  ASSUME AllTyped, LogFolds, NEW e \in Executors, NEW k \in Live(e), InStep(e),
         NEW f, NEW t \in Task, Fits(e, k, f, t),
         Commits(e, appendRev[e], f), SetTask(e, k, t), UNCHANGED exec
  PROVE  InStep(e)' /\ LogFolds' /\ Grows
<1>1. up[e] /\ pc[e] \in {"idle", "await"} /\ k \in Positions \X Slots
  BY AtWork DEF Live
<1>2. log.rev \in Nat /\ snap[e].rev \in Nat /\ Extends(log, f, k[1])
  BY DEF AllTyped, StreamTyped, ControlTyped, IsLog, Fits, Commits
<1>3. /\ log'.rev = log.rev + 1 /\ log'.valid /\ log'.attempts = f.attempts
      /\ appendRev'[e] = log.rev + 1
  BY <1>2 DEF Commits, Stored, Extends, IsLog, AllTyped, StreamTyped
<1>4. /\ task'[e][k] = t
      /\ \A h \in Positions \X Slots : h # k => task'[e][h] = task[e][h]
  BY <1>1 DEF SetTask, AllTyped, TasksTyped
<1>5. /\ Live(e)' \subseteq Live(e)
      /\ k \in Live(e)' => t # NoTask
  BY <1>4 DEF Live, NoTask
<1>6. ReadIsPast(e)' /\ ReadIsFresh(e)' /\ DecisionFollows(e)'
  BY <1>1, <1>2, <1>3 DEF ReadIsPast, ReadIsFresh, DecisionFollows, Deciding, InStep, exec
<1>7. WorkIsAwaited(e)'
  <2>1. ASSUME pc[e] = "await", NEW h \in Live(e)'
        PROVE  task'[e][h].fg
    <3>1. task[e][h].fg
      BY <1>5, <2>1 DEF InStep, WorkIsAwaited, Foreground
    <3>2. h = k => t.fg
      BY <1>5, <2>1, <3>1 DEF Fits
    <3>3. QED
      BY <1>4, <3>1, <3>2 DEF Live
  <2>2. QED
    BY <1>1, <2>1 DEF WorkIsAwaited, Foreground, Deciding, exec
<1>8. WorkIsInStep(e)'
  <2>1. ASSUME NEW h \in Live(e)'
        PROVE  /\ (appendRev[e] = log.rev => Agrees(h, task[e][h])) /\ h \in Positions \X Slots
               /\ h # k => h[1] \in Positions \ {k[1]} /\ task'[e][h] = task[e][h]
    BY <1>4, <1>5 DEF InStep, WorkIsInStep, Live
  <2>2. ASSUME NEW h \in Live(e)'
        PROVE  Agrees(h, task[e][h])' \/ h = k
    BY <1>3, <1>2, <2>1 DEF Agrees, Extends, Commits
  <2>3. k \in Live(e)' => Agrees(k, task[e][k])'
    BY <1>3, <1>4, <1>5 DEF Agrees, Fits, Commits
  <2>4. ASSUME NEW h \in Live(e)', task'[e][h].step \in {"receipt", "fact"}
        PROVE  h[1] \in EnginePositions
    BY <1>4, <1>5, <2>1, <2>4 DEF InStep, WorkIsInStep, Fits
  <2>5. QED
    BY <1>5, <2>2, <2>3, <2>4 DEF WorkIsInStep, InStep
<1>9. QED
  BY <1>3, <1>6, <1>7, <1>8 DEF InStep, LogFolds, Grows

(* An executor whose attempt threw is in step, awaited or not.             *)
LEMMA ThrowInStep ==
  ASSUME AllTyped, LogFolds, NEW e \in Executors, NEW k \in Live(e), InStep(e),
         NEW f, appendRev[e] = log.rev => Extends(log, f, k[1]), log.rev >= 1,
         Throws(appendRev[e], f), TaskThrows(e, k)
  PROVE  InStep(e)' /\ LogFolds' /\ Grows
<1>1. up[e] /\ pc[e] \in {"idle", "await"} /\ k \in Positions \X Slots
  BY AtWork DEF Live
<1>2. log.rev \in Nat /\ appendRev[e] \in Nat /\ snap[e].rev \in Nat
  BY DEF AllTyped, StreamTyped, ControlTyped, IsLog
<1>3. /\ appendRev' = appendRev
      /\ log' = log \/ (log'.rev = log.rev + 1 /\ log'.valid)
  BY <1>2 DEF Throws, Conflicts, StorageFails, Stored, Extends, IsLog
<1>4. ASSUME NEW h \in Live(e)'
      PROVE  /\ h \in Live(e) /\ task'[e][h].step = task[e][h].step
             /\ task'[e][h].seq = task[e][h].seq
             /\ ~task[e][k].fg => task'[e][h].fg = task[e][h].fg
  <2>1. h \in Positions \X Slots /\ task'[e][h].step # "none"
    BY DEF Live
  <2>2. task[e][h] \in Task
    BY <2>1 DEF AllTyped, TasksTyped
  <2>3. task'[e][k].step = "none"
    BY <1>1 DEF TaskThrows, Disowned, NoTask, AllTyped, TasksTyped
  <2>4. h # k
    BY <2>1, <2>3
  <2>5. QED
    BY <1>1, <2>1, <2>2, <2>4 DEF TaskThrows, Disowned, Live, AllTyped, TasksTyped, Task
<1>5. up' = up /\ (task[e][k].fg => pc'[e] = "idle") /\ (~task[e][k].fg => UNCHANGED exec)
  BY DEF TaskThrows, Rejects, Leave, exec, AllTyped, ControlTyped
<1>6. ReadIsPast(e)' /\ ReadIsFresh(e)' /\ DecisionFollows(e)'
  <2>1. CASE task[e][k].fg
    <3>1. snap'[e] = EmptyLog /\ pc'[e] = "idle"
      BY <1>5, <2>1 DEF TaskThrows, Rejects, Leave, AllTyped, ControlTyped
    <3>2. QED
      BY <1>2, <1>3, <3>1 DEF InStep, ReadIsPast, ReadIsFresh, DecisionFollows, Deciding, EmptyLog
  <2>2. CASE ~task[e][k].fg
    BY <1>1, <1>2, <1>3, <1>5, <2>2
    DEF InStep, ReadIsPast, ReadIsFresh, DecisionFollows, Deciding, exec
  <2>3. QED
    BY <2>1, <2>2
<1>7. WorkIsAwaited(e)'
  <2>1. CASE task[e][k].fg
    BY <1>1, <1>5, <2>1 DEF WorkIsAwaited, Deciding
  <2>2. CASE ~task[e][k].fg
    <3>1. ASSUME NEW h \in Live(e)', pc[e] = "await"
          PROVE  task'[e][h].fg
      BY <1>4, <2>2, <3>1 DEF InStep, WorkIsAwaited, Foreground
    <3>2. QED
      BY <1>1, <1>5, <2>2, <3>1 DEF WorkIsAwaited, Deciding, Foreground, exec
  <2>3. QED
    BY <2>1, <2>2
<1>8. WorkIsInStep(e)'
  <2>1. ASSUME appendRev'[e] = log'.rev, NEW h \in Live(e)'
        PROVE  Agrees(h, task[e][h])'
    <3>1. log' = log /\ appendRev[e] = log.rev
      BY <1>2, <1>3, <2>1 DEF InStep, ReadIsPast
    <3>2. Agrees(h, task[e][h])
      BY <1>4, <2>1, <3>1 DEF InStep, WorkIsInStep
    <3>3. QED
      BY <1>4, <2>1, <3>1, <3>2 DEF Agrees
  <2>2. QED
    BY <1>4, <2>1 DEF WorkIsInStep, InStep
<1>9. QED
  BY <1>3, <1>6, <1>7, <1>8 DEF InStep, LogFolds, Grows

(* An append by an attempt is accepted by the fold and keeps its executor   *)
(* in step.                                                                 *)
LEMMA TaskAppendInStep ==
  ASSUME AllTyped, LogFolds, log.rev >= 1, NEW e \in Executors, NEW k \in Live(e), InStep(e),
         NEW f, NEW t \in Task, Fits(e, k, f, t), TaskAppends(e, k, f, t)
  PROVE  InStep(e)' /\ LogFolds' /\ Grows
  BY CommitInStep, ThrowInStep DEF TaskAppends, Fits

(* A step of an attempt that does not know of what became of the stream.   *)
LEMMA SetTaskInStep ==
  ASSUME AllTyped, NEW e \in Executors, NEW k \in Live(e), InStep(e), NEW t,
         t.fg = task[e][k].fg, t.seq = task[e][k].seq, task[e][k].step # "start",
         t.step \in {"run", "receipt", "result"},
         t.step = "receipt" => k[1] \in EnginePositions,
         SetTask(e, k, t), Grows, UNCHANGED <<exec, appendRev>>
  PROVE  InStep(e)'
<1>1. k \in Positions \X Slots /\ pc[e] \in {"idle", "await"}
  BY AtWork DEF Live
<1>1a. log.rev \in Nat /\ appendRev[e] \in Nat /\ snap[e].rev \in Nat
  BY DEF AllTyped, StreamTyped, ControlTyped, IsLog
<1>2. /\ task'[e][k] = t
      /\ \A h \in Positions \X Slots : h # k => task'[e][h] = task[e][h]
  BY <1>1 DEF SetTask, AllTyped, TasksTyped
<1>3. Live(e)' = Live(e)
  BY <1>1, <1>2 DEF Live
<1>4. ReadIsPast(e)' /\ ReadIsFresh(e)' /\ DecisionFollows(e)'
  BY <1>1, <1>1a DEF InStep, ReadIsPast, ReadIsFresh, DecisionFollows, Deciding, Grows, exec
<1>5. WorkIsAwaited(e)'
  <2>1. \A h \in Live(e) : task'[e][h].fg = task[e][h].fg
    BY <1>2 DEF Live
  <2>2. QED
    BY <1>3, <2>1 DEF InStep, WorkIsAwaited, Foreground, exec
<1>6. WorkIsInStep(e)'
  <2>1. ASSUME appendRev'[e] = log'.rev, NEW h \in Live(e)
        PROVE  Agrees(h, task[e][h])'
    <3>1. log' = log /\ appendRev[e] = log.rev
      BY <1>1a, <2>1 DEF InStep, ReadIsPast, Grows
    <3>2. Agrees(h, task[e][h])
      BY <2>1, <3>1 DEF InStep, WorkIsInStep
    <3>3. QED
      BY <1>2, <2>1, <3>1, <3>2 DEF Agrees, Live
  <2>2. ASSUME NEW h \in Live(e), task'[e][h].step \in {"receipt", "fact"}
        PROVE  h[1] \in EnginePositions
    BY <1>2, <2>2 DEF Live, InStep, WorkIsInStep
  <2>3. QED
    BY <1>3, <2>1, <2>2 DEF InStep, WorkIsInStep
<1>7. QED
  BY <1>4, <1>5, <1>6 DEF InStep

(* Every step of an attempt keeps the stream foldable and its executor in   *)
(* step.                                                                    *)
LEMMA TaskStepInStep ==
  ASSUME AllTyped, LogFolds, log.rev >= 1, NEW e \in Executors, NEW k \in Positions \X Slots,
         InStep(e), TaskStep(e, k)
  PROVE  InStep(e)' /\ LogFolds' /\ Grows
<1> DEFINE t == task[e][k]
<1>1. k[1] \in Positions /\ t \in Task /\ IsLog(log)
  BY DEF AllTyped, TasksTyped, StreamTyped
<1>1a. t.seq + 1 \in Nat /\ log.attempts[k[1]].grants + 1 \in Nat /\ NoTask \in Task
  BY <1>1 DEF Task, IsLog, Attempt, NoTask, Steps, Outs
<1>2. k \in Live(e) /\ t.step # "none"
  BY DEF TaskStep, AppendStart, SkipRun, Invoke, RunReturns, AppendReceipt, AppendFact,
         AppendOutcome, Live
<1>3. appendRev[e] = log.rev => Agrees(k, t)
  BY <1>2 DEF InStep, WorkIsInStep
<1>4. CASE AppendStart(e, k)
  <2> DEFINE u == [t EXCEPT !.step = "ready", !.grant = log.attempts[k[1]].grants + 1]
  <2>1. u \in Task /\ u.step = "ready" /\ u.fg = t.fg /\ u.seq = t.seq
    BY <1>1, <1>1a DEF Task, Steps
  <2>2. Fits(e, k, FoldStart(log, k[1]), u)
    BY <1>1, <1>3, <1>4, <2>1, StartAccepted DEF Fits, Agrees, AppendStart, LogFolds
  <2>3. QED
    BY <1>2, <1>4, <2>1, <2>2, TaskAppendInStep DEF AppendStart
<1>5. CASE SkipRun(e, k)
  BY <1>1, <1>2, <1>5, SetTaskInStep DEF SkipRun, LogFolds, Grows, Task
<1>6. CASE Invoke(e, k)
  BY <1>1, <1>2, <1>6, SetTaskInStep DEF Invoke, LogFolds, Grows, Task
<1>7. CASE RunReturns(e, k)
  BY <1>1, <1>2, <1>7, SetTaskInStep DEF RunReturns, IsEngine, LogFolds, Grows, Task
<1>8. CASE AppendReceipt(e, k)
  <2>1. PICK step \in {"result", "fact"} :
          TaskAppends(e, k, FoldReceipt(log, k[1], t.seq + 1), [t EXCEPT !.step = step, !.seq = @ + 1])
    BY <1>8 DEF AppendReceipt
  <2> DEFINE u == [t EXCEPT !.step = step, !.seq = @ + 1]
  <2>2. u \in Task /\ u.step = step /\ u.fg = t.fg /\ u.seq = t.seq + 1
    BY <1>1, <1>1a DEF Task, Steps
  <2>3. k[1] \in EnginePositions
    BY <1>2, <1>8 DEF AppendReceipt, InStep, WorkIsInStep
  <2>4. Fits(e, k, FoldReceipt(log, k[1], t.seq + 1), u)
    BY <1>1, <1>3, <1>8, <2>2, <2>3, ReceiptAccepted DEF Fits, Agrees, AppendReceipt, LogFolds
  <2>5. QED
    BY <1>2, <2>1, <2>2, <2>4, TaskAppendInStep
<1>9. CASE AppendFact(e, k)
  <2>1. PICK u \in {[t EXCEPT !.step = "run", !.calls = 2], [t EXCEPT !.step = "result"]} :
          /\ Commits(e, appendRev[e], log) \/ Throws(appendRev[e], log)
          /\ SetTask(e, k, u) /\ UNCHANGED exec
    BY <1>9 DEF AppendFact
  <2>2. /\ u \in Task /\ u.step \in {"run", "result"} /\ u.fg = t.fg /\ u.seq = t.seq
        /\ t.step = "fact"
    <3>1. CASE u = [t EXCEPT !.step = "run", !.calls = 2]
      BY <1>1, <1>9, <3>1 DEF Task, Steps, AppendFact
    <3>2. CASE u = [t EXCEPT !.step = "result"]
      BY <1>1, <1>9, <3>2 DEF Task, Steps, AppendFact
    <3>3. QED
      BY <2>1, <3>1, <3>2
  <2>3. CASE Commits(e, appendRev[e], log)
    <3>1. Fits(e, k, log, u)
      BY <1>1, <1>3, <2>2 DEF Fits, Extends, Agrees, LogFolds
    <3>2. QED
      BY <1>2, <2>1, <2>2, <2>3, <3>1, CommitInStep
  <2>4. CASE Throws(appendRev[e], log)
    <3>1. Grows /\ LogFolds' /\ appendRev' = appendRev
      BY <1>1, <2>4 DEF Throws, Conflicts, StorageFails, Stored, Grows, LogFolds, IsLog
    <3>2. QED
      BY <1>2, <2>1, <2>2, <3>1, SetTaskInStep
  <2>5. QED
    BY <2>1, <2>3, <2>4
<1>10. CASE AppendOutcome(e, k)
  <2>1. PICK f : /\ appendRev[e] = log.rev => Extends(log, f, k[1])
                 /\ TaskAppends(e, k, f, NoTask)
    BY <1>1, <1>3, <1>10, EndAccepted DEF AppendOutcome, Agrees, LogFolds
  <2>2. QED
    BY <1>1a, <1>2, <2>1, TaskAppendInStep DEF Fits
<1>11. QED
  BY <1>4, <1>5, <1>6, <1>7, <1>8, <1>9, <1>10 DEF TaskStep

(* The attempts that an executor without any sets going.                   *)
LEMMA SpawnInStep ==
  ASSUME AllTyped, NEW e \in Executors, Live(e) = {}, NEW tasks, Spawns(e, tasks),
         \A p \in DOMAIN tasks \cap Positions :
           /\ tasks[p].step \in {"start", "ready"} /\ tasks[p].fg
           /\ appendRev'[e] = log'.rev =>
                /\ log'.attempts[p].status = "in-flight"
                /\ log'.attempts[p].started <=> tasks[p].step # "start"
                /\ log'.attempts[p].seq = tasks[p].seq,
         up'[e], pc'[e] = "await", ReadIsPast(e)'
  PROVE  InStep(e)'
<1>1. PICK s \in Slots : task' = [task EXCEPT ![e] = [k \in Positions \X Slots |->
         IF k[1] \in DOMAIN tasks /\ k[2] = s THEN tasks[k[1]] ELSE @[k]]]
  BY DEF Spawns
<1>2. ASSUME NEW k \in Live(e)'
      PROVE  /\ k \in Positions \X Slots /\ k[1] \in DOMAIN tasks \cap Positions /\ k[2] = s
             /\ task'[e][k] = tasks[k[1]]
  BY <1>1, <1>2 DEF Live, AllTyped, TasksTyped
<1>3. ReadIsFresh(e)' /\ DecisionFollows(e)'
  BY DEF ReadIsFresh, DecisionFollows, Deciding
<1>4. WorkIsAwaited(e)'
  BY <1>2 DEF WorkIsAwaited, Foreground, Deciding
<1>5. WorkIsInStep(e)'
  <2>1. \A h, k \in Live(e)' : h[1] = k[1] => h = k
    BY <1>2
  <2>2. ASSUME appendRev'[e] = log'.rev, NEW k \in Live(e)'
        PROVE  Agrees(k, task[e][k])'
    BY <1>2, <2>2 DEF Agrees
  <2>3. \A k \in Live(e)' : task'[e][k].step \notin {"receipt", "fact"}
    BY <1>2
  <2>4. QED
    BY <2>1, <2>2, <2>3 DEF WorkIsInStep
<1>6. QED
  BY <1>3, <1>4, <1>5 DEF InStep

(* An executor without attempts that leaves its operation, or reads again. *)
LEMMA LeaveInStep ==
  ASSUME AllTyped, log.rev >= 1, NEW e \in Executors, InStep(e), Live(e) = {}, up[e], Grows,
         task' = task, appendRev'[e] \in Nat, appendRev'[e] <= log'.rev,
         (\E how : Leave(e, how)) \/ At(e, "read", NoPosition)
  PROVE  InStep(e)'
<1>1. Live(e)' = {}
  BY DEF Live
<1>2. snap'[e] = EmptyLog /\ up'[e] /\ pc'[e] \in {"idle", "read"}
  BY DEF Leave, At, AllTyped, ControlTyped
<1>3. log.rev \in Nat /\ EmptyLog.rev = 1
  BY DEF AllTyped, StreamTyped, IsLog, EmptyLog
<1>4. QED
  BY <1>1, <1>2, <1>3 DEF InStep, ReadIsPast, ReadIsFresh, DecisionFollows, WorkIsAwaited,
       WorkIsInStep, Deciding, Grows

(* A step that takes a decision, from attempts none to attempts none.      *)
LEMMA DecideInStep ==
  ASSUME AllTyped, NEW e \in Executors, InStep(e), Live(e) = {}, up[e],
         NEW place \in {"dispatch", "reconcile", "resume"},
         NEW t, pc[e] = "fold", At(e, place, t), log' = log, task' = task,
         appendRev'[e] <= log.rev, DecisionFollows(e)'
  PROVE  InStep(e)'
<1>1. Live(e)' = {}
  BY DEF Live
<1>2. snap' = snap /\ up'[e] /\ pc'[e] = place
  BY DEF At, AllTyped, ControlTyped
<1>3. QED
  BY <1>1, <1>2 DEF InStep, ReadIsPast, ReadIsFresh, WorkIsAwaited, WorkIsInStep, Deciding

(* The fold accepts the receipt that recovery adds for an uncertain         *)
(* attempt.                                                                 *)
LEMMA RecoveryAccepted ==
  ASSUME AllTyped, LogFolds, NEW e \in Executors, NEW p \in Positions, snap[e] = log
  PROVE  LET f == WithRecovery(e, p) IN
         /\ Extends(log, f, p)
         /\ f.attempts[p].status = log.attempts[p].status
         /\ f.attempts[p].started = log.attempts[p].started
         /\ f.attempts[p].seq = SeqAfter(e, p)
         /\ f.attempts[p].grants = log.attempts[p].grants
<1>1. IsLog(log) /\ log.valid /\ log.attempts[p] \in Attempt
  BY DEF AllTyped, StreamTyped, IsLog, LogFolds
<1>2. CASE Recovers(e, p)
  <2>1. p \in EnginePositions /\ log.attempts[p].status = "in-flight" /\ log.attempts[p].started
    BY <1>2 DEF Recovers, Uncertain
  <2>2. QED
    BY <1>1, <1>2, <2>1, ReceiptAccepted DEF WithRecovery, SeqAfter
<1>3. CASE ~Recovers(e, p)
  BY <1>1, <1>3 DEF WithRecovery, SeqAfter, Extends, Attempt
<1>4. QED
  BY <1>2, <1>3

(* Every step of an operation keeps the stream foldable and its executor in *)
(* step.                                                                    *)
LEMMA OperationStepInStep ==
  ASSUME AllTyped, LogFolds, log.rev >= 1, NEW e \in Executors, InStep(e), OperationStep(e)
  PROVE  InStep(e)' /\ LogFolds' /\ Grows
<1>1. /\ IsLog(log) /\ IsLog(snap[e]) /\ log.rev \in Nat /\ snap[e].rev \in Nat
      /\ appendRev[e] \in Nat /\ log.valid
  BY DEF AllTyped, StreamTyped, ControlTyped, IsLog, LogFolds
<1>2. pc[e] # "idle" /\ up[e] /\ (pc[e] # "await" => Live(e) = {})
  BY DEF OperationStep, Read, Decides, Folds, AppendDispatch, DecidesResume, AppendReconcile,
         AppendResume, Awaited, InStep, WorkIsAwaited, Deciding
<1>3. appendRev[e] <= log.rev /\ snap[e].rev <= log.rev
  BY DEF InStep, ReadIsPast
<1>4. ASSUME Folds(e)
      PROVE  /\ pc[e] = "fold" /\ Live(e) = {}
             /\ appendRev'[e] \in Nat /\ appendRev'[e] <= log.rev
             /\ snap[e].valid => appendRev'[e] = snap[e].rev
  BY <1>1, <1>2, <1>3, <1>4 DEF Folds, AllTyped, StreamTyped
<1>5. ASSUME pc[e] \in Deciding, snap[e].rev = log.rev
      PROVE  snap[e] = log
  BY <1>5 DEF InStep, ReadIsFresh
<1>6. ASSUME NEW f, snap[e].rev = log.rev => IsLog(f) /\ f.valid,
             Commits(e, snap[e].rev, f) \/ Throws(snap[e].rev, f)
      PROVE  /\ LogFolds' /\ Grows
             /\ appendRev'[e] \in Nat /\ appendRev'[e] <= log'.rev
  <2>1. CASE Commits(e, snap[e].rev, f)
    BY <1>1, <1>6, <2>1 DEF Commits, Stored, IsLog, LogFolds, Grows, AllTyped, StreamTyped
  <2>2. CASE Throws(snap[e].rev, f)
    BY <1>1, <1>3, <1>6, <2>2 DEF Throws, Conflicts, StorageFails, Stored, IsLog, LogFolds, Grows
  <2>3. QED
    BY <1>6, <2>1, <2>2
<1>7. CASE Read(e)
  <2>1. snap'[e] = log /\ pc'[e] = "fold" /\ Live(e)' = {}
    BY <1>2, <1>7 DEF Read, Live, AllTyped, ControlTyped
  <2>2. QED
    BY <1>1, <1>2, <1>3, <1>7, <2>1 DEF Read, InStep, ReadIsPast, ReadIsFresh, DecisionFollows,
         WorkIsAwaited, WorkIsInStep, Deciding, LogFolds, Grows
<1>8. CASE Decides(e)
  <2>1. (\E how : Leave(e, how)) \/ (At(e, "dispatch", NoPosition) /\ snap[e].valid
          /\ Decide(snap[e].gstate).kind = "dispatch" /\ Opens(snap[e], Decided(e)))
    BY <1>8 DEF Decides, Rejects, Decided
  <2>2. CASE At(e, "dispatch", NoPosition) /\ snap[e].valid
               /\ Decide(snap[e].gstate).kind = "dispatch" /\ Opens(snap[e], Decided(e))
    <3>1. DecisionFollows(e)'
      BY <2>2 DEF DecisionFollows, At, Opens, Decided, AllTyped, ControlTyped
    <3>2. QED
      BY <1>2, <1>4, <1>8, <2>2, <3>1, DecideInStep DEF Decides, LogFolds, Grows
  <2>3. CASE \E how : Leave(e, how)
    BY <1>2, <1>4, <1>8, <2>3, LeaveInStep DEF Decides, LogFolds, Grows
  <2>4. QED
    BY <2>1, <2>2, <2>3
<1>9. CASE AppendDispatch(e)
  <2> DEFINE f == FoldDispatches(log, Decided(e))
  <2>1. ASSUME snap[e].rev = log.rev
        PROVE  /\ snap[e] = log /\ IsLog(f) /\ f.valid
               /\ \A p \in Positions : IF p \in Decided(e)
                    THEN f.attempts[p] = [NoAttempt EXCEPT !.status = "in-flight"]
                    ELSE f.attempts[p] = log.attempts[p]
    <3>1. snap[e] = log
      BY <1>5, <1>9, <2>1 DEF AppendDispatch, Deciding
    <3>2. /\ Decide(log.gstate).kind = "dispatch" /\ Decided(e) = Decide(log.gstate).positions
          /\ \A p \in Decided(e) : log.attempts[p].status = "none"
      BY <1>9, <3>1 DEF AppendDispatch, InStep, DecisionFollows, Decided
    <3>3. QED
      BY <1>1, <3>1, <3>2, DispatchAccepted
  <2>2. CASE Commits(e, snap[e].rev, f) /\ Spawns(e, [p \in Decided(e) |-> NewTask("start", 0, 0)])
             /\ At(e, "await", NoPosition)
    <3>1. /\ snap[e].rev = log.rev /\ log'.attempts = f.attempts /\ log'.rev = log.rev + 1
          /\ appendRev'[e] = log'.rev
      BY <1>1, <2>1, <2>2 DEF Commits, Stored, IsLog, AllTyped, StreamTyped
    <3>2. up'[e] /\ pc'[e] = "await" /\ snap'[e] = EmptyLog
      BY <1>2, <2>2 DEF At, AllTyped, ControlTyped
    <3>3. ReadIsPast(e)'
      BY <1>1, <3>1, <3>2 DEF ReadIsPast, EmptyLog
    <3>4. /\ NewTask("start", 0, 0).step = "start" /\ NewTask("start", 0, 0).fg
          /\ NewTask("start", 0, 0).seq = 0
      BY DEF NewTask, NoTask
    <3>5. ASSUME NEW p \in Decided(e) \cap Positions
          PROVE  log'.attempts[p].status = "in-flight" /\ log'.attempts[p].started = FALSE
                 /\ log'.attempts[p].seq = 0
      BY <2>1, <3>1 DEF NoAttempt
    <3>6. InStep(e)'
      BY <1>2, <1>9, <2>2, <3>2, <3>3, <3>4, <3>5, SpawnInStep DEF AppendDispatch
    <3>7. QED
      BY <1>6, <2>1, <2>2, <3>6
  <2>3. CASE Conflicts(snap[e].rev) /\ At(e, "read", NoPosition) /\ task' = task
    BY <1>2, <1>6, <1>9, <2>1, <2>3, LeaveInStep DEF AppendDispatch, Throws
  <2>4. CASE StorageFails(snap[e].rev, f) /\ Rejects(e) /\ task' = task
    BY <1>2, <1>6, <1>9, <2>1, <2>4, LeaveInStep DEF AppendDispatch, Throws, Rejects
  <2>5. QED
    BY <1>9, <2>2, <2>3, <2>4 DEF AppendDispatch
<1>10. CASE DecidesResume(e)
  <2> DEFINE p == target[e]
             a == snap[e].attempts[p]
  <2>1. p \in Positions /\ Live(e) = {} /\ pc[e] = "fold" /\ log' = log
    BY <1>4, <1>10 DEF DecidesResume, AllTyped, ControlTyped
  <2>2. CASE Rejects(e) /\ task' = task
    BY <1>2, <1>4, <1>10, <2>2, LeaveInStep DEF DecidesResume, Rejects, LogFolds, Grows
  <2>3. CASE /\ task' = task
             /\ \/ Uncertain(a) /\ At(e, "reconcile", p)
                \/ (a.status = "paused" \/ (Uncertain(a) /\ a.retrySafe)) /\ At(e, "resume", p)
    <3>1. DecisionFollows(e)'
      BY <2>3 DEF DecisionFollows, At, AllTyped, ControlTyped
    <3>2. QED
      BY <1>2, <1>4, <1>10, <2>1, <2>3, <3>1, DecideInStep DEF DecidesResume, LogFolds, Grows
  <2>4. CASE /\ snap[e].valid /\ a.status = "in-flight" /\ ~a.started
             /\ Spawns(e, [q \in {p} |-> NewTask("start", 0, a.seq)]) /\ At(e, "await", p)
    <3>1. NewTask("start", 0, a.seq).step = "start" /\ NewTask("start", 0, a.seq).fg
          /\ NewTask("start", 0, a.seq).seq = a.seq
      BY DEF NewTask, NoTask
    <3>2. appendRev'[e] = log'.rev => snap[e] = log
      BY <1>1, <1>4, <1>5, <1>10, <2>1, <2>4 DEF DecidesResume, Deciding
    <3>3. up'[e] /\ pc'[e] = "await" /\ snap'[e] = EmptyLog
      BY <1>2, <2>4 DEF At, AllTyped, ControlTyped
    <3>4. ReadIsPast(e)'
      BY <1>1, <1>4, <1>10, <2>1, <3>3 DEF ReadIsPast, EmptyLog, DecidesResume
    <3>5. log.attempts[p] \in Attempt
      BY <1>1, <2>1 DEF IsLog
    <3>6. InStep(e)'
      BY <2>1, <2>4, <3>1, <3>2, <3>3, <3>4, <3>5, SpawnInStep DEF Attempt
    <3>7. QED
      BY <2>1, <3>6 DEF LogFolds, Grows
  <2>5. QED
    BY <1>10, <2>2, <2>3, <2>4 DEF DecidesResume
<1>11. CASE AppendReconcile(e)
  <2> DEFINE p == target[e]
             f == FoldPause(WithRecovery(e, p), p)
  <2>1. p \in Positions /\ Live(e) = {}
    BY <1>2, <1>11 DEF AppendReconcile, AllTyped, ControlTyped
  <2>2. snap[e].rev = log.rev => IsLog(f) /\ f.valid
    <3>1. SUFFICES ASSUME snap[e] = log PROVE IsLog(f) /\ f.valid
      BY <1>5, <1>11 DEF AppendReconcile, Deciding
    <3>2. log.attempts[p].status = "in-flight"
      BY <1>11, <3>1 DEF AppendReconcile, InStep, DecisionFollows, Uncertain
    <3>3. QED
      BY <2>1, <3>1, <3>2, RecoveryAccepted, EndAccepted DEF Extends
  <2>3. (\E how : Leave(e, how)) \/ At(e, "read", NoPosition)
    BY <1>11 DEF AppendReconcile, Rejects
  <2>4. QED
    BY <1>2, <1>6, <1>11, <2>1, <2>2, <2>3, LeaveInStep DEF AppendReconcile
<1>12. CASE AppendResume(e)
  <2> DEFINE p == target[e]
             f == FoldResume(WithRecovery(e, p), p)
             step == IF snap[e].attempts[p].started THEN "ready" ELSE "start"
             new == NewTask(step, log.attempts[p].grants + 1, SeqAfter(e, p))
  <2>1. p \in Positions /\ Live(e) = {}
    BY <1>2, <1>12 DEF AppendResume, AllTyped, ControlTyped
  <2>2. ASSUME snap[e].rev = log.rev
        PROVE  /\ IsLog(f) /\ f.valid
               /\ f.attempts[p].status = "in-flight"
               /\ f.attempts[p].started = snap[e].attempts[p].started
               /\ f.attempts[p].seq = SeqAfter(e, p)
    <3>1. snap[e] = log
      BY <1>5, <1>12, <2>2 DEF AppendResume, Deciding
    <3>2. log.attempts[p].status = "paused" \/ Uncertain(log.attempts[p])
      BY <1>12, <3>1 DEF AppendResume, InStep, DecisionFollows
    <3>3. QED
      BY <2>1, <3>1, <3>2, RecoveryAccepted, ResumeAccepted DEF Extends, Uncertain
  <2>3. CASE Commits(e, snap[e].rev, f) /\ Spawns(e, [q \in {p} |-> new]) /\ At(e, "await", p)
    <3>1. /\ snap[e].rev = log.rev /\ log'.attempts = f.attempts /\ log'.rev = log.rev + 1
          /\ appendRev'[e] = log'.rev
      BY <1>1, <2>2, <2>3 DEF Commits, Stored, IsLog, AllTyped, StreamTyped
    <3>2. up'[e] /\ pc'[e] = "await" /\ snap'[e] = EmptyLog
      BY <1>2, <2>3 DEF At, AllTyped, ControlTyped
    <3>3. ReadIsPast(e)'
      BY <1>1, <3>1, <3>2 DEF ReadIsPast, EmptyLog
    <3>4. new.step = step /\ new.fg /\ new.seq = SeqAfter(e, p)
      BY DEF NewTask, NoTask
    <3>5. snap[e].attempts[p] \in Attempt
      BY <1>1, <2>1 DEF IsLog
    <3>6. InStep(e)'
      BY <2>1, <2>2, <2>3, <3>1, <3>2, <3>3, <3>4, <3>5, SpawnInStep DEF Attempt
    <3>7. QED
      BY <1>6, <2>2, <2>3, <3>6
  <2>4. CASE Throws(snap[e].rev, f) /\ Rejects(e) /\ task' = task
    BY <1>2, <1>6, <2>1, <2>2, <2>4, LeaveInStep DEF Rejects
  <2>5. QED
    BY <1>12, <2>3, <2>4 DEF AppendResume
<1>13. CASE Awaited(e)
  <2>1. Live(e) = {}
    BY <1>13 DEF Awaited, InStep, WorkIsAwaited
  <2>2. QED
    BY <1>1, <1>2, <1>3, <1>13, <2>1, LeaveInStep DEF Awaited, LogFolds, Grows
<1>14. QED
  BY <1>7, <1>8, <1>9, <1>10, <1>11, <1>12, <1>13 DEF OperationStep

(* Only here it matters that the host waits for what a rejected operation  *)
(* left at work before it calls again.                                     *)
LEMMA HostStepInStep ==
  ASSUME HostWaits, AllTyped, LogFolds, log.rev >= 1, NEW e \in Executors, InStep(e), HostStep(e)
  PROVE  InStep(e)' /\ LogFolds' /\ Grows
<1>1. /\ log.rev \in Nat /\ snap[e].rev \in Nat /\ appendRev[e] \in Nat /\ EmptyLog.rev = 1
  BY DEF AllTyped, StreamTyped, ControlTyped, IsLog, EmptyLog
<1>2. appendRev[e] <= log.rev
  BY DEF InStep, ReadIsPast
<1>3. CASE Create(e)
  <2>1. /\ Live(e)' = {} /\ pc'[e] = "idle" /\ snap'[e] = snap[e] /\ log' = log
        /\ appendRev'[e] = EmptyLog.rev /\ up'[e]
    BY <1>3 DEF Create, InStep, WorkIsAwaited, Live, AllTyped, StreamTyped, ControlTyped
  <2>2. QED
    BY <1>1, <2>1 DEF InStep, ReadIsPast, ReadIsFresh, DecisionFollows, WorkIsAwaited,
         WorkIsInStep, Deciding, LogFolds, Grows
<1>4. ASSUME Gone(e)
      PROVE  InStep(e)' /\ LogFolds' /\ Grows
  <2>1. /\ pc'[e] = "idle" /\ snap'[e] = EmptyLog /\ log' = log /\ appendRev'[e] = EmptyLog.rev
        /\ task'[e] = NoTasks
    BY <1>4 DEF Gone, AllTyped, StreamTyped, ControlTyped, TasksTyped
  <2>2. Live(e)' = {}
    BY <2>1 DEF Live, NoTasks, NoTask
  <2>3. QED
    BY <1>1, <2>1, <2>2 DEF InStep, ReadIsPast, ReadIsFresh, DecisionFollows, WorkIsAwaited,
         WorkIsInStep, Deciding, LogFolds, Grows
<1>5. CASE Close(e) \/ Crash(e)
  BY <1>4, <1>5 DEF Close, Crash
<1>6. CASE Abort(e)
  <2>1. pc[e] = "read" /\ Live(e) = {} /\ up[e]
    BY <1>6 DEF Abort, InStep, WorkIsAwaited
  <2>2. QED
    BY <1>1, <1>2, <1>6, <2>1, LeaveInStep DEF Abort, Rejects, LogFolds, Grows
<1>7. ASSUME NEW t \in Positions \cup {NoPosition}, Call(e, t)
      PROVE  InStep(e)' /\ LogFolds' /\ Grows
  <2>1. /\ Live(e)' = {} /\ pc'[e] = "read" /\ snap' = snap /\ log' = log
        /\ appendRev' = appendRev /\ up'[e]
    BY <1>7 DEF Call, Live, AllTyped, ControlTyped
  <2>2. QED
    BY <1>1, <2>1 DEF InStep, ReadIsPast, ReadIsFresh, DecisionFollows, WorkIsAwaited,
         WorkIsInStep, Deciding, LogFolds, Grows
<1>8. QED
  BY <1>3, <1>5, <1>6, <1>7 DEF HostStep

(* An executor steps alone.                                                *)
LEMMA OneAtATime ==
  ASSUME AllTyped, NEW e \in Executors, NEW x \in Executors, x # e,
         HostStep(e) \/ OperationStep(e) \/ \E k \in Positions \X Slots : TaskStep(e, k)
  PROVE  Idle(x)
<1> USE DEF AllTyped, StreamTyped, ControlTyped, TasksTyped
<1>1. ASSUME NEW how, Leave(e, how)
      PROVE  UNCHANGED <<up[x], pc[x], target[x], snap[x]>>
  BY <1>1 DEF Leave
<1>2. ASSUME NEW place, NEW t, At(e, place, t)
      PROVE  UNCHANGED <<up[x], pc[x], target[x], snap[x]>>
  BY <1>2 DEF At
<1>3. ASSUME NEW y, NEW f, Commits(e, y, f) \/ Throws(y, f)
      PROVE  appendRev'[x] = appendRev[x]
  BY <1>3 DEF Commits, Throws, Conflicts, StorageFails
<1>4. ASSUME NEW tasks, Spawns(e, tasks)
      PROVE  task'[x] = task[x]
  BY <1>4 DEF Spawns
<1>5. ASSUME HostStep(e)
      PROVE  Idle(x)
  BY <1>1, <1>5 DEF HostStep, Create, Close, Crash, Gone, Abort, Rejects, Call, Idle
<1>6. ASSUME Folds(e)
      PROVE  appendRev'[x] = appendRev[x]
  BY <1>6 DEF Folds
<1>7. ASSUME OperationStep(e)
      PROVE  Idle(x)
  <2>1. CASE Read(e)
    BY <2>1 DEF Read, Idle
  <2>2. CASE Decides(e)
    BY <1>1, <1>2, <1>6, <2>2 DEF Decides, Rejects, Idle
  <2>3. CASE AppendDispatch(e)
    BY <1>1, <1>2, <1>3, <1>4, <2>3 DEF AppendDispatch, Throws, Rejects, Idle
  <2>4. CASE DecidesResume(e)
    BY <1>1, <1>2, <1>4, <1>6, <2>4 DEF DecidesResume, Rejects, Idle
  <2>5. CASE AppendReconcile(e) \/ AppendResume(e)
    BY <1>1, <1>2, <1>3, <1>4, <2>5 DEF AppendReconcile, AppendResume, Rejects, Idle
  <2>6. CASE Awaited(e)
    BY <1>2, <2>6 DEF Awaited, Idle
  <2>7. QED
    BY <1>7, <2>1, <2>2, <2>3, <2>4, <2>5, <2>6 DEF OperationStep
<1>8. ASSUME NEW k \in Positions \X Slots, TaskStep(e, k)
      PROVE  Idle(x)
  <2>1. ASSUME UNCHANGED exec
        PROVE  UNCHANGED <<up[x], pc[x], target[x], snap[x]>>
    BY <2>1 DEF exec
  <2>2. ASSUME NEW t, SetTask(e, k, t)
        PROVE  task'[x] = task[x]
    BY <2>2 DEF SetTask
  <2>3. ASSUME TaskThrows(e, k)
        PROVE  task'[x] = task[x] /\ UNCHANGED <<up[x], pc[x], target[x], snap[x]>>
    BY <1>1, <2>1, <2>3 DEF TaskThrows, Rejects
  <2>4. ASSUME NEW f, NEW t, TaskAppends(e, k, f, t)
        PROVE  Idle(x)
    BY <1>3, <2>1, <2>2, <2>3, <2>4 DEF TaskAppends, Idle
  <2>5. CASE AppendStart(e, k) \/ AppendReceipt(e, k) \/ AppendOutcome(e, k)
    BY <2>4, <2>5 DEF AppendStart, AppendReceipt, AppendOutcome
  <2>6. CASE SkipRun(e, k) \/ Invoke(e, k) \/ RunReturns(e, k)
    BY <2>1, <2>2, <2>6 DEF SkipRun, Invoke, RunReturns, Idle
  <2>7. CASE AppendFact(e, k)
    BY <1>3, <2>1, <2>2, <2>7 DEF AppendFact, Idle
  <2>8. QED
    BY <1>8, <2>5, <2>6, <2>7 DEF TaskStep
<1>9. QED
  BY <1>5, <1>7, <1>8

(* Initially every executor is in step.                                     *)
LEMMA InitInStep == Init => StreamInv
<1> SUFFICES ASSUME Init PROVE StreamInv
  OBVIOUS
<1>1. EmptyLog.rev = 1 /\ EmptyLog.valid
  BY DEF EmptyLog
<1>2. ASSUME NEW e \in Executors
      PROVE  InStep(e)
  <2>1. Live(e) = {} /\ pc[e] = "idle" /\ snap[e] = log
    BY DEF Init, Live, NoTasks, NoTask
  <2>2. QED
    BY <1>1, <2>1 DEF Init, InStep, ReadIsPast, ReadIsFresh, DecisionFollows, WorkIsAwaited,
         WorkIsInStep, Deciding
<1>3. QED
  BY <1>1, <1>2 DEF Init, StreamInv, LogFolds

(* That every executor is in step is inductive.                             *)
LEMMA NextInStep ==
  ASSUME HostWaits
  PROVE  AllTyped /\ StreamInv /\ [Next]_vars => StreamInv'
<1> SUFFICES ASSUME AllTyped, StreamInv, [Next]_vars PROVE StreamInv'
  OBVIOUS
<1>1. log.rev \in Nat /\ log.rev >= 1 /\ LogFolds
  BY DEF AllTyped, StreamTyped, IsLog, StreamInv
<1>2. CASE UNCHANGED vars
  <2>1. \A x \in Executors : Idle(x)
    BY <1>2 DEF vars, exec, Idle
  <2>2. log' = log
    BY <1>2 DEF vars
  <2>3. QED
    BY <1>1, <2>1, <2>2, OthersInStep DEF StreamInv, Grows, LogFolds
<1>3. ASSUME NEW e \in Executors,
             HostStep(e) \/ OperationStep(e) \/ \E k \in Positions \X Slots : TaskStep(e, k)
      PROVE  StreamInv'
  <2>1. InStep(e)' /\ LogFolds' /\ Grows
    BY <1>1, <1>3, HostStepInStep, OperationStepInStep, TaskStepInStep DEF StreamInv
  <2>2. \A x \in Executors : x # e => InStep(x)'
    BY <1>3, <2>1, OneAtATime, OthersInStep DEF StreamInv
  <2>3. log'.rev >= 1
    BY <1>1, <2>1 DEF Grows
  <2>4. QED
    BY <2>1, <2>2, <2>3 DEF StreamInv
<1>4. CASE OtherAppends
  <2>1. \A x \in Executors : Idle(x)
    BY <1>4 DEF OtherAppends, exec, Idle
  <2>2. log'.rev = log.rev + 1 /\ log'.valid = log.valid
    BY <1>4 DEF OtherAppends, Stored, AllTyped, StreamTyped, IsLog
  <2>3. QED
    BY <1>1, <2>1, <2>2, OthersInStep DEF StreamInv, Grows, LogFolds
<1>5. QED
  BY <1>2, <1>3, <1>4 DEF Next

(* Whatever executors there are, however they interleave, crash and lose   *)
(* appends: if hosts wait for left-over attempts before they call an       *)
(* executor again, no recorded event is one that a later fold refuses.     *)
THEOREM StreamFolds ==
  ASSUME HostWaits
  PROVE  Spec => []LogFolds
<1>1. Init => AllTyped /\ StreamInv
  BY InitTypes, InitInStep
<1>2. AllTyped /\ StreamInv /\ [Next]_vars => AllTyped' /\ StreamInv'
  BY NextTypes, NextInStep
<1>3. StreamInv => LogFolds
  BY DEF StreamInv
<1>4. QED
  BY <1>1, <1>2, <1>3, PTL DEF Spec

-----------------------------------------------------------------------------
(* What the grants that were recorded have to do with the code that ran:   *)
(* a position nobody dispatched has none, every attempt past its start     *)
(* holds one, and the one an attempt is about to use was not used and is   *)
(* held by no other.                                                       *)
Holds(e, k, g) == task[e][k].step = "ready" /\ task[e][k].grant = g
GrantInv ==
  /\ \A p \in Positions : log.attempts[p].status = "none" => log.attempts[p].grants = 0 /\ ran[p] = <<>>
  /\ \A e \in Executors : \A k \in Live(e) :
       /\ log.attempts[k[1]].status # "none"
       /\ task[e][k].step = "ready" =>
            /\ task[e][k].grant <= log.attempts[k[1]].grants /\ task[e][k].grant # 0
            /\ \A i \in 1..Len(ran[k[1]]) : ran[k[1]][i] # task[e][k].grant
            /\ \A x \in Executors : \A h \in Live(x) :
                 h[1] = k[1] /\ Holds(x, h, task[e][k].grant) => x = e /\ h = k
  /\ OneRunPerGrant
  /\ \A p \in Positions : \A i \in 1..Len(ran[p]) : ran[p][i] # 0

(* What a step may do to the record of a position: it is never forgotten,  *)
(* and its grants are only added to.                                       *)
Advances ==
  \A p \in Positions :
    LET a == log.attempts[p]  b == log'.attempts[p] IN
    /\ a.status # "none" => b.status # "none" /\ b.grants >= a.grants
    /\ b.status = "none" => b.grants = 0

(* The attempt k of x holds no grant that it did not hold before.          *)
Kept(x, k) ==
  k \in Live(x)' =>
    /\ log'.attempts[k[1]].status # "none"
    /\ task'[x][k].step = "ready" => k \in Live(x) /\ Holds(x, k, task'[x][k].grant)

(* The attempt k of x was just given a grant of its own.                   *)
Granted(x, k) ==
  /\ log'.attempts[k[1]].status # "none"
  /\ task'[x][k].step = "ready" =>
       /\ log'.attempts[k[1]].grants = log.attempts[k[1]].grants + 1
       /\ task'[x][k].grant = log'.attempts[k[1]].grants

(* A step that gives at most one attempt a grant, the one it just recorded, *)
(* and begins no node code, keeps the invariant on grants.                  *)
LEMMA GrantsKept ==
  ASSUME AllTyped, AllTyped', GrantInv, Advances, ran' = ran,
         NEW e \in Executors, NEW k \in Positions \X Slots, Kept(e, k) \/ Granted(e, k),
         \A x \in Executors : \A h \in Positions \X Slots : <<x, h>> # <<e, k>> => Kept(x, h)
  PROVE  GrantInv'
<1>1. ASSUME NEW p \in Positions
      PROVE  /\ log.attempts[p].grants \in Nat /\ log'.attempts[p].grants \in Nat
             /\ ran[p] \in Seq(Nat)
  BY DEF AllTyped, StreamTyped, HistoryTyped, IsLog, Attempt
<1>2. ASSUME NEW p \in Positions, NEW i \in 1..Len(ran[p])
      PROVE  /\ ran[p][i] \in Nat /\ ran[p][i] <= log.attempts[p].grants
             /\ ran[p][i] <= log'.attempts[p].grants
  <2>1. ran[p][i] \in Nat /\ ran[p] # <<>>
    BY <1>1
  <2>2. ran[p][i] <= log.attempts[p].grants /\ log.attempts[p].status # "none"
    BY <2>1 DEF GrantInv, OneRunPerGrant
  <2>3. QED
    BY <1>1, <2>1, <2>2 DEF Advances
<1>3. OneRunPerGrant' /\ \A p \in Positions : \A i \in 1..Len(ran'[p]) : ran'[p][i] # 0
  BY <1>2 DEF GrantInv, OneRunPerGrant
<1>4. ASSUME NEW p \in Positions, log'.attempts[p].status = "none"
      PROVE  log'.attempts[p].grants = 0 /\ ran'[p] = <<>>
  BY <1>4 DEF GrantInv, Advances
<1>5. ASSUME NEW x \in Executors, NEW h \in Live(x)'
      PROVE  log'.attempts[h[1]].status # "none"
  BY DEF Kept, Granted, Live
<1>6. ASSUME NEW x \in Executors, NEW h \in Live(x)', task'[x][h].step = "ready"
      PROVE  \/ h \in Live(x) /\ Holds(x, h, task'[x][h].grant)
             \/ x = e /\ h = k /\ Granted(e, k)
  BY <1>6 DEF Kept, Live
<1>7. ASSUME NEW x \in Executors, NEW h \in Live(x), task[x][h].step = "ready"
      PROVE  /\ h[1] \in Positions
             /\ task[x][h].grant \in Nat /\ task[x][h].grant <= log.attempts[h[1]].grants
             /\ task[x][h].grant <= log'.attempts[h[1]].grants /\ task[x][h].grant # 0
             /\ \A i \in 1..Len(ran[h[1]]) : ran[h[1]][i] # task[x][h].grant
  <2>1. h[1] \in Positions /\ task[x][h].grant \in Nat
    BY DEF Live, AllTyped, TasksTyped, Task
  <2>2. /\ log.attempts[h[1]].status # "none" /\ task[x][h].grant <= log.attempts[h[1]].grants
        /\ task[x][h].grant # 0
        /\ \A i \in 1..Len(ran[h[1]]) : ran[h[1]][i] # task[x][h].grant
    BY <1>7 DEF GrantInv
  <2>3. log'.attempts[h[1]].grants >= log.attempts[h[1]].grants
    BY <2>1, <2>2 DEF Advances
  <2>4. QED
    BY <1>1, <2>1, <2>2, <2>3
<1>8. ASSUME Granted(e, k), task'[e][k].step = "ready"
      PROVE  /\ k[1] \in Positions
             /\ task'[e][k].grant = log.attempts[k[1]].grants + 1
             /\ task'[e][k].grant = log'.attempts[k[1]].grants
  BY <1>8 DEF Granted
<1>9. ASSUME NEW x \in Executors, NEW h \in Live(x)', task'[x][h].step = "ready"
      PROVE  /\ task'[x][h].grant <= log'.attempts[h[1]].grants /\ task'[x][h].grant # 0
             /\ \A i \in 1..Len(ran'[h[1]]) : ran'[h[1]][i] # task'[x][h].grant
  <2>1. CASE h \in Live(x) /\ Holds(x, h, task'[x][h].grant)
    BY <1>7, <2>1 DEF Holds
  <2>2. CASE x = e /\ h = k /\ Granted(e, k)
    BY <1>1, <1>2, <1>8, <1>9, <2>2
  <2>3. QED
    BY <1>6, <1>9, <2>1, <2>2
<1>10. ASSUME NEW x \in Executors, NEW h \in Live(x)', NEW y \in Executors, NEW i \in Live(y)',
             task'[x][h].step = "ready", task'[y][i].step = "ready",
             i[1] = h[1], task'[y][i].grant = task'[x][h].grant
      PROVE  y = x /\ i = h
  <2>1. CASE /\ h \in Live(x) /\ Holds(x, h, task'[x][h].grant)
             /\ i \in Live(y) /\ Holds(y, i, task'[y][i].grant)
    <3>1. task[x][h].step = "ready" /\ Holds(y, i, task[x][h].grant)
      BY <1>10, <2>1 DEF Holds
    <3>2. QED
      BY <1>10, <2>1, <3>1 DEF GrantInv
  <2>2. CASE Granted(e, k) /\ x = e /\ h = k /\ i \in Live(y) /\ Holds(y, i, task'[y][i].grant)
    <3>1. task'[y][i].grant <= log.attempts[k[1]].grants
      BY <1>7, <1>10, <2>2 DEF Holds
    <3>2. FALSE
      BY <1>1, <1>8, <1>10, <2>2, <3>1
    <3>3. QED
      BY <3>2
  <2>3. CASE Granted(e, k) /\ y = e /\ i = k /\ h \in Live(x) /\ Holds(x, h, task'[x][h].grant)
    <3>1. task'[x][h].grant <= log.attempts[k[1]].grants
      BY <1>7, <1>10, <2>3 DEF Holds
    <3>2. FALSE
      BY <1>1, <1>8, <1>10, <2>3, <3>1
    <3>3. QED
      BY <3>2
  <2>4. QED
    BY <1>6, <1>10, <2>1, <2>2, <2>3
<1>11. QED
  BY <1>3, <1>4, <1>5, <1>9, <1>10 DEF GrantInv, Holds
(* An attempt that a step leaves as it was, or ends.                       *)
Left(x, k) ==
  \/ task'[x][k].step = "none"
  \/ task'[x][k].step = task[x][k].step /\ task'[x][k].grant = task[x][k].grant

(* An attempt that goes on with the grant it has, or ends, is kept.         *)
LEMMA LeftIsKept ==
  ASSUME AllTyped, GrantInv, Advances, NEW x \in Executors, NEW k \in Positions \X Slots, Left(x, k)
  PROVE  Kept(x, k)
<1>1. k \in Live(x)' => k \in Live(x) /\ task'[x][k].step = task[x][k].step
                          /\ task'[x][k].grant = task[x][k].grant
  BY DEF Left, Live
<1>2. k[1] \in Positions
  OBVIOUS
<1>3. k \in Live(x) => log.attempts[k[1]].status # "none"
  BY DEF GrantInv
<1>4. k \in Live(x)' => log'.attempts[k[1]].status # "none"
  BY <1>1, <1>2, <1>3 DEF Advances
<1>5. QED
  BY <1>1, <1>4 DEF Kept, Holds

(* A step that gives no attempt a grant and begins no node code keeps the   *)
(* invariant.                                                               *)
LEMMA AllLeft ==
  ASSUME AllTyped, AllTyped', GrantInv, Advances, ran' = ran, NEW e \in Executors,
         \A x \in Executors : \A k \in Positions \X Slots : Kept(x, k)
  PROVE  GrantInv'
<1>1. CASE Positions = {}
  <2>1. \A x \in Executors : Live(x)' = {}
    BY <1>1 DEF Live
  <2>2. QED
    BY <1>1, <2>1 DEF GrantInv, OneRunPerGrant
<1>2. CASE Positions # {}
  <2>1. PICK p \in Positions, s \in Slots : TRUE
    BY <1>2, SlotsGiven
  <2>2. <<p, s>> \in Positions \X Slots
    OBVIOUS
  <2>3. QED
    BY <2>2, GrantsKept
<1>3. QED
  BY <1>1, <1>2

(* The record of position p is extended, or nothing is.                    *)
Adds(f, p) ==
  /\ Extends(log, f, p)
  /\ f.attempts[p].status # "none"
  /\ f.attempts[p].grants >= log.attempts[p].grants

(* Extending the record of one position is an advance.                      *)
LEMMA AddsAdvances ==
  ASSUME AllTyped, GrantInv, NEW p \in Positions, NEW f,
         log' = log \/ (Adds(f, p) /\ log'.attempts = f.attempts)
  PROVE  Advances
<1>1. ASSUME NEW q \in Positions
      PROVE  log.attempts[q].grants \in Nat /\ (log.attempts[q].status = "none" => log.attempts[q].grants = 0)
  BY DEF AllTyped, StreamTyped, IsLog, Attempt, GrantInv
<1>2. CASE log' = log
  BY <1>1, <1>2 DEF Advances
<1>3. CASE Adds(f, p) /\ log'.attempts = f.attempts
  <2>1. ASSUME NEW q \in Positions
        PROVE  /\ log.attempts[q].status # "none" => log'.attempts[q].status # "none"
                                                   /\ log'.attempts[q].grants >= log.attempts[q].grants
               /\ log'.attempts[q].status = "none" => log'.attempts[q].grants = 0
    <3>1. CASE q = p
      BY <1>3, <3>1 DEF Adds
    <3>2. CASE q # p
      BY <1>1, <1>3, <3>2 DEF Adds, Extends
    <3>3. QED
      BY <3>1, <3>2
  <2>2. QED
    BY <2>1 DEF Advances
<1>4. QED
  BY <1>2, <1>3

(* What an append makes of the stream.                                     *)
LEMMA CommitStores ==
  ASSUME NEW e \in Executors, NEW n, NEW f, IsLog(f), Commits(e, n, f)
  PROVE  n = log.rev /\ log'.attempts = f.attempts
  BY DEF Commits, Stored, IsLog

(* An append that throws stored what was folded or nothing.                 *)
LEMMA ThrowStores ==
  ASSUME NEW n, NEW f, IsLog(f), Throws(n, f)
  PROVE  log' = log \/ (n = log.rev /\ log'.attempts = f.attempts)
  BY DEF Throws, Conflicts, StorageFails, Stored, IsLog

(* An append by an attempt keeps the invariant, if on commit it records the *)
(* grant it makes the attempt ready with.                                   *)
LEMMA TaskAppendGrants ==
  ASSUME AllTyped, AllTyped', GrantInv, ran' = ran, NEW e \in Executors, NEW k \in Positions \X Slots,
         NEW f, IsLog(f), NEW t, TaskAppends(e, k, f, t),
         appendRev[e] = log.rev =>
           /\ Adds(f, k[1])
           /\ t.step = "ready" => /\ f.attempts[k[1]].grants = log.attempts[k[1]].grants + 1
                                  /\ t.grant = f.attempts[k[1]].grants
  PROVE  GrantInv' /\ Advances
<1>1. k[1] \in Positions
  OBVIOUS
<1>2. CASE Commits(e, appendRev[e], f) /\ SetTask(e, k, t)
  <2>1. appendRev[e] = log.rev /\ log'.attempts = f.attempts
    BY <1>2, CommitStores
  <2>2. Advances
    BY <1>1, <2>1, AddsAdvances
  <2>3. task'[e][k] = t
    BY <1>2 DEF SetTask, AllTyped, TasksTyped
  <2>4. ASSUME NEW x \in Executors, NEW h \in Positions \X Slots, <<x, h>> # <<e, k>>
        PROVE  Kept(x, h)
    <3>1. task'[x][h] = task[x][h]
      BY <1>2, <2>4 DEF SetTask, AllTyped, TasksTyped
    <3>2. QED
      BY <2>2, <3>1, LeftIsKept DEF Left
  <2>5. Granted(e, k)
    BY <2>1, <2>3 DEF Granted, Adds
  <2>6. QED
    BY <2>2, <2>4, <2>5, GrantsKept
<1>3. CASE Throws(appendRev[e], f) /\ TaskThrows(e, k)
  <2>1. Advances
    BY <1>1, <1>3, ThrowStores, AddsAdvances
  <2>2. ASSUME NEW x \in Executors, NEW h \in Positions \X Slots
        PROVE  Left(x, h)
    <3> DEFINE rest == [task[e] EXCEPT ![k] = NoTask]
    <3>1. task[e][h] \in Task /\ rest[k] = NoTask /\ (h # k => rest[h] = task[e][h])
      BY DEF AllTyped, TasksTyped
    <3>2. task' = [task EXCEPT ![e] = rest] \/ task' = [task EXCEPT ![e] = Disowned(rest)]
      BY <1>3 DEF TaskThrows
    <3>3. /\ x # e => task'[x] = task[x]
          /\ task'[e] = rest \/ task'[e] = Disowned(rest)
      BY <3>2 DEF AllTyped, TasksTyped
    <3>4. task'[e][h] = rest[h] \/ task'[e][h] = [rest[h] EXCEPT !.fg = FALSE]
      BY <3>3 DEF Disowned
    <3>5. CASE x # e
      BY <3>3, <3>5 DEF Left
    <3>6. CASE x = e /\ h = k
      BY <3>1, <3>4, <3>6 DEF NoTask, Left
    <3>7. CASE x = e /\ h # k
      BY <3>1, <3>4, <3>7 DEF Left, Task
    <3>8. QED
      BY <3>5, <3>6, <3>7
  <2>3. QED
    BY <2>1, <2>2, LeftIsKept, AllLeft
<1>4. QED
  BY <1>2, <1>3 DEF TaskAppends
(* An attempt that changes nothing but itself.                             *)
LEMMA AloneGrants ==
  ASSUME AllTyped, AllTyped', GrantInv, Advances, ran' = ran,
         NEW e \in Executors, NEW k \in Positions \X Slots, NEW t,
         SetTask(e, k, t), t.step # "ready", k \in Live(e)
  PROVE  GrantInv'
<1>1. task'[e][k] = t /\ k[1] \in Positions
  BY DEF SetTask, AllTyped, TasksTyped
<1>2. ASSUME NEW x \in Executors, NEW h \in Positions \X Slots, <<x, h>> # <<e, k>>
      PROVE  Kept(x, h)
  <2>1. task'[x][h] = task[x][h]
    BY <1>2 DEF SetTask, AllTyped, TasksTyped
  <2>2. QED
    BY <2>1, LeftIsKept DEF Left
<1>3. Kept(e, k)
  BY <1>1 DEF Kept, GrantInv, Advances
<1>4. QED
  BY <1>2, <1>3, GrantsKept

(* Node code begins: the grant of the attempt is used.                     *)
LEMMA InvokeGrants ==
  ASSUME AllTyped, AllTyped', GrantInv, NEW e \in Executors, NEW k \in Positions \X Slots, Invoke(e, k)
  PROVE  GrantInv' /\ Advances
<1> DEFINE p == k[1]
           g == task[e][k].grant
<1>1. p \in Positions /\ k \in Live(e) /\ task[e][k].step = "ready" /\ log' = log
  BY DEF Invoke, Live
<1>2. g \in Nat /\ ran[p] \in Seq(Nat)
  BY <1>1 DEF AllTyped, TasksTyped, HistoryTyped, Task
<1>3. /\ g <= log.attempts[p].grants /\ g # 0 /\ log.attempts[p].status # "none"
      /\ \A i \in 1..Len(ran[p]) : ran[p][i] # g
      /\ \A x \in Executors : \A h \in Live(x) : h[1] = p /\ Holds(x, h, g) => x = e /\ h = k
  BY <1>1 DEF GrantInv
<1>4. ran'[p] = Append(ran[p], g) /\ \A q \in Positions : q # p => ran'[q] = ran[q]
  BY <1>1 DEF Invoke, AllTyped, HistoryTyped
<1>5. /\ Len(ran'[p]) = Len(ran[p]) + 1 /\ ran'[p][Len(ran[p]) + 1] = g
      /\ \A i \in 1..Len(ran[p]) : ran'[p][i] = ran[p][i]
      /\ Len(ran[p]) \in Nat
  BY <1>2, <1>4
<1>6. ASSUME NEW x \in Executors, NEW h \in Live(x)'
      PROVE  /\ h \in Live(x) /\ h[1] \in Positions
             /\ task'[x][h].step = "ready" => ~(x = e /\ h = k) /\ task'[x][h] = task[x][h]
  <2>1. task[e][k] \in Task
    BY <1>1 DEF AllTyped, TasksTyped
  <2>2. task' = [task EXCEPT ![e][k] = [task[e][k] EXCEPT !.step = "run", !.calls = 1]]
    BY DEF Invoke, SetTask
  <2>3. task'[e][k].step = "run"
    BY <2>1, <2>2 DEF AllTyped, TasksTyped, Task
  <2>4. h \in Positions \X Slots /\ (~(x = e /\ h = k) => task'[x][h] = task[x][h])
    BY <2>2 DEF AllTyped, TasksTyped, Live
  <2>5. QED
    BY <1>1, <2>3, <2>4 DEF Live
<1>7. OneRunPerGrant' /\ \A q \in Positions : \A i \in 1..Len(ran'[q]) : ran'[q][i] # 0
  <2>1. ASSUME NEW q \in Positions
        PROVE  /\ \A i \in 1..Len(ran'[q]) : ran'[q][i] <= log.attempts[q].grants /\ ran'[q][i] # 0
               /\ \A i, j \in 1..Len(ran'[q]) : ran'[q][i] = ran'[q][j] => i = j
    <3>1. /\ \A i \in 1..Len(ran[q]) : ran[q][i] <= log.attempts[q].grants /\ ran[q][i] # 0
          /\ \A i, j \in 1..Len(ran[q]) : ran[q][i] = ran[q][j] => i = j
      BY DEF GrantInv, OneRunPerGrant
    <3>2. CASE q # p
      BY <1>4, <3>1, <3>2
    <3>3. CASE q = p
      <4>1. ASSUME NEW i \in 1..Len(ran'[p])
            PROVE  \/ i \in 1..Len(ran[p]) /\ ran'[p][i] = ran[p][i]
                   \/ i = Len(ran[p]) + 1 /\ ran'[p][i] = g
        BY <1>5
      <4>2. QED
        BY <1>3, <3>1, <3>3, <4>1
    <3>4. QED
      BY <3>2, <3>3
  <2>2. QED
    BY <1>1, <2>1 DEF OneRunPerGrant
<1>8. ASSUME NEW q \in Positions, log'.attempts[q].status = "none"
      PROVE  log'.attempts[q].grants = 0 /\ ran'[q] = <<>>
  BY <1>1, <1>3, <1>4, <1>8 DEF GrantInv
<1>9. ASSUME NEW x \in Executors, NEW h \in Live(x)'
      PROVE  log'.attempts[h[1]].status # "none"
  BY <1>1, <1>6 DEF GrantInv
<1>10. ASSUME NEW x \in Executors, NEW h \in Live(x)', task'[x][h].step = "ready"
       PROVE  /\ task'[x][h].grant <= log'.attempts[h[1]].grants /\ task'[x][h].grant # 0
              /\ \A i \in 1..Len(ran'[h[1]]) : ran'[h[1]][i] # task'[x][h].grant
              /\ \A y \in Executors : \A i \in Live(y)' :
                   i[1] = h[1] /\ task'[y][i].step = "ready" /\ task'[y][i].grant = task'[x][h].grant
                     => y = x /\ i = h
  <2>1. h \in Live(x) /\ task'[x][h] = task[x][h] /\ ~(x = e /\ h = k) /\ h[1] \in Positions
    BY <1>6, <1>10
  <2>2. /\ task[x][h].grant <= log.attempts[h[1]].grants /\ task[x][h].grant # 0
        /\ \A i \in 1..Len(ran[h[1]]) : ran[h[1]][i] # task[x][h].grant
        /\ \A y \in Executors : \A i \in Live(y) :
             i[1] = h[1] /\ Holds(y, i, task[x][h].grant) => y = x /\ i = h
    BY <1>10, <2>1 DEF GrantInv
  <2>3. h[1] = p => g # task[x][h].grant
    BY <1>3, <1>10, <2>1 DEF Holds
  <2>4. \A i \in 1..Len(ran'[h[1]]) : ran'[h[1]][i] # task[x][h].grant
    <3>1. CASE h[1] = p
      BY <1>5, <2>2, <2>3, <3>1
    <3>2. CASE h[1] # p
      BY <1>4, <2>1, <2>2, <3>2
    <3>3. QED
      BY <3>1, <3>2
  <2>5. ASSUME NEW y \in Executors, NEW i \in Live(y)', i[1] = h[1],
               task'[y][i].step = "ready", task'[y][i].grant = task'[x][h].grant
        PROVE  y = x /\ i = h
    BY <1>6, <2>1, <2>2, <2>5 DEF Holds
  <2>6. QED
    BY <1>1, <2>1, <2>2, <2>4, <2>5
<1>11. Advances
  BY <1>1, AddsAdvances
<1>12. QED
  BY <1>7, <1>8, <1>9, <1>10, <1>11 DEF GrantInv, Holds
(* Every step of an attempt keeps the invariant on grants.                  *)
LEMMA TaskStepGrants ==
  ASSUME AllTyped, AllTyped', LogFolds, GrantInv, NEW e \in Executors, InStep(e),
         NEW k \in Positions \X Slots, TaskStep(e, k)
  PROVE  GrantInv' /\ Advances
<1> DEFINE t == task[e][k]
           a == log.attempts[k[1]]
<1>1. k[1] \in Positions /\ t \in Task /\ IsLog(log) /\ a \in Attempt
  BY DEF AllTyped, TasksTyped, StreamTyped, IsLog
<1>2. k \in Live(e) /\ a.status # "none"
  BY DEF TaskStep, AppendStart, SkipRun, Invoke, RunReturns, AppendReceipt, AppendFact,
         AppendOutcome, Live, GrantInv
<1>3. appendRev[e] = log.rev => Agrees(k, t)
  BY <1>2 DEF InStep, WorkIsInStep
<1>4. log' = log => Advances
  BY <1>1, AddsAdvances
<1>5. CASE AppendStart(e, k)
  <2> DEFINE u == [t EXCEPT !.step = "ready", !.grant = a.grants + 1]
             f == FoldStart(log, k[1])
  <2>1. IsLog(f)
    BY <1>1, FoldsAreLogs, 0 \in Nat
  <2>2. u.grant = a.grants + 1
    BY <1>1 DEF Task
  <2>3. appendRev[e] = log.rev => Adds(f, k[1]) /\ f.attempts[k[1]].grants = a.grants + 1
    BY <1>1, <1>3, <1>5, StartAccepted DEF Agrees, AppendStart, LogFolds, Adds, Attempt
  <2>4. TaskAppends(e, k, f, u) /\ ran' = ran
    BY <1>5 DEF AppendStart
  <2> HIDE DEF u, f
  <2>5. QED
    BY <2>1, <2>2, <2>3, <2>4, TaskAppendGrants
<1>6. CASE SkipRun(e, k)
  <2>1. PICK u \in {[t EXCEPT !.step = "result", !.out = "failed"], [t EXCEPT !.step = "result", !.out = "paused"]} :
          SetTask(e, k, u)
    BY <1>6 DEF SkipRun
  <2>2. u.step # "ready"
    BY <1>1 DEF Task
  <2>3. Advances /\ ran' = ran
    BY <1>4, <1>6 DEF SkipRun
  <2>4. QED
    BY <1>2, <2>1, <2>2, <2>3, AloneGrants
<1>7. CASE Invoke(e, k)
  BY <1>7, InvokeGrants
<1>8. CASE RunReturns(e, k)
  <2>1. PICK out : SetTask(e, k, [t EXCEPT !.step = IF IsEngine(k) THEN "receipt" ELSE "result", !.out = out])
    BY <1>8 DEF RunReturns
  <2>2. [t EXCEPT !.step = IF IsEngine(k) THEN "receipt" ELSE "result", !.out = out].step # "ready"
    BY <1>1 DEF Task
  <2>3. Advances /\ ran' = ran
    BY <1>4, <1>8 DEF RunReturns
  <2>4. QED
    BY <1>2, <2>1, <2>2, <2>3, AloneGrants
<1>9. CASE AppendReceipt(e, k)
  <2>1. PICK step \in {"result", "fact"} :
          TaskAppends(e, k, FoldReceipt(log, k[1], t.seq + 1), [t EXCEPT !.step = step, !.seq = @ + 1])
    BY <1>9 DEF AppendReceipt
  <2> DEFINE u == [t EXCEPT !.step = step, !.seq = @ + 1]
             f == FoldReceipt(log, k[1], t.seq + 1)
  <2>2. IsLog(f)
    BY <1>1, FoldsAreLogs DEF Task
  <2>3. u.step # "ready"
    BY <1>1 DEF Task
  <2>4. k[1] \in EnginePositions
    BY <1>2, <1>9 DEF AppendReceipt, InStep, WorkIsInStep
  <2>5. appendRev[e] = log.rev => Adds(f, k[1])
    BY <1>1, <1>3, <1>9, <2>4, ReceiptAccepted DEF Agrees, AppendReceipt, LogFolds, Adds, Attempt
  <2>6. TaskAppends(e, k, f, u) /\ ran' = ran
    BY <1>9, <2>1 DEF AppendReceipt
  <2> HIDE DEF u, f
  <2>7. QED
    BY <2>2, <2>3, <2>5, <2>6, TaskAppendGrants
<1>10. CASE AppendFact(e, k)
  <2>1. PICK u \in {[t EXCEPT !.step = "run", !.calls = 2], [t EXCEPT !.step = "result"]} :
          /\ Commits(e, appendRev[e], log) \/ Throws(appendRev[e], log)
          /\ SetTask(e, k, u)
    BY <1>10 DEF AppendFact
  <2>2. u.step # "ready"
    BY <1>1, <2>1 DEF Task
  <2>3. Adds(log, k[1])
    BY <1>1, <1>2 DEF Adds, Extends, LogFolds, Attempt
  <2>4. Advances
    BY <1>1, <2>1, <2>3, CommitStores, ThrowStores, AddsAdvances
  <2>5. ran' = ran
    BY <1>10 DEF AppendFact
  <2>6. QED
    BY <1>2, <2>1, <2>2, <2>4, <2>5, AloneGrants
<1>11. CASE AppendOutcome(e, k)
  <2>1. PICK f : /\ appendRev[e] = log.rev => Adds(f, k[1])
                 /\ IsLog(f) /\ TaskAppends(e, k, f, NoTask)
    <3>1. \A r : IsLog(FoldPause(log, k[1])) /\ IsLog(FoldSettle(log, k[1], "node-failed", "none"))
                 /\ IsLog(FoldSettle(log, k[1], "node-completed", r))
      BY <1>1, FoldsAreLogs, 0 \in Nat
    <3>2. appendRev[e] = log.rev =>
            \A r : /\ Adds(FoldPause(log, k[1]), k[1])
                   /\ Adds(FoldSettle(log, k[1], "node-failed", "none"), k[1])
                   /\ Adds(FoldSettle(log, k[1], "node-completed", r), k[1])
      BY <1>1, <1>3, EndAccepted DEF Agrees, LogFolds, Adds, Attempt
    <3>3. QED
      BY <1>11, <3>1, <3>2 DEF AppendOutcome
  <2>2. NoTask.step # "ready" /\ ran' = ran
    BY <1>11 DEF NoTask, AppendOutcome
  <2>3. QED
    BY <2>1, <2>2, TaskAppendGrants
<1>12. QED
  BY <1>5, <1>6, <1>7, <1>8, <1>9, <1>10, <1>11 DEF TaskStep

(* An executor without attempts sets attempts going, of which at most one, *)
(* at position p, is given a grant: the one just recorded.                 *)
LEMMA SpawnGrants ==
  ASSUME AllTyped, AllTyped', GrantInv, Advances, ran' = ran, NEW e \in Executors, Live(e) = {},
         NEW tasks, Spawns(e, tasks), NEW p \in Positions,
         \A q \in DOMAIN tasks \cap Positions :
           /\ log'.attempts[q].status # "none"
           /\ tasks[q].step = "ready" => /\ q = p
                                         /\ log'.attempts[p].grants = log.attempts[p].grants + 1
                                         /\ tasks[q].grant = log'.attempts[p].grants
  PROVE  GrantInv'
<1>1. PICK s \in Slots : task' = [task EXCEPT ![e] = [k \in Positions \X Slots |->
         IF k[1] \in DOMAIN tasks /\ k[2] = s THEN tasks[k[1]] ELSE @[k]]]
  BY DEF Spawns
<1>2. \A x \in Executors : x # e => task'[x] = task[x]
  BY <1>1 DEF AllTyped, TasksTyped
<1>3. ASSUME NEW k \in Positions \X Slots
      PROVE  task'[e][k] = IF k[1] \in DOMAIN tasks /\ k[2] = s THEN tasks[k[1]] ELSE task[e][k]
  BY <1>1 DEF AllTyped, TasksTyped
<1>4. \A k \in Positions \X Slots : task[e][k].step = "none"
  BY DEF Live
<1>5. ASSUME NEW x \in Executors, NEW k \in Positions \X Slots, <<x, k>> # <<e, <<p, s>> >>
      PROVE  Kept(x, k)
  <2>1. CASE x # e \/ ~(k[1] \in DOMAIN tasks /\ k[2] = s)
    BY <1>2, <1>3, <2>1, LeftIsKept DEF Left
  <2>2. CASE x = e /\ k[1] \in DOMAIN tasks /\ k[2] = s
    <3>1. k[1] # p /\ k[1] \in DOMAIN tasks \cap Positions /\ task'[e][k] = tasks[k[1]]
      BY <1>3, <1>5, <2>2
    <3>2. QED
      BY <2>2, <3>1 DEF Kept
  <2>3. QED
    BY <2>1, <2>2
<1>6. Kept(e, <<p, s>>) \/ Granted(e, <<p, s>>)
  <2>1. CASE p \in DOMAIN tasks
    <3>1. task'[e][<<p, s>>] = tasks[p]
      BY <1>3, <2>1
    <3>2. QED
      BY <2>1, <3>1 DEF Granted
  <2>2. CASE p \notin DOMAIN tasks
    BY <1>3, <2>2, LeftIsKept DEF Left
  <2>3. QED
    BY <2>1, <2>2
<1>7. QED
  BY <1>5, <1>6, GrantsKept
(* Attempts that were told nothing yet hold no grant.                      *)
LEMMA SpawnStarts ==
  ASSUME AllTyped, AllTyped', GrantInv, Advances, ran' = ran, NEW e \in Executors, Live(e) = {},
         NEW tasks, Spawns(e, tasks),
         \A q \in DOMAIN tasks \cap Positions :
           log'.attempts[q].status # "none" /\ tasks[q].step = "start"
  PROVE  GrantInv'
<1>1. CASE Positions = {}
  BY <1>1, AllLeft
<1>2. CASE Positions # {}
  BY <1>2, SpawnGrants
<1>3. QED
  BY <1>1, <1>2

(* What an executor read is never taken back.                              *)
ReadIsKept ==
  \A e \in Executors : \A p \in Positions :
    snap[e].attempts[p].status # "none" => log.attempts[p].status # "none"

(* A step that leaves all attempts alone keeps the invariant.               *)
LEMMA SameTasks ==
  ASSUME AllTyped, AllTyped', GrantInv, Advances, ran' = ran, task' = task, NEW e \in Executors
  PROVE  GrantInv'
  BY LeftIsKept, AllLeft DEF Left

(* Every step of an operation keeps the invariant: what an append commits   *)
(* was decided on the stream it extends.                                    *)
LEMMA OperationStepGrants ==
  ASSUME AllTyped, AllTyped', LogFolds, GrantInv, ReadIsKept, NEW e \in Executors, InStep(e),
         OperationStep(e)
  PROVE  GrantInv' /\ Advances
<1>1. /\ IsLog(log) /\ log.valid /\ IsLog(snap[e]) /\ \A p \in Positions : log.attempts[p] \in Attempt
  BY DEF AllTyped, StreamTyped, ControlTyped, IsLog, LogFolds
<1>2. pc[e] # "await" => Live(e) = {}
  BY DEF OperationStep, Read, Decides, Folds, AppendDispatch, DecidesResume, AppendReconcile,
         AppendResume, Awaited, InStep, WorkIsAwaited, Deciding
<1>3. ASSUME pc[e] \in Deciding, snap[e].rev = log.rev
      PROVE  snap[e] = log
  BY <1>3 DEF InStep, ReadIsFresh
<1>4. ran' = ran
  BY DEF OperationStep, Read, Decides, AppendDispatch, DecidesResume, AppendReconcile,
         AppendResume, Awaited
<1>5. CASE log' = log /\ task' = task
  <2>1. Advances
    <3>1. \A p \in Positions : log.attempts[p].status = "none" => log.attempts[p].grants = 0
      BY DEF GrantInv
    <3>2. QED
      BY <1>1, <1>5, <3>1 DEF Advances, Attempt
  <2>2. QED
    BY <1>4, <1>5, <2>1, SameTasks
<1>6. CASE Read(e) \/ Decides(e) \/ Awaited(e)
  BY <1>5, <1>6 DEF Read, Decides, Awaited
<1>7. CASE AppendDispatch(e)
  <2> DEFINE f == FoldDispatches(log, Decided(e))
  <2>1. ASSUME snap[e].rev = log.rev
        PROVE  \A p \in Positions : IF p \in Decided(e)
                 THEN /\ log.attempts[p].status = "none"
                      /\ f.attempts[p] = [NoAttempt EXCEPT !.status = "in-flight"]
                 ELSE f.attempts[p] = log.attempts[p]
    <3>1. snap[e] = log
      BY <1>3, <1>7, <2>1 DEF AppendDispatch, Deciding
    <3>2. /\ Decide(log.gstate).kind = "dispatch" /\ Decided(e) = Decide(log.gstate).positions
          /\ \A p \in Decided(e) : log.attempts[p].status = "none"
      BY <1>7, <3>1 DEF AppendDispatch, InStep, DecisionFollows, Decided
    <3>3. QED
      BY <1>1, <3>2, DispatchAccepted
  <2>2. IsLog(f)
    BY <1>1, DispatchesAreLogs
  <2>3. log' = log \/ (snap[e].rev = log.rev /\ log'.attempts = f.attempts)
    <3>1. CASE Commits(e, snap[e].rev, f)
      BY <2>2, <3>1, CommitStores
    <3>2. CASE Throws(snap[e].rev, f)
      BY <2>2, <3>2, ThrowStores
    <3>3. QED
      BY <1>7, <3>1, <3>2 DEF AppendDispatch, Throws
  <2>4. Advances
    <3>1. ASSUME NEW p \in Positions
          PROVE  /\ log.attempts[p].status # "none" => log'.attempts[p].status # "none"
                                                     /\ log'.attempts[p].grants >= log.attempts[p].grants
                 /\ log'.attempts[p].status = "none" => log'.attempts[p].grants = 0
      <4>1. log.attempts[p].grants \in Nat /\ (log.attempts[p].status = "none" => log.attempts[p].grants = 0)
        BY <1>1 DEF Attempt, GrantInv
      <4>2. QED
        BY <2>1, <2>3, <4>1 DEF NoAttempt
    <3>2. QED
      BY <3>1 DEF Advances
  <2>5. CASE Commits(e, snap[e].rev, f) /\ Spawns(e, [p \in Decided(e) |-> NewTask("start", 0, 0)])
    <3>1. NewTask("start", 0, 0).step = "start"
      BY DEF NewTask, NoTask
    <3>2. \A p \in Decided(e) \cap Positions : log'.attempts[p].status # "none"
      BY <2>1, <2>2, <2>5, CommitStores DEF NoAttempt
    <3>3. QED
      BY <1>2, <1>4, <1>7, <2>4, <2>5, <3>1, <3>2, SpawnStarts DEF AppendDispatch
  <2>6. CASE task' = task
    BY <1>4, <2>4, <2>6, SameTasks
  <2>7. QED
    BY <1>7, <2>5, <2>6 DEF AppendDispatch
<1>8. CASE DecidesResume(e)
  <2> DEFINE p == target[e]
             a == snap[e].attempts[p]
  <2>1. p \in Positions /\ Live(e) = {} /\ log' = log
    BY <1>2, <1>8 DEF DecidesResume, Folds, AllTyped, ControlTyped
  <2>2. CASE a.status = "in-flight" /\ Spawns(e, [q \in {p} |-> NewTask("start", 0, a.seq)])
    <3>1. log'.attempts[p].status # "none"
      BY <2>1, <2>2 DEF ReadIsKept
    <3>2. NewTask("start", 0, a.seq).step = "start"
      BY DEF NewTask, NoTask
    <3>3. Advances
      BY <2>1, AddsAdvances
    <3>4. QED
      BY <1>4, <2>1, <2>2, <3>1, <3>2, <3>3, SpawnStarts
  <2>3. QED
    BY <1>5, <1>8, <2>1, <2>2 DEF DecidesResume
<1>9. CASE AppendReconcile(e)
  <2> DEFINE p == target[e]
             g == WithRecovery(e, p)
             f == FoldPause(g, p)
  <2>1. p \in Positions /\ task' = task
    BY <1>9 DEF AppendReconcile, AllTyped, ControlTyped
  <2>2. IsLog(g)
    <3>1. snap[e].attempts[p].seq + 1 \in Nat
      BY <1>1, <2>1 DEF IsLog, Attempt
    <3>2. QED
      BY <1>1, <2>1, <3>1, FoldsAreLogs DEF WithRecovery
  <2>3. IsLog(f)
    BY <2>1, <2>2, FoldsAreLogs, 0 \in Nat
  <2>4. snap[e].rev = log.rev => Adds(f, p)
    <3>1. SUFFICES ASSUME snap[e] = log PROVE Adds(f, p)
      BY <1>3, <1>9 DEF AppendReconcile, Deciding
    <3>2. log.attempts[p].status = "in-flight"
      BY <1>9, <3>1 DEF AppendReconcile, InStep, DecisionFollows, Uncertain
    <3>3. /\ Extends(log, g, p) /\ g.attempts[p].status = "in-flight"
          /\ g.attempts[p].grants = log.attempts[p].grants
      BY <2>1, <3>1, <3>2, RecoveryAccepted
    <3>4. /\ Extends(g, f, p) /\ f.attempts[p].status # "none"
          /\ f.attempts[p].grants = g.attempts[p].grants
      BY <2>1, <2>2, <3>3, EndAccepted DEF Extends
    <3>5. log.attempts[p].grants \in Nat
      BY <1>1, <2>1 DEF Attempt
    <3> HIDE DEF f, g
    <3>6. QED
      BY <3>3, <3>4, <3>5 DEF Extends, Adds
  <2>5. Advances
    BY <1>9, <2>1, <2>3, <2>4, CommitStores, ThrowStores, AddsAdvances DEF AppendReconcile
  <2>6. QED
    BY <1>4, <2>1, <2>5, SameTasks
<1>10. CASE AppendResume(e)
  <2> DEFINE p == target[e]
             g == WithRecovery(e, p)
             f == FoldResume(g, p)
             step == IF snap[e].attempts[p].started THEN "ready" ELSE "start"
             new == NewTask(step, log.attempts[p].grants + 1, SeqAfter(e, p))
  <2>1. p \in Positions /\ Live(e) = {}
    BY <1>2, <1>10 DEF AppendResume, AllTyped, ControlTyped
  <2>2. IsLog(g)
    <3>1. snap[e].attempts[p].seq + 1 \in Nat
      BY <1>1, <2>1 DEF IsLog, Attempt
    <3>2. QED
      BY <1>1, <2>1, <3>1, FoldsAreLogs DEF WithRecovery
  <2>3. IsLog(f)
    BY <2>1, <2>2, FoldsAreLogs, 0 \in Nat
  <2>4. snap[e].rev = log.rev => Adds(f, p) /\ f.attempts[p].grants = log.attempts[p].grants + 1
    <3>1. SUFFICES ASSUME snap[e] = log
                   PROVE  Adds(f, p) /\ f.attempts[p].grants = log.attempts[p].grants + 1
      BY <1>3, <1>10 DEF AppendResume, Deciding
    <3>2. log.attempts[p].status = "paused" \/ Uncertain(log.attempts[p])
      BY <1>10, <3>1 DEF AppendResume, InStep, DecisionFollows
    <3>3. QED
      BY <1>1, <2>1, <2>2, <3>1, <3>2, RecoveryAccepted, ResumeAccepted DEF Extends, Uncertain, Adds, Attempt
  <2>5. Advances
    BY <1>10, <2>1, <2>3, <2>4, CommitStores, ThrowStores, AddsAdvances DEF AppendResume
  <2>6. CASE Commits(e, snap[e].rev, f) /\ Spawns(e, [q \in {p} |-> new])
    <3>1. log'.attempts = f.attempts /\ snap[e].rev = log.rev
      BY <2>3, <2>6, CommitStores
    <3>2. new.grant = log.attempts[p].grants + 1
      BY DEF NewTask, NoTask
    <3>3. log'.attempts[p].status # "none" /\ log'.attempts[p].grants = log.attempts[p].grants + 1
      BY <2>4, <3>1 DEF Adds
    <3> HIDE DEF new
    <3>4. QED
      BY <1>4, <2>1, <2>5, <2>6, <3>2, <3>3, SpawnGrants
  <2>7. CASE task' = task
    BY <1>4, <2>5, <2>7, SameTasks
  <2>8. QED
    BY <1>10, <2>6, <2>7 DEF AppendResume
<1>11. QED
  BY <1>6, <1>7, <1>8, <1>9, <1>10 DEF OperationStep

(* So does every step of the host, and a crash.                             *)
LEMMA HostStepGrants ==
  ASSUME AllTyped, AllTyped', GrantInv, NEW e \in Executors, HostStep(e)
  PROVE  GrantInv' /\ Advances
<1>1. ran' = ran /\ log' = log /\ (task' = task \/ Gone(e))
  BY DEF HostStep, Create, Close, Crash, Gone, Abort, Rejects, Leave, Call
<1>2. Advances
  <2>1. \A p \in Positions : /\ log.attempts[p].grants \in Nat
                             /\ log.attempts[p].status = "none" => log.attempts[p].grants = 0
    BY DEF GrantInv, AllTyped, StreamTyped, IsLog, Attempt
  <2>2. QED
    BY <1>1, <2>1 DEF Advances
<1>3. CASE task' = task
  BY <1>1, <1>2, <1>3, SameTasks
<1>4. CASE Gone(e)
  <2>1. task'[e] = NoTasks /\ \A x \in Executors : x # e => task'[x] = task[x]
    BY <1>4 DEF Gone, AllTyped, TasksTyped
  <2>2. \A x \in Executors : \A k \in Positions \X Slots : Left(x, k)
    BY <2>1 DEF Left, NoTasks, NoTask
  <2>3. QED
    BY <1>1, <1>2, <2>2, LeftIsKept, AllLeft
<1>5. QED
  BY <1>1, <1>2, <1>3, <1>4
(* An executor holds what it held, or what the stream is, or nothing.      *)
LEMMA SnapMoves ==
  ASSUME AllTyped, NEW e \in Executors,
         HostStep(e) \/ OperationStep(e) \/ \E k \in Positions \X Slots : TaskStep(e, k)
  PROVE  snap'[e] \in {snap[e], EmptyLog, log}
<1> USE DEF AllTyped, ControlTyped
<1>1. ASSUME NEW how, Leave(e, how)
      PROVE  snap'[e] = EmptyLog
  BY <1>1 DEF Leave
<1>2. ASSUME NEW place, NEW t, At(e, place, t)
      PROVE  snap'[e] \in {snap[e], EmptyLog}
  BY <1>2 DEF At
<1>3. CASE HostStep(e)
  BY <1>1, <1>3 DEF HostStep, Create, Close, Crash, Gone, Abort, Rejects, Call
<1>4. CASE OperationStep(e)
  <2>1. CASE Read(e)
    BY <2>1 DEF Read
  <2>2. CASE Decides(e)
    BY <1>1, <1>2, <2>2 DEF Decides, Rejects
  <2>3. CASE AppendDispatch(e) \/ DecidesResume(e) \/ AppendReconcile(e) \/ AppendResume(e) \/ Awaited(e)
    BY <1>1, <1>2, <2>3 DEF AppendDispatch, DecidesResume, AppendReconcile, AppendResume, Awaited, Rejects
  <2>4. QED
    BY <1>4, <2>1, <2>2, <2>3 DEF OperationStep
<1>5. ASSUME NEW k \in Positions \X Slots, TaskStep(e, k)
      PROVE  snap'[e] \in {snap[e], EmptyLog}
  <2>1. CASE UNCHANGED exec
    BY <2>1 DEF exec
  <2>2. CASE Rejects(e)
    BY <1>1, <2>2 DEF Rejects
  <2>3. QED
    BY <1>5, <2>1, <2>2 DEF TaskStep, AppendStart, SkipRun, Invoke, RunReturns, AppendReceipt,
         AppendFact, AppendOutcome, TaskAppends, TaskThrows
<1>6. QED
  BY <1>3, <1>4, <1>5

(* An empty stream has no grants, and no code has run.                      *)
LEMMA InitGrants == Init => GrantInv /\ ReadIsKept
<1> SUFFICES ASSUME Init PROVE GrantInv /\ ReadIsKept
  OBVIOUS
<1>1. \A p \in Positions : EmptyLog.attempts[p].status = "none" /\ EmptyLog.attempts[p].grants = 0
  BY DEF EmptyLog, NoAttempt
<1>2. \A e \in Executors : Live(e) = {}
  BY DEF Init, Live, NoTasks, NoTask
<1>3. \A p \in Positions : ran[p] = <<>> /\ Len(ran[p]) = 0
  BY DEF Init
<1>4. QED
  BY <1>1, <1>2, <1>3 DEF Init, GrantInv, ReadIsKept, OneRunPerGrant

(* The invariant on grants is inductive, together with what executors know  *)
(* of the stream.                                                           *)
LEMMA NextGrants ==
  ASSUME AllTyped, AllTyped', StreamInv, GrantInv, ReadIsKept, [Next]_vars
  PROVE  GrantInv' /\ ReadIsKept'
<1>1. CASE UNCHANGED vars
  BY <1>1 DEF vars, exec, GrantInv, ReadIsKept, OneRunPerGrant, Live, Holds
<1>2. ASSUME NEW e \in Executors,
             HostStep(e) \/ OperationStep(e) \/ \E k \in Positions \X Slots : TaskStep(e, k)
      PROVE  GrantInv' /\ ReadIsKept'
  <2>1. GrantInv' /\ Advances
    BY <1>2, HostStepGrants, OperationStepGrants, TaskStepGrants DEF StreamInv
  <2>2. ASSUME NEW x \in Executors
        PROVE  snap'[x] \in {snap[x], EmptyLog, log}
    BY <1>2, SnapMoves, OneAtATime DEF Idle
  <2>3. \A p \in Positions : EmptyLog.attempts[p].status = "none"
    BY DEF EmptyLog, NoAttempt
  <2>4. ReadIsKept'
    BY <2>1, <2>2, <2>3 DEF ReadIsKept, Advances
  <2>5. QED
    BY <2>1, <2>4
<1>3. CASE OtherAppends
  <2>1. log'.attempts = log.attempts
    BY <1>3 DEF OtherAppends, Stored, AllTyped, StreamTyped, IsLog
  <2>2. QED
    BY <1>3, <2>1 DEF OtherAppends, exec, GrantInv, ReadIsKept, OneRunPerGrant, Live, Holds
<1>4. QED
  BY <1>1, <1>2, <1>3 DEF Next

(* However executors interleave, crash and lose appends, node code is run  *)
(* at most once for every start or resume that the stream holds, and never *)
(* for one it does not hold.                                               *)
THEOREM RunsAreGranted ==
  ASSUME HostWaits
  PROVE  Spec => []OneRunPerGrant
<1>1. Init => AllTyped /\ StreamInv /\ GrantInv /\ ReadIsKept
  BY InitTypes, InitInStep, InitGrants
<1>2. AllTyped /\ StreamInv /\ GrantInv /\ ReadIsKept /\ [Next]_vars
        => AllTyped' /\ StreamInv' /\ GrantInv' /\ ReadIsKept'
  BY NextTypes, NextInStep, NextGrants
<1>3. GrantInv => OneRunPerGrant
  BY DEF GrantInv
<1>4. QED
  BY <1>1, <1>2, <1>3, PTL DEF Spec
-----------------------------------------------------------------------------
(* Grants are asked for: beyond its first start, a position that is not    *)
(* retrySafe is granted again only against a pause that was recorded.      *)
Paid(a) == a.grants + (IF a.status = "paused" THEN 1 ELSE 0) <= a.pauses + (IF a.started THEN 1 ELSE 0)

AskedFor(p, a) == (a.retrySafe => p \in RetrySafe) /\ (p \notin RetrySafe => Paid(a))

Asked(f) == \A p \in Positions : AskedFor(p, f.attempts[p])

(* Folding an event keeps grants asked for, whether the fold accepts it or *)
(* not.                                                                    *)
LEMMA FoldsAreAsked ==
  ASSUME NEW f, IsLog(f), Asked(f), NEW p \in Positions, NEW n \in Nat, NEW type, NEW r
  PROVE  /\ Asked(FoldStart(f, p)) /\ Asked(FoldReceipt(f, p, n))
         /\ Asked(FoldPause(f, p)) /\ Asked(FoldSettle(f, p, type, r))
<1> DEFINE a == f.attempts[p]
<1>1. a \in Attempt /\ AskedFor(p, a)
  BY DEF IsLog, Asked
<1>2. Asked([f EXCEPT !.valid = FALSE])
  BY DEF IsLog, Asked
<1>3. Asked(FoldStart(f, p))
  <2>1. CASE a.status = "in-flight" /\ ~a.started
    <3>1. AskedFor(p, FoldStart(f, p).attempts[p])
      BY <1>1, <2>1 DEF FoldStart, Fold, IsLog, Attempt, AskedFor, Paid
    <3>2. \A q \in Positions : q # p => FoldStart(f, p).attempts[q] = f.attempts[q]
      BY <2>1 DEF FoldStart, Fold, IsLog
    <3>3. QED
      BY <3>1, <3>2 DEF Asked
  <2>2. QED
    BY <1>2, <2>1 DEF FoldStart, Fold
<1>4. Asked(FoldReceipt(f, p, n))
  <2> DEFINE ok == a.status = "in-flight" /\ a.started /\ n = a.seq + 1 /\ p \in EnginePositions
  <2>1. CASE ok
    <3>1. AskedFor(p, FoldReceipt(f, p, n).attempts[p])
      BY <1>1, <2>1 DEF FoldReceipt, Fold, IsLog, Attempt, AskedFor, Paid
    <3>2. \A q \in Positions : q # p => FoldReceipt(f, p, n).attempts[q] = f.attempts[q]
      BY <2>1 DEF FoldReceipt, Fold, IsLog
    <3>3. QED
      BY <3>1, <3>2 DEF Asked
  <2>2. QED
    BY <1>2, <2>1 DEF FoldReceipt, Fold
<1>5. Asked(FoldPause(f, p))
  <2>1. CASE a.status = "in-flight"
    <3>1. AskedFor(p, FoldPause(f, p).attempts[p])
      BY <1>1, <2>1 DEF FoldPause, Fold, IsLog, Attempt, AskedFor, Paid
    <3>2. \A q \in Positions : q # p => FoldPause(f, p).attempts[q] = f.attempts[q]
      BY <2>1 DEF FoldPause, Fold, IsLog
    <3>3. QED
      BY <3>1, <3>2 DEF Asked
  <2>2. QED
    BY <1>2, <2>1 DEF FoldPause, Fold
<1>6. Asked(FoldSettle(f, p, type, r))
  <2>1. CASE a.status = "in-flight"
    <3>1. AskedFor(p, FoldSettle(f, p, type, r).attempts[p])
      BY <1>1, <2>1 DEF FoldSettle, Fold, IsLog, Attempt, AskedFor, Paid
    <3>2. \A q \in Positions : q # p => FoldSettle(f, p, type, r).attempts[q] = f.attempts[q]
      BY <2>1 DEF FoldSettle, Fold, IsLog
    <3>3. QED
      BY <3>1, <3>2 DEF Asked
  <2>2. QED
    BY <1>2, <2>1 DEF FoldSettle, Fold
<1>7. QED
  BY <1>3, <1>4, <1>5, <1>6

(* Dispatched positions have no grant yet.                                 *)
LEMMA DispatchesAreAsked ==
  ASSUME NEW f, IsLog(f), Asked(f), NEW P
  PROVE  Asked(FoldDispatches(f, P))
<1>1. Asked([f EXCEPT !.valid = FALSE])
  BY DEF IsLog, Asked
<1>2. \A p \in Positions : AskedFor(p, [NoAttempt EXCEPT !.status = "in-flight"])
  BY DEF AskedFor, Paid, NoAttempt
<1>3. QED
  BY <1>1, <1>2 DEF FoldDispatches, Fold, IsLog, Asked

(* A resume spends a pause, unless the position may run again unasked.     *)
LEMMA ResumeIsAsked ==
  ASSUME NEW f, IsLog(f), Asked(f), NEW p \in Positions,
         f.attempts[p].status = "paused" \/ p \in RetrySafe
  PROVE  Asked(FoldResume(f, p))
<1> DEFINE a == f.attempts[p]
           ok == a.status = "paused" \/ (a.status = "in-flight" /\ a.started)
<1>1. a \in Attempt /\ AskedFor(p, a)
  BY DEF IsLog, Asked
<1>2. CASE ok
  <2>1. AskedFor(p, FoldResume(f, p).attempts[p])
    BY <1>1, <1>2 DEF FoldResume, Fold, IsLog, Attempt, AskedFor, Paid
  <2>2. \A q \in Positions : q # p => FoldResume(f, p).attempts[q] = f.attempts[q]
    BY <1>2 DEF FoldResume, Fold, IsLog
  <2>3. QED
    BY <2>1, <2>2 DEF Asked
<1>3. CASE ~ok
  BY <1>3 DEF FoldResume, Fold, IsLog, Asked
<1>4. QED
  BY <1>2, <1>3

(* An append leaves the record as it was, or stores what was folded.       *)
LEMMA AppendIsAsked ==
  ASSUME Asked(log), NEW e \in Executors, NEW n, NEW f, IsLog(f), n = log.rev => Asked(f),
         Commits(e, n, f) \/ Throws(n, f)
  PROVE  Asked(log)'
<1>1. log' = log \/ (n = log.rev /\ log'.attempts = f.attempts)
  BY CommitStores, ThrowStores
<1>2. QED
  BY <1>1 DEF Asked

(* No step of an attempt grants anything that was not asked for.            *)
LEMMA TaskStepAsked ==
  ASSUME AllTyped, Asked(log), NEW e \in Executors, NEW k \in Positions \X Slots, TaskStep(e, k)
  PROVE  Asked(log)'
<1>1. k[1] \in Positions /\ IsLog(log) /\ task[e][k].seq + 1 \in Nat /\ 0 \in Nat
  BY DEF AllTyped, StreamTyped, TasksTyped, Task
<1>2. ASSUME NEW f, IsLog(f), Asked(f), NEW t, TaskAppends(e, k, f, t)
      PROVE  Asked(log)'
  BY <1>2, AppendIsAsked DEF TaskAppends
<1>3. CASE AppendStart(e, k)
  BY <1>1, <1>2, <1>3, FoldsAreLogs, FoldsAreAsked DEF AppendStart
<1>4. CASE SkipRun(e, k) \/ Invoke(e, k) \/ RunReturns(e, k)
  BY <1>4 DEF SkipRun, Invoke, RunReturns, Asked
<1>5. CASE AppendReceipt(e, k)
  BY <1>1, <1>2, <1>5, FoldsAreLogs, FoldsAreAsked DEF AppendReceipt
<1>6. CASE AppendFact(e, k)
  BY <1>1, <1>6, AppendIsAsked DEF AppendFact
<1>7. CASE AppendOutcome(e, k)
  <2>1. PICK f : IsLog(f) /\ Asked(f) /\ TaskAppends(e, k, f, NoTask)
    BY <1>1, <1>7, FoldsAreLogs, FoldsAreAsked DEF AppendOutcome
  <2>2. QED
    BY <1>2, <2>1
<1>8. QED
  BY <1>3, <1>4, <1>5, <1>6, <1>7 DEF TaskStep

(* No operation does: a resume is recorded on the stream it was decided on, *)
(* where the position is paused or may run again.                           *)
LEMMA OperationStepAsked ==
  ASSUME AllTyped, Asked(log), NEW e \in Executors, InStep(e), OperationStep(e)
  PROVE  Asked(log)'
<1> DEFINE p == target[e]
           g == WithRecovery(e, p)
<1>1. IsLog(log) /\ IsLog(snap[e]) /\ 0 \in Nat
  BY DEF AllTyped, StreamTyped, ControlTyped
<1>2. ASSUME pc[e] \in Deciding, snap[e].rev = log.rev
      PROVE  snap[e] = log
  BY <1>2 DEF InStep, ReadIsFresh
<1>3. ASSUME p \in Positions
      PROVE  IsLog(g) /\ Asked(g)
  <2>1. snap[e].attempts[p].seq + 1 \in Nat
    BY <1>1, <1>3 DEF IsLog, Attempt
  <2>2. QED
    BY <1>1, <1>3, <2>1, FoldsAreLogs, FoldsAreAsked DEF WithRecovery
<1>4. CASE Read(e) \/ Decides(e) \/ DecidesResume(e) \/ Awaited(e)
  BY <1>4 DEF Read, Decides, DecidesResume, Awaited, Asked
<1>5. CASE AppendDispatch(e)
  <2> DEFINE f == FoldDispatches(log, Decided(e))
  <2>1. IsLog(f) /\ Asked(f)
    BY <1>1, DispatchesAreLogs, DispatchesAreAsked
  <2>2. Commits(e, snap[e].rev, f) \/ Throws(snap[e].rev, f)
    BY <1>5 DEF AppendDispatch, Throws
  <2>3. QED
    BY <2>1, <2>2, AppendIsAsked
<1>6. CASE AppendReconcile(e)
  <2> DEFINE f == FoldPause(g, p)
  <2>1. p \in Positions
    BY <1>6 DEF AppendReconcile, AllTyped, ControlTyped
  <2>2. IsLog(f) /\ Asked(f)
    BY <1>1, <1>3, <2>1, FoldsAreLogs, FoldsAreAsked
  <2>3. QED
    BY <1>6, <2>2, AppendIsAsked DEF AppendReconcile
<1>7. CASE AppendResume(e)
  <2> DEFINE f == FoldResume(g, p)
  <2>1. p \in Positions
    BY <1>7 DEF AppendResume, AllTyped, ControlTyped
  <2>2. IsLog(f)
    BY <1>1, <1>3, <2>1, FoldsAreLogs
  <2>3. ASSUME snap[e].rev = log.rev
        PROVE  Asked(f)
    <3>1. snap[e] = log
      BY <1>2, <1>7, <2>3 DEF AppendResume, Deciding
    <3>2. log.attempts[p].status = "paused" \/ (Uncertain(log.attempts[p]) /\ log.attempts[p].retrySafe)
      BY <1>7, <3>1 DEF AppendResume, InStep, DecisionFollows
    <3>3. CASE log.attempts[p].status = "paused"
      <4>1. g = log
        BY <3>1, <3>3 DEF WithRecovery, Recovers, Uncertain
      <4>2. QED
        BY <1>1, <2>1, <3>3, <4>1, ResumeIsAsked
    <3>4. CASE log.attempts[p].retrySafe
      <4>1. p \in RetrySafe
        BY <2>1, <3>4 DEF Asked, AskedFor
      <4>2. QED
        BY <1>3, <2>1, <4>1, ResumeIsAsked
    <3>5. QED
      BY <3>2, <3>3, <3>4
  <2>4. QED
    BY <1>7, <2>2, <2>3, AppendIsAsked DEF AppendResume
<1>8. QED
  BY <1>4, <1>5, <1>6, <1>7 DEF OperationStep

(* That grants are asked for is inductive.                                  *)
LEMMA NextAsked ==
  ASSUME AllTyped, StreamInv, Asked(log), [Next]_vars
  PROVE  Asked(log)'
<1>1. CASE UNCHANGED vars
  BY <1>1 DEF vars, Asked
<1>2. ASSUME NEW e \in Executors, HostStep(e)
      PROVE  Asked(log)'
  BY <1>2 DEF HostStep, Create, Close, Crash, Gone, Abort, Call, Asked
<1>3. ASSUME NEW e \in Executors,
             OperationStep(e) \/ \E k \in Positions \X Slots : TaskStep(e, k)
      PROVE  Asked(log)'
  BY <1>3, OperationStepAsked, TaskStepAsked DEF StreamInv
<1>4. CASE OtherAppends
  BY <1>4 DEF OtherAppends, Stored, Asked, AllTyped, StreamTyped, IsLog
<1>5. QED
  BY <1>1, <1>2, <1>3, <1>4 DEF Next

(* Distinct numbers between 1 and g are no more than g.                    *)
LEMMA DistinctAreFew ==
  ASSUME NEW s \in Seq(Nat), NEW g \in Nat,
         \A i \in 1..Len(s) : s[i] # 0 /\ s[i] <= g,
         \A i, j \in 1..Len(s) : s[i] = s[j] => i = j
  PROVE  Len(s) <= g
<1> DEFINE h == [i \in 1..Len(s) |-> s[i]]
<1>1. Len(s) \in Nat /\ \A i \in 1..Len(s) : s[i] \in 1..g
  OBVIOUS
<1>2. h \in Injection(1..Len(s), 1..g)
  BY <1>1 DEF Injection, IsInjective
<1>3. ASSUME NEW n \in Nat
      PROVE  IsFiniteSet(1..n) /\ Cardinality(1..n) = n
  <2>1. n \in Int /\ 1 \in Int
    OBVIOUS
  <2>2. IsFiniteSet(1..n) /\ Cardinality(1..n) = IF 1 > n THEN 0 ELSE n - 1 + 1
    BY <2>1, FS_Interval, Zenon
  <2>3. QED
    BY <2>2
<1>4. Cardinality(1..Len(s)) <= Cardinality(1..g)
  BY <1>2, <1>3, FS_Injection
<1>5. QED
  BY <1>1, <1>3, <1>4

(* However executors interleave, crash and lose appends, node code that is *)
(* not bound retrySafe runs once, and again only as often as a pause was   *)
(* recorded, that is after the host was asked.                             *)
THEOREM RerunsAreAsked ==
  ASSUME HostWaits
  PROVE  Spec => []RerunOnlyAfterPause
<1>1. Init => AllTyped /\ StreamInv /\ GrantInv /\ ReadIsKept /\ Asked(log)
  <2>1. ASSUME Init
        PROVE  Asked(log)
    BY <2>1 DEF Init, EmptyLog, NoAttempt, Asked, AskedFor, Paid
  <2>2. QED
    BY <2>1, InitTypes, InitInStep, InitGrants
<1>2. AllTyped /\ StreamInv /\ GrantInv /\ ReadIsKept /\ Asked(log) /\ [Next]_vars
        => AllTyped' /\ StreamInv' /\ GrantInv' /\ ReadIsKept' /\ Asked(log)'
  BY NextTypes, NextInStep, NextGrants, NextAsked
<1>3. AllTyped /\ GrantInv /\ Asked(log) => RerunOnlyAfterPause
  <2> SUFFICES ASSUME AllTyped, GrantInv, Asked(log), NEW p \in Positions \ RetrySafe
               PROVE  Len(ran[p]) <= 1 + log.attempts[p].pauses
    BY DEF RerunOnlyAfterPause
  <2>1. log.attempts[p] \in Attempt /\ ran[p] \in Seq(Nat)
    BY DEF AllTyped, StreamTyped, HistoryTyped, IsLog
  <2>2. log.attempts[p].grants <= 1 + log.attempts[p].pauses
    BY <2>1 DEF Asked, AskedFor, Paid, Attempt
  <2>3. Len(ran[p]) <= log.attempts[p].grants
    <3>1. /\ \A i \in 1..Len(ran[p]) : ran[p][i] # 0 /\ ran[p][i] <= log.attempts[p].grants
          /\ \A i, j \in 1..Len(ran[p]) : ran[p][i] = ran[p][j] => i = j
      BY DEF GrantInv, OneRunPerGrant
    <3>2. log.attempts[p].grants \in Nat
      BY <2>1 DEF Attempt
    <3>3. QED
      BY <2>1, <3>1, <3>2, DistinctAreFew
  <2>4. QED
    BY <2>1, <2>2, <2>3 DEF Attempt
<1>4. QED
  BY <1>1, <1>2, <1>3, PTL DEF Spec

-----------------------------------------------------------------------------
(* One executor at a time.  Under a process lock only writers that are no   *)
(* executors come in between, and what these record is none of an attempt's *)
(* concern: what an executor read of the attempts stays as it is while it   *)
(* decides, an attempt at work is in flight in the record, and the receipts *)
(* recorded account for every engine call but the one whose receipt an      *)
(* attempt has still to record.                                             *)
Alone == \A e, x \in Executors : up[e] /\ up[x] => e = x

(* n engine calls were made for a position whose attempt is recorded as a.  *)
CallsKnown(a, n) ==
  /\ n <= a.seq + (IF Uncertain(a) THEN 1 ELSE 0)
  /\ a.status = "none" => n = 0

(* An attempt t at work on position p, which is recorded as a.              *)
IsHeld(p, a, n, t) ==
  /\ a.status = "in-flight"
  /\ t.step # "start" => a.started
  /\ p \in EnginePositions => n <= a.seq + (IF t.step \in {"run", "receipt"} THEN 1 ELSE 0)

(* What an executor has in hand is as the record says.                      *)
HoldsOpen(e) ==
  /\ pc[e] \in Deciding => snap[e].attempts = log.attempts
  /\ \A k \in Live(e) : IsHeld(k[1], log.attempts[k[1]], called[k[1]], task[e][k])

CallsCounted == \A p \in EnginePositions : CallsKnown(log.attempts[p], called[p])

(* The invariant of a run under a process lock.                             *)
HeldInv == Alone /\ CallsCounted /\ \A e \in Executors : HoldsOpen(e)

(* Counted calls and the numbers they are compared with.                    *)
LEMMA CallsAreNumbers ==
  ASSUME AllTyped, NEW p \in Positions
  PROVE  log.attempts[p] \in Attempt /\ log.attempts[p].seq \in Nat /\ called[p] \in Nat
  BY DEF AllTyped, StreamTyped, HistoryTyped, IsLog, Attempt

(* Only the executor that is up has anything in hand.                       *)
LEMMA OnlyOneHolds ==
  ASSUME StreamInv, HeldInv, NEW e \in Executors, up[e], up' = up,
         \A x \in Executors : x # e => Idle(x), HoldsOpen(e)', CallsCounted'
  PROVE  HeldInv'
<1>1. ASSUME NEW x \in Executors, x # e
      PROVE  HoldsOpen(x)'
  <2>1. ~up[x]
    BY <1>1 DEF HeldInv, Alone
  <2>2. pc'[x] = "idle" /\ Live(x)' = {}
    BY <1>1, <2>1 DEF StreamInv, InStep, WorkIsAwaited, Idle, Live
  <2>3. QED
    BY <2>2 DEF HoldsOpen, Deciding
<1>2. QED
  BY <1>1 DEF HeldInv, Alone

(* An append by an attempt that, if it is stored, leaves the calls of its   *)
(* position counted and, if it also returns, the attempt held.              *)
LEMMA TaskAppendHolds ==
  ASSUME AllTyped, StreamInv, HeldInv, NEW e \in Executors, NEW k \in Live(e), NEW f, IsLog(f), NEW t,
         appendRev[e] = log.rev =>
           /\ Extends(log, f, k[1])
           /\ k[1] \in EnginePositions => CallsKnown(f.attempts[k[1]], called[k[1]])
           /\ t = NoTask \/ IsHeld(k[1], f.attempts[k[1]], called[k[1]], t),
         called' = called, TaskAppends(e, k, f, t)
  PROVE  HoldsOpen(e)' /\ CallsCounted' /\ up' = up
<1>1. /\ up[e] /\ pc[e] \in {"idle", "await"} /\ k \in Positions \X Slots /\ InStep(e)
      /\ EnginePositions \subseteq Positions
  BY AtWork, EnginePositionsArePositions DEF Live, StreamInv
<1>2. CASE Commits(e, appendRev[e], f) /\ SetTask(e, k, t) /\ UNCHANGED exec
  <2>1. appendRev[e] = log.rev /\ log'.attempts = f.attempts
    BY <1>2, CommitStores
  <2>2. /\ task'[e][k] = t
        /\ \A h \in Positions \X Slots : h # k => task'[e][h] = task[e][h]
    BY <1>1, <1>2 DEF SetTask, AllTyped, TasksTyped
  <2>3. up' = up /\ pc' = pc
    BY <1>2 DEF exec
  <2>4. ASSUME NEW h \in Live(e)'
        PROVE  IsHeld(h[1], log'.attempts[h[1]], called'[h[1]], task'[e][h])
    <3>1. CASE h = k
      <4>1. t # NoTask
        BY <1>1, <2>2, <3>1 DEF Live, NoTask
      <4>2. QED
        BY <2>1, <2>2, <3>1, <4>1
    <3>2. CASE h # k
      <4>1. h \in Live(e) /\ h \in Positions \X Slots /\ task'[e][h] = task[e][h]
        BY <2>2, <3>2 DEF Live
      <4>2. h[1] # k[1]
        BY <1>1, <3>2, <4>1 DEF InStep, WorkIsInStep
      <4>3. log'.attempts[h[1]] = log.attempts[h[1]]
        BY <2>1, <4>1, <4>2 DEF Extends
      <4>4. IsHeld(h[1], log.attempts[h[1]], called[h[1]], task[e][h])
        BY <4>1 DEF HeldInv, HoldsOpen
      <4>5. QED
        BY <4>1, <4>3, <4>4
    <3>3. QED
      BY <3>1, <3>2
  <2>5. CallsCounted'
    BY <1>1, <2>1 DEF HeldInv, CallsCounted, Extends
  <2>6. QED
    BY <1>1, <2>3, <2>4, <2>5 DEF HoldsOpen, Deciding
<1>3. CASE Throws(appendRev[e], f) /\ TaskThrows(e, k)
  <2>1. log' = log \/ (appendRev[e] = log.rev /\ log'.attempts = f.attempts)
    BY <1>3, ThrowStores
  <2>2. up' = up /\ pc'[e] \in {"idle", "await"}
    BY <1>1, <1>3 DEF TaskThrows, Rejects, Leave, exec, AllTyped, ControlTyped
  <2>3. ASSUME NEW h \in Live(e)'
        PROVE  h \in Live(e) /\ h # k /\ task'[e][h].step = task[e][h].step
    <3>1. h \in Positions \X Slots /\ task'[e][h].step # "none"
      BY DEF Live
    <3>2. task[e][h] \in Task
      BY <3>1 DEF AllTyped, TasksTyped
    <3>3. task'[e][k].step = "none"
      BY <1>1, <1>3 DEF TaskThrows, Disowned, NoTask, AllTyped, TasksTyped
    <3>4. h # k
      BY <3>1, <3>3
    <3>5. k \in Positions \X Slots
      BY <1>1
    <3>6. task'[e][h].step = task[e][h].step
      BY <1>3, <3>1, <3>2, <3>4, <3>5 DEF TaskThrows, Disowned, AllTyped, TasksTyped, Task
    <3>7. QED
      BY <3>1, <3>4, <3>6 DEF Live
  <2>4. ASSUME NEW h \in Live(e)'
        PROVE  IsHeld(h[1], log'.attempts[h[1]], called'[h[1]], task'[e][h])
    <3>1. h \in Live(e) /\ h[1] \in Positions \ {k[1]} /\ task'[e][h].step = task[e][h].step
      BY <1>1, <2>3 DEF InStep, WorkIsInStep, Live
    <3>2. log'.attempts[h[1]] = log.attempts[h[1]]
      BY <2>1, <3>1 DEF Extends
    <3>3. IsHeld(h[1], log.attempts[h[1]], called[h[1]], task[e][h])
      BY <3>1 DEF HeldInv, HoldsOpen
    <3>4. QED
      BY <3>1, <3>2, <3>3 DEF IsHeld
  <2>5. CallsCounted'
    BY <1>1, <2>1 DEF HeldInv, CallsCounted, Extends
  <2>6. QED
    BY <2>2, <2>4, <2>5 DEF HoldsOpen, Deciding
<1>4. QED
  BY <1>2, <1>3 DEF TaskAppends

(* A step of an attempt that changes no attempt of the record.              *)
LEMMA SetTaskHolds ==
  ASSUME AllTyped, StreamInv, HeldInv, NEW e \in Executors, NEW k \in Live(e), NEW t,
         log'.attempts = log.attempts, UNCHANGED exec, SetTask(e, k, t), t.step # "none",
         called' \in [Positions -> Nat], \A p \in Positions : p # k[1] => called'[p] = called[p],
         IsHeld(k[1], log.attempts[k[1]], called'[k[1]], t),
         k[1] \in EnginePositions => CallsKnown(log.attempts[k[1]], called'[k[1]])
  PROVE  HoldsOpen(e)' /\ CallsCounted' /\ up' = up
<1>1. /\ pc[e] \in {"idle", "await"} /\ k \in Positions \X Slots /\ InStep(e)
      /\ EnginePositions \subseteq Positions
  BY AtWork, EnginePositionsArePositions DEF Live, StreamInv
<1>2. /\ task'[e][k] = t
      /\ \A h \in Positions \X Slots : h # k => task'[e][h] = task[e][h]
  BY <1>1 DEF SetTask, AllTyped, TasksTyped
<1>3. ASSUME NEW h \in Live(e)'
      PROVE  IsHeld(h[1], log'.attempts[h[1]], called'[h[1]], task'[e][h])
  <2>1. CASE h = k
    BY <1>2, <2>1
  <2>2. CASE h # k
    <3>1. h \in Live(e) /\ h[1] \in Positions /\ task'[e][h] = task[e][h]
      BY <1>2, <2>2 DEF Live
    <3>2. h[1] # k[1]
      BY <1>1, <2>2, <3>1 DEF InStep, WorkIsInStep
    <3>3. IsHeld(h[1], log.attempts[h[1]], called[h[1]], task[e][h])
      BY <3>1 DEF HeldInv, HoldsOpen
    <3>4. QED
      BY <3>1, <3>2, <3>3
  <2>3. QED
    BY <2>1, <2>2
<1>4. CallsCounted'
  BY <1>1 DEF HeldInv, CallsCounted
<1>5. QED
  BY <1>1, <1>3, <1>4 DEF HoldsOpen, Deciding, exec

(* A call counts for its own position alone.                               *)
LEMMA CallIsOne ==
  ASSUME AllTyped, NEW e \in Executors, NEW k \in Positions \X Slots,
         called' = called \/ CallEngine(e, k)
  PROVE  /\ called' \in [Positions -> Nat]
         /\ \A q \in Positions : q # k[1] => called'[q] = called[q]
<1>1. k[1] \in Positions /\ called \in [Positions -> Nat]
  BY DEF AllTyped, HistoryTyped
<1>2. [called EXCEPT ![k[1]] = @ + 1] \in [Positions -> Nat]
  BY <1>1
<1>3. CASE called' = called
  BY <1>1, <1>3
<1>4. CASE called' = [called EXCEPT ![k[1]] = @ + 1]
  BY <1>1, <1>2, <1>4
<1>5. QED
  BY <1>3, <1>4 DEF CallEngine

(* Every step of an attempt keeps what its executor holds.                  *)
LEMMA TaskStepHolds ==
  ASSUME AllTyped, StreamInv, HeldInv, NEW e \in Executors, NEW k \in Positions \X Slots,
         TaskStep(e, k)
  PROVE  HoldsOpen(e)' /\ CallsCounted' /\ up' = up /\ up[e]
<1> DEFINE t == task[e][k]
           p == k[1]
           a == log.attempts[p]
           n == called[p]
<1>1. /\ p \in Positions /\ t \in Task /\ IsLog(log) /\ log.valid /\ InStep(e)
      /\ a \in Attempt /\ a.seq \in Nat /\ n \in Nat /\ a.seq + 1 \in Nat
  <2>1. p \in Positions /\ t \in Task /\ IsLog(log) /\ log.valid /\ InStep(e)
    BY DEF AllTyped, TasksTyped, StreamTyped, StreamInv, LogFolds
  <2>2. a \in Attempt /\ a.seq \in Nat /\ n \in Nat
    BY <2>1, CallsAreNumbers
  <2>3. a.seq + 1 \in Nat
    BY <2>2
  <2>4. QED
    BY <2>1, <2>2, <2>3
<1>2. k \in Live(e) /\ t.step # "none"
  BY DEF TaskStep, AppendStart, SkipRun, Invoke, RunReturns, AppendReceipt, AppendFact,
         AppendOutcome, Live
<1>2a. up[e]
  BY <1>1, <1>2, AtWork
<1>3. appendRev[e] = log.rev => Agrees(k, t)
  BY <1>1, <1>2 DEF InStep, WorkIsInStep
<1>4. /\ IsHeld(p, a, n, t)
      /\ p \in EnginePositions => CallsKnown(a, n)
      /\ t.step \in {"receipt", "fact"} => p \in EnginePositions
  BY <1>1, <1>2 DEF HeldInv, CallsCounted, HoldsOpen, InStep, WorkIsInStep
<1>5. ASSUME UNCHANGED <<log, exec>>, called' = called \/ CallEngine(e, k), NEW u, SetTask(e, k, u),
             u.step # "none", u.step # "start", t.step # "start",
             p \in EnginePositions =>
               called'[p] <= a.seq + (IF u.step \in {"run", "receipt"} THEN 1 ELSE 0)
      PROVE  HoldsOpen(e)' /\ CallsCounted' /\ up' = up
  <2>1. called' \in [Positions -> Nat] /\ \A q \in Positions : q # p => called'[q] = called[q]
    BY <1>5, CallIsOne
  <2>2. IsHeld(p, a, called'[p], u)
    BY <1>4, <1>5 DEF IsHeld
  <2>3. p \in EnginePositions => CallsKnown(a, called'[p])
    <3>1. Uncertain(a) /\ a.status # "none"
      BY <1>4, <1>5 DEF IsHeld, Uncertain
    <3>2. called'[p] \in Nat
      BY <1>1, <2>1
    <3>3. QED
      BY <1>1, <1>5, <3>1, <3>2 DEF CallsKnown
  <2>4. QED
    BY <1>2, <1>5, <2>1, <2>2, <2>3, SetTaskHolds
<1>6. CASE AppendStart(e, k)
  <2> DEFINE u == [t EXCEPT !.step = "ready", !.grant = log.attempts[k[1]].grants + 1]
             f == FoldStart(log, p)
  <2>1. u.step = "ready"
    BY <1>1 DEF Task
  <2>2. IsLog(f)
    BY <1>1, FoldsAreLogs
  <2>3. appendRev[e] = log.rev =>
          /\ Extends(log, f, p) /\ f.attempts[p].status = "in-flight" /\ f.attempts[p].started
          /\ f.attempts[p].seq = a.seq
    BY <1>1, <1>3, <1>6, StartAccepted DEF Agrees, AppendStart
  <2>4. appendRev[e] = log.rev => IsHeld(p, f.attempts[p], n, u)
    BY <1>4, <1>6, <2>1, <2>3 DEF IsHeld, AppendStart
  <2>5. appendRev[e] = log.rev /\ p \in EnginePositions => CallsKnown(f.attempts[p], n)
    BY <1>1, <1>4, <1>6, <2>3 DEF IsHeld, CallsKnown, AppendStart
  <2>6. QED
    BY <1>2, <1>2a, <1>6, <2>2, <2>3, <2>4, <2>5, TaskAppendHolds DEF AppendStart
<1>7. CASE SkipRun(e, k)
  <2>1. PICK u : SetTask(e, k, u) /\ u.step = "result"
    <3>1. /\ [t EXCEPT !.step = "result", !.out = "failed"].step = "result"
          /\ [t EXCEPT !.step = "result", !.out = "paused"].step = "result"
      BY <1>1 DEF Task
    <3>2. QED
      BY <1>7, <3>1 DEF SkipRun
  <2>2. p \in EnginePositions => n <= a.seq
    BY <1>1, <1>4, <1>7 DEF IsHeld, SkipRun
  <2>3. QED
    BY <1>1, <1>2a, <1>5, <1>7, <2>1, <2>2 DEF SkipRun
<1>8. CASE Invoke(e, k)
  <2> DEFINE u == [t EXCEPT !.step = "run", !.calls = 1]
  <2>1. u.step = "run" /\ SetTask(e, k, u)
    BY <1>1, <1>8 DEF Invoke, Task
  <2>2. p \in EnginePositions => called'[p] <= a.seq + 1
    BY <1>1, <1>4, <1>8 DEF IsHeld, Invoke, CallEngine, IsEngine, AllTyped, HistoryTyped
  <2>3. QED
    BY <1>1, <1>2a, <1>5, <1>8, <2>1, <2>2 DEF Invoke
<1>9. CASE RunReturns(e, k)
  <2>1. PICK u : /\ SetTask(e, k, u)
                 /\ u.step = IF IsEngine(k) THEN "receipt" ELSE "result"
    <3>1. PICK out : SetTask(e, k, [t EXCEPT !.step = IF IsEngine(k) THEN "receipt" ELSE "result",
                                             !.out = out])
      BY <1>9 DEF RunReturns
    <3>2. [t EXCEPT !.step = IF IsEngine(k) THEN "receipt" ELSE "result", !.out = out].step
            = IF IsEngine(k) THEN "receipt" ELSE "result"
      BY <1>1 DEF Task
    <3>3. QED
      BY <3>1, <3>2
  <2>2. p \in EnginePositions => u.step = "receipt" /\ n <= a.seq + 1
    BY <1>1, <1>4, <1>9, <2>1 DEF IsHeld, RunReturns, IsEngine
  <2>3. u.step \in {"receipt", "result"} /\ t.step = "run"
    BY <1>9, <2>1 DEF RunReturns
  <2>4. QED
    BY <1>1, <1>2a, <1>5, <1>9, <2>1, <2>2, <2>3 DEF RunReturns
<1>10. CASE AppendReceipt(e, k)
  <2> DEFINE f == FoldReceipt(log, p, t.seq + 1)
  <2>1. PICK step \in {"result", "fact"} :
          TaskAppends(e, k, f, [t EXCEPT !.step = step, !.seq = @ + 1])
    BY <1>10 DEF AppendReceipt
  <2> DEFINE u == [t EXCEPT !.step = step, !.seq = @ + 1]
  <2>2. u.step = step
    BY <1>1 DEF Task
  <2>3. IsLog(f) /\ p \in EnginePositions
    BY <1>1, <1>4, <1>10, FoldsAreLogs DEF Task, AppendReceipt
  <2>4. appendRev[e] = log.rev =>
          /\ Extends(log, f, p) /\ f.attempts[p].status = "in-flight" /\ f.attempts[p].started
          /\ f.attempts[p].seq = a.seq + 1
    BY <1>1, <1>3, <1>10, <2>3, ReceiptAccepted DEF Agrees, AppendReceipt
  <2>5. n <= a.seq + 1
    BY <1>1, <1>4, <1>10, <2>3 DEF IsHeld, AppendReceipt
  <2>6. appendRev[e] = log.rev => IsHeld(p, f.attempts[p], n, u) /\ CallsKnown(f.attempts[p], n)
    BY <1>1, <2>2, <2>4, <2>5 DEF IsHeld, CallsKnown
  <2>7. QED
    BY <1>2, <1>2a, <1>10, <2>1, <2>3, <2>4, <2>6, TaskAppendHolds DEF AppendReceipt
<1>11. CASE AppendFact(e, k)
  <2>1. log'.attempts = log.attempts
    BY <1>1, <1>11 DEF AppendFact, Commits, Throws, Conflicts, StorageFails, Stored, IsLog
  <2>2. t.step = "fact" /\ p \in EnginePositions /\ n <= a.seq /\ UNCHANGED exec
    BY <1>1, <1>4, <1>11 DEF IsHeld, AppendFact
  <2>3. PICK u : /\ SetTask(e, k, u)
                 /\ \/ u.step = "run" /\ CallEngine(e, k)
                    \/ u.step = "result" /\ called' = called
    <3>1. /\ [t EXCEPT !.step = "run", !.calls = 2].step = "run"
          /\ [t EXCEPT !.step = "result"].step = "result"
      BY <1>1 DEF Task
    <3>2. QED
      BY <1>11, <3>1 DEF AppendFact
  <2>4. called' \in [Positions -> Nat] /\ \A q \in Positions : q # p => called'[q] = called[q]
    BY <2>3, CallIsOne
  <2>5. called'[p] <= a.seq + (IF u.step \in {"run", "receipt"} THEN 1 ELSE 0)
    BY <1>1, <2>2, <2>3 DEF CallEngine, IsEngine, AllTyped, HistoryTyped
  <2>6. IsHeld(p, a, called'[p], u)
    BY <1>4, <2>2, <2>5 DEF IsHeld
  <2>7. CallsKnown(a, called'[p])
    <3>1. Uncertain(a) /\ a.status # "none"
      BY <1>4, <2>2 DEF IsHeld, Uncertain
    <3>2. called'[p] \in Nat
      BY <1>1, <2>4
    <3>3. QED
      BY <1>1, <2>5, <3>1, <3>2 DEF CallsKnown
  <2>8. QED
    BY <1>2, <1>2a, <2>1, <2>2, <2>3, <2>4, <2>6, <2>7, SetTaskHolds
<1>12. CASE AppendOutcome(e, k)
  <2>1. PICK f : /\ IsLog(f) /\ TaskAppends(e, k, f, NoTask)
                 /\ appendRev[e] = log.rev =>
                      /\ Extends(log, f, p) /\ f.attempts[p].seq = a.seq
                      /\ f.attempts[p].status # "none"
    BY <1>1, <1>3, <1>12, FoldsAreLogs, EndAccepted DEF AppendOutcome, Agrees
  <2>2. p \in EnginePositions => n <= a.seq
    BY <1>1, <1>4, <1>12 DEF IsHeld, AppendOutcome
  <2>3. appendRev[e] = log.rev /\ p \in EnginePositions => CallsKnown(f.attempts[p], n)
    BY <1>1, <2>1, <2>2 DEF CallsKnown
  <2>4. QED
    BY <1>2, <1>2a, <1>12, <2>1, <2>3, TaskAppendHolds DEF AppendOutcome
<1>13. QED
  BY <1>2a, <1>6, <1>7, <1>8, <1>9, <1>10, <1>11, <1>12 DEF TaskStep

(* The attempts an executor without any sets going on open positions.       *)
LEMMA SpawnHolds ==
  ASSUME AllTyped, NEW e \in Executors, Live(e) = {}, NEW tasks, Spawns(e, tasks),
         pc'[e] = "await", called' = called,
         \A p \in DOMAIN tasks \cap Positions : IsHeld(p, log'.attempts[p], called[p], tasks[p])
  PROVE  HoldsOpen(e)'
<1>1. PICK s \in Slots : task' = [task EXCEPT ![e] = [k \in Positions \X Slots |->
         IF k[1] \in DOMAIN tasks /\ k[2] = s THEN tasks[k[1]] ELSE @[k]]]
  BY DEF Spawns
<1>2. ASSUME NEW k \in Live(e)'
      PROVE  k[1] \in DOMAIN tasks \cap Positions /\ task'[e][k] = tasks[k[1]]
  BY <1>1, <1>2 DEF Live, AllTyped, TasksTyped
<1>3. QED
  BY <1>2 DEF HoldsOpen, Deciding

(* An executor without attempts that leaves its operation or reads again.   *)
LEMMA LeaveHolds ==
  ASSUME AllTyped, NEW e \in Executors, Live(e) = {}, task' = task,
         (\E how : Leave(e, how)) \/ At(e, "read", NoPosition)
  PROVE  HoldsOpen(e)' /\ up' = up
<1>1. Live(e)' = {} /\ pc'[e] \in {"idle", "read"} /\ up' = up
  BY DEF Live, Leave, At, AllTyped, ControlTyped
<1>2. QED
  BY <1>1 DEF HoldsOpen, Deciding

(* So does one that goes on to record what it decided.                      *)
LEMMA DecideHolds ==
  ASSUME AllTyped, HeldInv, NEW e \in Executors, Live(e) = {}, task' = task, log' = log,
         pc[e] \in Deciding, NEW place \in {"dispatch", "reconcile", "resume"}, NEW t, At(e, place, t)
  PROVE  HoldsOpen(e)' /\ up' = up
<1>1. Live(e)' = {} /\ snap' = snap /\ up' = up
  BY DEF Live, At
<1>2. QED
  BY <1>1 DEF HoldsOpen, HeldInv

(* What the graph decided or the host resumes, recorded on top of what was  *)
(* read, leaves the calls of every position counted.                        *)
LEMMA AppendCounts ==
  ASSUME AllTyped, HeldInv, NEW e \in Executors, NEW x, NEW f, IsLog(f),
         Commits(e, x, f) \/ Throws(x, f), called' = called,
         x = log.rev =>
           \A p \in EnginePositions :
             CallsKnown(log.attempts[p], called[p]) => CallsKnown(f.attempts[p], called[p])
  PROVE  CallsCounted'
<1>1. log' = log \/ (x = log.rev /\ log'.attempts = f.attempts)
  BY CommitStores, ThrowStores
<1>2. QED
  BY <1>1 DEF HeldInv, CallsCounted

(* Every step of an operation keeps what its executor holds.                *)
LEMMA OperationStepHolds ==
  ASSUME AllTyped, StreamInv, HeldInv, NEW e \in Executors, OperationStep(e)
  PROVE  HoldsOpen(e)' /\ CallsCounted' /\ up' = up /\ up[e]
<1>1. /\ IsLog(log) /\ IsLog(snap[e]) /\ log.valid /\ InStep(e) /\ LogFolds
      /\ EnginePositions \subseteq Positions
  BY EnginePositionsArePositions DEF AllTyped, StreamTyped, ControlTyped, StreamInv, LogFolds
<1>2. pc[e] # "idle" /\ up[e] /\ (pc[e] # "await" => Live(e) = {})
  BY <1>1 DEF OperationStep, Read, Decides, Folds, AppendDispatch, DecidesResume, AppendReconcile,
         AppendResume, Awaited, InStep, WorkIsAwaited, Deciding
<1>3. ASSUME UNCHANGED <<log, called>>
      PROVE  CallsCounted'
  BY <1>3 DEF HeldInv, CallsCounted
<1>4. ASSUME pc[e] \in Deciding
      PROVE  snap[e].attempts = log.attempts /\ (snap[e].rev = log.rev => snap[e] = log)
  BY <1>1, <1>4 DEF HeldInv, HoldsOpen, InStep, ReadIsFresh
<1>5. CASE Read(e)
  <2>1. snap'[e] = log /\ Live(e)' = {} /\ up' = up
    BY <1>2, <1>5 DEF Read, Live, AllTyped, ControlTyped
  <2>2. log' = log /\ called' = called
    BY <1>5 DEF Read
  <2>3. QED
    BY <1>2, <1>3, <2>1, <2>2 DEF HoldsOpen
<1>6. CASE Decides(e)
  <2>1. (\E how : Leave(e, how)) \/ At(e, "dispatch", NoPosition)
    BY <1>6 DEF Decides, Rejects
  <2>2. UNCHANGED <<log, task, called>> /\ pc[e] = "fold"
    BY <1>6 DEF Decides, Folds
  <2>3. QED
    BY <1>2, <1>3, <2>1, <2>2, LeaveHolds, DecideHolds DEF Deciding
<1>7. CASE AppendDispatch(e)
  <2> DEFINE f == FoldDispatches(log, Decided(e))
             new == NewTask("start", 0, 0)
  <2>1. IsLog(f) /\ called' = called /\ pc[e] = "dispatch"
    BY <1>1, <1>7, DispatchesAreLogs DEF AppendDispatch
  <2>2. ASSUME snap[e].rev = log.rev
        PROVE  \A p \in Positions : IF p \in Decided(e)
                 THEN f.attempts[p] = [NoAttempt EXCEPT !.status = "in-flight"] /\ log.attempts[p].status = "none"
                 ELSE f.attempts[p] = log.attempts[p]
    <3>1. snap[e] = log
      BY <1>4, <2>1, <2>2 DEF Deciding
    <3>2. /\ Decide(log.gstate).kind = "dispatch" /\ Decided(e) = Decide(log.gstate).positions
          /\ \A p \in Decided(e) : log.attempts[p].status = "none"
      BY <1>1, <2>1, <3>1 DEF InStep, DecisionFollows, Decided
    <3>3. QED
      BY <1>1, <3>2, DispatchAccepted
  <2>3. ASSUME snap[e].rev = log.rev, NEW p \in EnginePositions, CallsKnown(log.attempts[p], called[p])
        PROVE  CallsKnown(f.attempts[p], called[p])
    <3>1. CASE p \in Decided(e)
      <4>1. called[p] = 0
        BY <1>1, <2>2, <2>3, <3>1 DEF CallsKnown
      <4>2. f.attempts[p].seq = 0 /\ f.attempts[p].status = "in-flight" /\ ~f.attempts[p].started
        BY <1>1, <2>2, <2>3, <3>1 DEF NoAttempt
      <4>3. QED
        BY <4>1, <4>2 DEF CallsKnown, Uncertain
    <3>2. CASE p \notin Decided(e)
      BY <1>1, <2>2, <2>3, <3>2
    <3>3. QED
      BY <3>1, <3>2
  <2>4. CallsCounted'
    BY <1>7, <2>1, <2>3, AppendCounts DEF AppendDispatch, Throws
  <2>5. CASE /\ Commits(e, snap[e].rev, f) /\ Spawns(e, [p \in Decided(e) |-> new])
             /\ At(e, "await", NoPosition)
    <3>1. snap[e].rev = log.rev /\ log'.attempts = f.attempts
      BY <2>1, <2>5, CommitStores
    <3>2. pc'[e] = "await" /\ up' = up
      BY <2>5 DEF At, AllTyped, ControlTyped
    <3>3. new.step = "start"
      BY DEF NewTask, NoTask
    <3>4. ASSUME NEW p \in Decided(e) \cap Positions
          PROVE  IsHeld(p, log'.attempts[p], called[p], new)
      <4>1. f.attempts[p].status = "in-flight" /\ f.attempts[p].seq = 0 /\ log.attempts[p].status = "none"
        BY <2>2, <3>1 DEF NoAttempt
      <4>2. p \in EnginePositions => called[p] = 0
        BY <4>1 DEF HeldInv, CallsCounted, CallsKnown
      <4>3. QED
        BY <3>1, <3>3, <4>1, <4>2 DEF IsHeld
    <3>5. HoldsOpen(e)'
      BY <1>2, <2>1, <2>5, <3>2, <3>4, SpawnHolds
    <3>6. QED
      BY <1>2, <2>4, <3>2, <3>5
  <2>6. CASE task' = task /\ (Rejects(e) \/ At(e, "read", NoPosition))
    BY <1>2, <2>1, <2>4, <2>6, LeaveHolds DEF Rejects
  <2>7. QED
    BY <1>7, <2>5, <2>6 DEF AppendDispatch
<1>8. CASE DecidesResume(e)
  <2> DEFINE p == target[e]
             a == snap[e].attempts[p]
             new == NewTask("start", 0, a.seq)
  <2>1. p \in Positions /\ Live(e) = {} /\ pc[e] = "fold" /\ UNCHANGED <<log, called>>
    BY <1>2, <1>8 DEF DecidesResume, Folds, AllTyped, ControlTyped
  <2>2. CASE Rejects(e) /\ task' = task
    BY <1>2, <1>3, <2>1, <2>2, LeaveHolds DEF Rejects
  <2>3. CASE task' = task /\ (At(e, "reconcile", p) \/ At(e, "resume", p))
    BY <1>2, <1>3, <2>1, <2>3, DecideHolds DEF Deciding
  <2>4. CASE /\ snap[e].valid /\ a.status = "in-flight" /\ ~a.started
             /\ Spawns(e, [q \in {p} |-> new]) /\ At(e, "await", p)
    <3>1. a = log.attempts[p]
      BY <1>4, <2>1 DEF Deciding
    <3>2. pc'[e] = "await" /\ up' = up
      BY <2>4 DEF At, AllTyped, ControlTyped
    <3>3. new.step = "start"
      BY DEF NewTask, NoTask
    <3>4. p \in EnginePositions => called[p] <= a.seq + 0
      BY <2>4, <3>1 DEF HeldInv, CallsCounted, CallsKnown, Uncertain
    <3>5. IsHeld(p, log'.attempts[p], called[p], new)
      BY <2>1, <2>4, <3>1, <3>3, <3>4 DEF IsHeld
    <3>6. HoldsOpen(e)'
      BY <2>1, <2>4, <3>2, <3>5, SpawnHolds
    <3>7. QED
      BY <1>2, <1>3, <2>1, <3>2, <3>6
  <2>5. QED
    BY <1>8, <2>2, <2>3, <2>4 DEF DecidesResume
<1>9. ASSUME NEW p \in Positions, p = target[e], snap[e] = log
      PROVE  LET f == WithRecovery(e, p) IN
             /\ Extends(log, f, p) /\ f.attempts[p].status = log.attempts[p].status
             /\ f.attempts[p].started = log.attempts[p].started
             /\ f.attempts[p].seq = SeqAfter(e, p)
             /\ p \in EnginePositions => called[p] <= f.attempts[p].seq
             /\ f.attempts[p].seq \in Nat
  <2>1. /\ called[p] \in Nat /\ log.attempts[p].seq \in Nat
        /\ p \in EnginePositions => CallsKnown(log.attempts[p], called[p])
    BY CallsAreNumbers DEF HeldInv, CallsCounted
  <2>2. p \in EnginePositions => called[p] <= SeqAfter(e, p)
    BY <1>9, <2>1 DEF CallsKnown, SeqAfter, Recovers
  <2>3. SeqAfter(e, p) \in Nat
    BY <1>9, <2>1 DEF SeqAfter
  <2>4. QED
    BY <1>1, <1>9, <2>2, <2>3, RecoveryAccepted
<1>10. CASE AppendReconcile(e)
  <2> DEFINE p == target[e]
             f == FoldPause(WithRecovery(e, p), p)
  <2>1. p \in Positions /\ Live(e) = {} /\ called' = called /\ task' = task /\ pc[e] = "reconcile"
    BY <1>2, <1>10 DEF AppendReconcile, AllTyped, ControlTyped
  <2>2. IsLog(f)
    <3>1. IsLog(WithRecovery(e, p))
      <4>1. snap[e].attempts[p].seq + 1 \in Nat
        BY <1>1, <2>1 DEF IsLog, Attempt
      <4>2. QED
        BY <1>1, <2>1, <4>1, FoldsAreLogs DEF WithRecovery
    <3>2. QED
      BY <2>1, <3>1, FoldsAreLogs, 0 \in Nat
  <2>3. ASSUME snap[e].rev = log.rev, NEW q \in EnginePositions, CallsKnown(log.attempts[q], called[q])
        PROVE  CallsKnown(f.attempts[q], called[q])
    <3>1. snap[e] = log
      BY <1>4, <2>1, <2>3 DEF Deciding
    <3>2. log.attempts[p].status = "in-flight"
      BY <1>1, <2>1, <3>1 DEF InStep, DecisionFollows, Uncertain
    <3>3. /\ Extends(WithRecovery(e, p), f, p) /\ f.attempts[p].status # "none"
          /\ f.attempts[p].status # "in-flight"
          /\ f.attempts[p].seq = WithRecovery(e, p).attempts[p].seq
      BY <1>9, <2>1, <3>1, <3>2, EndAccepted DEF Extends
    <3>4. CASE q = p
      <4>1. called[p] <= f.attempts[p].seq + 0
        BY <1>9, <2>1, <3>1, <3>3, <3>4
      <4>2. QED
        BY <3>3, <3>4, <4>1 DEF CallsKnown, Uncertain
    <3>5. CASE q # p
      BY <1>1, <1>9, <2>1, <2>3, <3>1, <3>3, <3>5 DEF Extends
    <3>6. QED
      BY <3>4, <3>5
  <2>4. CallsCounted'
    BY <1>10, <2>1, <2>2, <2>3, AppendCounts DEF AppendReconcile
  <2>5. (\E how : Leave(e, how)) \/ At(e, "read", NoPosition)
    BY <1>10 DEF AppendReconcile, Rejects
  <2>6. QED
    BY <1>2, <2>1, <2>4, <2>5, LeaveHolds
<1>11. CASE AppendResume(e)
  <2> DEFINE p == target[e]
             f == FoldResume(WithRecovery(e, p), p)
             step == IF snap[e].attempts[p].started THEN "ready" ELSE "start"
             new == NewTask(step, log.attempts[p].grants + 1, SeqAfter(e, p))
  <2>1. p \in Positions /\ Live(e) = {} /\ called' = called /\ pc[e] = "resume"
    BY <1>2, <1>11 DEF AppendResume, AllTyped, ControlTyped
  <2>2. IsLog(f)
    <3>1. IsLog(WithRecovery(e, p))
      <4>1. snap[e].attempts[p].seq + 1 \in Nat
        BY <1>1, <2>1 DEF IsLog, Attempt
      <4>2. QED
        BY <1>1, <2>1, <4>1, FoldsAreLogs DEF WithRecovery
    <3>2. QED
      BY <2>1, <3>1, FoldsAreLogs, 0 \in Nat
  <2>3. ASSUME snap[e].rev = log.rev
        PROVE  /\ \A q \in Positions \ {p} : f.attempts[q] = log.attempts[q]
               /\ f.attempts[p].status = "in-flight"
               /\ f.attempts[p].started = snap[e].attempts[p].started
               /\ p \in EnginePositions => called[p] <= f.attempts[p].seq
               /\ f.attempts[p].seq \in Nat
    <3>1. snap[e] = log
      BY <1>4, <2>1, <2>3 DEF Deciding
    <3>2. log.attempts[p].status = "paused" \/ Uncertain(log.attempts[p])
      BY <1>1, <2>1, <3>1 DEF InStep, DecisionFollows
    <3>3. LET w == WithRecovery(e, p) IN
          /\ Extends(w, f, p) /\ f.attempts[p].status = "in-flight"
          /\ f.attempts[p].started = w.attempts[p].started
          /\ f.attempts[p].seq = w.attempts[p].seq
      BY <1>9, <2>1, <3>1, <3>2, ResumeAccepted DEF Extends, Uncertain
    <3>4. QED
      BY <1>9, <2>1, <3>1, <3>3 DEF Extends
  <2>4. ASSUME snap[e].rev = log.rev, NEW q \in EnginePositions, CallsKnown(log.attempts[q], called[q])
        PROVE  CallsKnown(f.attempts[q], called[q])
    <3>1. CASE q = p
      <4>1. called[p] \in Nat
        BY <2>1, CallsAreNumbers
      <4>2. QED
        BY <2>3, <2>4, <3>1, <4>1 DEF CallsKnown
    <3>2. CASE q # p
      BY <1>1, <2>3, <2>4, <3>2
    <3>3. QED
      BY <3>1, <3>2
  <2>5. CallsCounted'
    BY <1>11, <2>1, <2>2, <2>4, AppendCounts DEF AppendResume
  <2>6. CASE Commits(e, snap[e].rev, f) /\ Spawns(e, [q \in {p} |-> new]) /\ At(e, "await", p)
    <3>1. snap[e].rev = log.rev /\ log'.attempts = f.attempts
      BY <2>2, <2>6, CommitStores
    <3>2. pc'[e] = "await" /\ up' = up
      BY <2>6 DEF At, AllTyped, ControlTyped
    <3>3. new.step = step
      BY DEF NewTask, NoTask
    <3>4. IsHeld(p, log'.attempts[p], called[p], new)
      BY <2>3, <3>1, <3>3 DEF IsHeld
    <3>5. HoldsOpen(e)'
      BY <2>1, <2>6, <3>2, <3>4, SpawnHolds
    <3>6. QED
      BY <1>2, <2>5, <3>2, <3>5
  <2>7. CASE Throws(snap[e].rev, f) /\ Rejects(e) /\ task' = task
    BY <1>2, <2>1, <2>5, <2>7, LeaveHolds DEF Rejects
  <2>8. QED
    BY <1>11, <2>6, <2>7 DEF AppendResume
<1>12. CASE Awaited(e)
  <2>1. Live(e) = {} /\ UNCHANGED <<log, task, called>> /\ At(e, "read", NoPosition)
    BY <1>1, <1>12 DEF Awaited, InStep, WorkIsAwaited
  <2>2. QED
    BY <1>2, <1>3, <2>1, LeaveHolds
<1>13. QED
  BY <1>5, <1>6, <1>7, <1>8, <1>10, <1>11, <1>12 DEF OperationStep

(* A host that creates an executor under the lock finds no other one up.    *)
LEMMA HostStepHolds ==
  ASSUME Exclusive, AllTyped, StreamInv, HeldInv, NEW e \in Executors, HostStep(e)
  PROVE  HeldInv'
<1>1. UNCHANGED <<log, called>> /\ CallsCounted'
  BY DEF HostStep, Create, Close, Crash, Gone, Abort, Call, HeldInv, CallsCounted
<1>2. ASSUME NEW x \in Executors, x # e
      PROVE  HoldsOpen(x)'
  <2>1. Idle(x)
    BY <1>2, OneAtATime
  <2>2. QED
    BY <1>1, <1>2, <2>1 DEF HeldInv, HoldsOpen, Live, Idle
<1>3. HoldsOpen(e)' /\ Alone'
  <2>1. CASE Create(e)
    <3>1. /\ pc' = pc /\ snap' = snap /\ task' = task /\ Live(e)' = Live(e)
          /\ up' = [up EXCEPT ![e] = TRUE] /\ \A x \in Executors : ~up[x]
      BY <2>1 DEF Create, Live
    <3>2. Alone'
      BY <3>1 DEF Alone, AllTyped, ControlTyped
    <3>3. HoldsOpen(e)'
      BY <1>1, <3>1 DEF HeldInv, HoldsOpen
    <3>4. QED
      BY <3>2, <3>3
  <2>2. CASE Close(e) \/ Crash(e)
    <3>1. /\ pc'[e] = "idle" /\ task'[e] = NoTasks /\ up' = [up EXCEPT ![e] = FALSE]
      BY <2>2 DEF Close, Crash, Gone, AllTyped, ControlTyped, TasksTyped
    <3>2. Live(e)' = {}
      BY <3>1 DEF Live, NoTasks, NoTask
    <3>3. Alone'
      BY <3>1 DEF HeldInv, Alone, AllTyped, ControlTyped
    <3>4. QED
      BY <3>1, <3>2, <3>3 DEF HoldsOpen, Deciding
  <2>3. CASE Abort(e)
    <3>1. Live(e) = {} /\ task' = task /\ \E how : Leave(e, how)
      BY <2>3 DEF Abort, Rejects, StreamInv, InStep, WorkIsAwaited
    <3>2. QED
      BY <3>1, LeaveHolds DEF HeldInv, Alone
  <2>4. ASSUME NEW t \in Positions \cup {NoPosition}, Call(e, t)
        PROVE  HoldsOpen(e)' /\ Alone'
    <3>1. pc'[e] = "read" /\ up' = up /\ task' = task /\ Live(e)' = Live(e)
      BY <2>4 DEF Call, Live, AllTyped, ControlTyped
    <3>2. QED
      BY <1>1, <3>1 DEF HeldInv, Alone, HoldsOpen, Deciding
  <2>5. QED
    BY <2>1, <2>2, <2>3, <2>4 DEF HostStep
<1>4. QED
  BY <1>1, <1>2, <1>3 DEF HeldInv

(* At first nothing is in hand and no engine was called.                    *)
LEMMA InitHolds == Init => HeldInv
<1> SUFFICES ASSUME Init PROVE HeldInv
  OBVIOUS
<1>1. Alone
  BY DEF Init, Alone
<1>2. CallsCounted
  BY EnginePositionsArePositions DEF Init, EmptyLog, NoAttempt, CallsCounted, CallsKnown, Uncertain
<1>3. \A e \in Executors : Live(e) = {} /\ pc[e] = "idle"
  BY DEF Init, Live, NoTasks, NoTask
<1>4. QED
  BY <1>1, <1>2, <1>3 DEF HeldInv, HoldsOpen, Deciding

(* Under the lock, what executors hold stays as the record says.            *)
LEMMA NextHolds ==
  ASSUME Exclusive
  PROVE  AllTyped /\ StreamInv /\ HeldInv /\ [Next]_vars => HeldInv'
<1> SUFFICES ASSUME AllTyped, StreamInv, HeldInv, [Next]_vars PROVE HeldInv'
  OBVIOUS
<1>1. ASSUME log'.attempts = log.attempts, UNCHANGED <<exec, task, called>>
      PROVE  HeldInv'
  <2>1. \A e \in Executors : Live(e)' = Live(e)
    BY <1>1 DEF Live
  <2>2. QED
    BY <1>1, <2>1 DEF HeldInv, Alone, CallsCounted, HoldsOpen, exec
<1>2. CASE UNCHANGED vars
  BY <1>1, <1>2 DEF vars
<1>3. CASE OtherAppends
  BY <1>1, <1>3 DEF OtherAppends, Stored, AllTyped, StreamTyped, IsLog
<1>4. ASSUME NEW e \in Executors, OperationStep(e) \/ \E k \in Positions \X Slots : TaskStep(e, k)
      PROVE  HeldInv'
  <2>1. HoldsOpen(e)' /\ CallsCounted' /\ up' = up /\ up[e]
    BY <1>4, OperationStepHolds, TaskStepHolds
  <2>2. \A x \in Executors : x # e => Idle(x)
    BY <1>4, OneAtATime
  <2>3. QED
    BY <2>1, <2>2, OnlyOneHolds
<1>5. QED
  BY <1>2, <1>3, <1>4, HostStepHolds DEF Next

(* The invariant of a run under a process lock holds throughout.            *)
LEMMA AlwaysHeld ==
  ASSUME HostWaits, Exclusive
  PROVE  Spec => [](AllTyped /\ StreamInv /\ HeldInv)
<1>1. Init => AllTyped /\ StreamInv /\ HeldInv
  BY InitTypes, InitInStep, InitHolds
<1>2. AllTyped /\ StreamInv /\ HeldInv /\ [Next]_vars => AllTyped' /\ StreamInv' /\ HeldInv'
  BY NextTypes, NextInStep, NextHolds
<1>3. QED
  BY <1>1, <1>2, PTL DEF Spec

(* Under a process lock, whatever crashes and whatever else is recorded: an *)
(* attempt at work has its position open in the record and to itself.       *)
THEOREM WorkStaysOpen ==
  ASSUME HostWaits, Exclusive
  PROVE  Spec => []WorkIsOpen
<1>1. StreamInv /\ HeldInv => WorkIsOpen
  <2> SUFFICES ASSUME StreamInv, HeldInv, NEW e \in Executors, NEW k \in Live(e)
               PROVE  /\ log.attempts[k[1]].status = "in-flight"
                      /\ \A x \in Executors : \A h \in Live(x) : h[1] = k[1] => x = e /\ h = k
    BY DEF WorkIsOpen
  <2>1. log.attempts[k[1]].status = "in-flight"
    BY DEF HeldInv, HoldsOpen, IsHeld
  <2>2. ASSUME NEW x \in Executors, Live(x) # {}
        PROVE  x = e
    BY <2>2 DEF StreamInv, InStep, WorkIsAwaited, HeldInv, Alone
  <2>3. \A h \in Live(e) : h[1] = k[1] => h = k
    BY DEF StreamInv, InStep, WorkIsInStep
  <2>4. QED
    BY <2>1, <2>2, <2>3
<1>2. QED
  BY <1>1, AlwaysHeld, PTL

(* Under a process lock the receipts of a closed position account for every *)
(* engine call that was made for it, those that a crash left without their  *)
(* receipt included.                                                        *)
THEOREM ReceiptsAlwaysCover ==
  ASSUME HostWaits, Exclusive
  PROVE  Spec => []ReceiptsCoverCalls
<1>1. AllTyped /\ HeldInv => ReceiptsCoverCalls
  <2> SUFFICES ASSUME AllTyped, HeldInv, NEW p \in EnginePositions,
                      log.attempts[p].status \in {"paused", "settled"}
               PROVE  called[p] <= log.attempts[p].seq
    BY DEF ReceiptsCoverCalls
  <2>1. CallsKnown(log.attempts[p], called[p]) /\ ~Uncertain(log.attempts[p])
    BY DEF HeldInv, CallsCounted, Uncertain
  <2>2. called[p] \in Nat /\ log.attempts[p].seq \in Nat
    BY EnginePositionsArePositions, CallsAreNumbers
  <2>3. QED
    BY <2>1, <2>2 DEF CallsKnown
<1>2. QED
  BY <1>1, AlwaysHeld, PTL

-----------------------------------------------------------------------------
(* The executor implements DagRun: with a dag for its graph, what it        *)
(* records changes the graph state as one step of the dag does, or not at   *)
(* all.  The events that may be told to the graph about position p.         *)
Outcomes(p) ==
  {Event("node-paused", p, "none"), Event("node-resumed", p, "none"), Event("node-failed", p, "none")}
    \cup {Event("node-completed", p, r) : r \in Results}

(* Graph state u is s, or s told of the dispatch it asked for, or of one    *)
(* outcome.                                                                 *)
Told(s, u) ==
  \/ u = s
  \/ Decide(s).kind = "dispatch" /\ u = ReduceAll(s, Decide(s).positions)
  \/ \E p \in Positions : \E ev \in Outcomes(p) : u = Reduce(s, ev)

(* A graph state of the dag has a state for each node.                      *)
IsGraphState(s) ==
  /\ s = [n \in NodesOf(Graph) |-> s[n]]
  /\ \A n \in NodesOf(Graph) : s[n] = [status |-> s[n].status, attempts |-> s[n].attempts]

(* A start is no event of the graph, and the receipt of an engine call is   *)
(* none that a dag looks at.                                                *)
LEMMA FoldsTell ==
  ASSUME RunsADag, NEW f, IsLog(f), NEW p \in Positions, NEW n
  PROVE  FoldStart(f, p).gstate = f.gstate /\ FoldReceipt(f, p, n).gstate = f.gstate
<1>1. Reduce(f.gstate, Event("engine-attempt-recorded", p, "none")) = f.gstate
  <2>1. Event("engine-attempt-recorded", p, "none").type = "engine-attempt-recorded"
    BY DEF Event
  <2>2. Reduce(f.gstate, Event("engine-attempt-recorded", p, "none"))
          = DagReduce(Graph, f.gstate, Event("engine-attempt-recorded", p, "none"))
    BY DEF RunsADag, ReduceOne
  <2>3. QED
    BY <2>1, <2>2 DEF DagReduce
<1>2. FoldStart(f, p).gstate = f.gstate
  BY DEF FoldStart, Fold, IsLog
<1>3. FoldReceipt(f, p, n).gstate = f.gstate
  BY <1>1 DEF FoldReceipt, Fold, IsLog
<1>4. QED
  BY <1>2, <1>3

(* A resume is told to the graph if the fold accepts it.                    *)
LEMMA ResumeTells ==
  ASSUME NEW f, IsLog(f), NEW p \in Positions
  PROVE  \/ FoldResume(f, p).gstate = f.gstate
         \/ FoldResume(f, p).gstate = Reduce(f.gstate, Event("node-resumed", p, "none"))
  BY DEF FoldResume, Fold, IsLog

(* So is a pause.                                                           *)
LEMMA PauseTells ==
  ASSUME NEW f, IsLog(f), NEW p \in Positions
  PROVE  \/ FoldPause(f, p).gstate = f.gstate
         \/ FoldPause(f, p).gstate = Reduce(f.gstate, Event("node-paused", p, "none"))
  BY DEF FoldPause, Fold, IsLog

(* So is a result or a failure.                                             *)
LEMMA SettleTells ==
  ASSUME NEW f, IsLog(f), NEW p \in Positions, NEW type, NEW r
  PROVE  \/ FoldSettle(f, p, type, r).gstate = f.gstate
         \/ FoldSettle(f, p, type, r).gstate = Reduce(f.gstate, Event(type, p, r))
  BY DEF FoldSettle, Fold, IsLog

(* An append tells the graph what was folded, or nothing.                   *)
LEMMA AppendTells ==
  ASSUME NEW e \in Executors, NEW x, NEW f, IsLog(f), x = log.rev => Told(log.gstate, f.gstate),
         Commits(e, x, f) \/ Throws(x, f)
  PROVE  Told(log.gstate, log'.gstate)
<1>1. Stored(f).gstate = f.gstate
  BY DEF Stored, IsLog
<1>2. log' = log \/ (x = log.rev /\ log' = Stored(f))
  BY DEF Commits, Throws, Conflicts, StorageFails
<1>3. CASE log' = log
  BY <1>3 DEF Told
<1>4. CASE x = log.rev /\ log' = Stored(f)
  BY <1>1, <1>4
<1>5. QED
  BY <1>2, <1>3, <1>4

(* Every step of an attempt tells the graph of one outcome at most.         *)
LEMMA TaskStepTells ==
  ASSUME RunsADag, AllTyped, NEW e \in Executors, NEW k \in Positions \X Slots, TaskStep(e, k)
  PROVE  Told(log.gstate, log'.gstate)
<1> DEFINE p == k[1]
           t == task[e][k]
<1>1. IsLog(log) /\ p \in Positions /\ t \in Task
  BY DEF AllTyped, StreamTyped, TasksTyped
<1>2. t.seq + 1 \in Nat
  BY <1>1 DEF Task
<1>3. ASSUME NEW f, IsLog(f), NEW u, TaskAppends(e, k, f, u), Told(log.gstate, f.gstate)
      PROVE  Told(log.gstate, log'.gstate)
  BY <1>3, AppendTells DEF TaskAppends
<1>4. CASE AppendStart(e, k)
  <2>1. IsLog(FoldStart(log, p)) /\ FoldStart(log, p).gstate = log.gstate
    BY <1>1, FoldsAreLogs, FoldsTell, 0 \in Nat
  <2>2. QED
    BY <1>3, <1>4, <2>1 DEF AppendStart, Told
<1>5. CASE SkipRun(e, k) \/ Invoke(e, k) \/ RunReturns(e, k)
  BY <1>5 DEF SkipRun, Invoke, RunReturns, Told
<1>6. CASE AppendReceipt(e, k)
  <2>1. IsLog(FoldReceipt(log, p, t.seq + 1)) /\ FoldReceipt(log, p, t.seq + 1).gstate = log.gstate
    BY <1>1, <1>2, FoldsAreLogs, FoldsTell
  <2>2. QED
    BY <1>3, <1>6, <2>1 DEF AppendReceipt, Told
<1>7. CASE AppendFact(e, k)
  <2>1. Commits(e, appendRev[e], log) \/ Throws(appendRev[e], log)
    BY <1>7 DEF AppendFact
  <2>2. QED
    BY <1>1, <2>1, AppendTells DEF Told
<1>8. CASE AppendOutcome(e, k)
  <2>1. PICK f : /\ TaskAppends(e, k, f, NoTask)
                 /\ \/ f = FoldPause(log, p) \/ f = FoldSettle(log, p, "node-failed", "none")
                    \/ \E r \in Results : f = FoldSettle(log, p, "node-completed", r)
    BY <1>8 DEF AppendOutcome
  <2>2. IsLog(f)
    BY <1>1, <2>1, FoldsAreLogs, 0 \in Nat
  <2>3. \/ f.gstate = log.gstate
        \/ \E ev \in Outcomes(p) : f.gstate = Reduce(log.gstate, ev)
    <3>1. CASE f = FoldPause(log, p)
      BY <1>1, <3>1, PauseTells DEF Outcomes
    <3>2. CASE f = FoldSettle(log, p, "node-failed", "none")
      BY <1>1, <3>2, SettleTells DEF Outcomes
    <3>3. CASE \E r \in Results : f = FoldSettle(log, p, "node-completed", r)
      BY <1>1, <3>3, SettleTells DEF Outcomes
    <3>4. QED
      BY <2>1, <3>1, <3>2, <3>3
  <2>4. QED
    BY <1>1, <1>3, <2>1, <2>2, <2>3 DEF Told
<1>9. QED
  BY <1>4, <1>5, <1>6, <1>7, <1>8 DEF TaskStep

(* Every step of an operation tells the graph of the dispatch it asked for  *)
(* or of one outcome at most.                                               *)
LEMMA OperationStepTells ==
  ASSUME RunsADag, AllTyped, StreamInv, NEW e \in Executors, OperationStep(e)
  PROVE  Told(log.gstate, log'.gstate)
<1>1. IsLog(log) /\ IsLog(snap[e]) /\ InStep(e)
  BY DEF AllTyped, StreamTyped, ControlTyped, StreamInv
<1>2. CASE Read(e) \/ Decides(e) \/ DecidesResume(e) \/ Awaited(e)
  BY <1>2 DEF Read, Decides, DecidesResume, Awaited, Told
<1>3. CASE AppendDispatch(e)
  <2> DEFINE f == FoldDispatches(log, Decided(e))
  <2>1. IsLog(f) /\ (Commits(e, snap[e].rev, f) \/ Throws(snap[e].rev, f)) /\ pc[e] = "dispatch"
    BY <1>1, <1>3, DispatchesAreLogs DEF AppendDispatch, Throws
  <2>2. ASSUME snap[e].rev = log.rev
        PROVE  Told(log.gstate, f.gstate)
    <3>1. snap[e] = log
      BY <1>1, <2>1, <2>2 DEF InStep, ReadIsFresh, Deciding
    <3>2. Decide(log.gstate).kind = "dispatch" /\ Decided(e) = Decide(log.gstate).positions
      BY <1>1, <2>1, <3>1 DEF InStep, DecisionFollows, Decided
    <3>3. f.gstate = log.gstate \/ f.gstate = ReduceAll(log.gstate, Decided(e))
      BY <1>1 DEF FoldDispatches, Fold, IsLog
    <3>4. QED
      BY <3>2, <3>3 DEF Told
  <2>3. QED
    BY <2>1, <2>2, AppendTells
<1>4. ASSUME NEW p \in Positions
      PROVE  IsLog(WithRecovery(e, p)) /\ WithRecovery(e, p).gstate = log.gstate
  <2>1. snap[e].attempts[p].seq + 1 \in Nat
    BY <1>1 DEF IsLog, Attempt
  <2>2. QED
    BY <1>1, <2>1, FoldsAreLogs, FoldsTell DEF WithRecovery
<1>5. CASE AppendReconcile(e)
  <2> DEFINE p == target[e]
             f == FoldPause(WithRecovery(e, p), p)
  <2>1. p \in Positions /\ (Commits(e, snap[e].rev, f) \/ Throws(snap[e].rev, f))
    BY <1>5 DEF AppendReconcile, AllTyped, ControlTyped
  <2>2. IsLog(f)
    BY <1>4, <2>1, FoldsAreLogs, 0 \in Nat
  <2>3. Told(log.gstate, f.gstate)
    BY <1>4, <2>1, PauseTells DEF Told, Outcomes
  <2>4. QED
    BY <2>1, <2>2, <2>3, AppendTells
<1>6. CASE AppendResume(e)
  <2> DEFINE p == target[e]
             f == FoldResume(WithRecovery(e, p), p)
  <2>1. p \in Positions /\ (Commits(e, snap[e].rev, f) \/ Throws(snap[e].rev, f))
    BY <1>6 DEF AppendResume, AllTyped, ControlTyped
  <2>2. IsLog(f)
    BY <1>4, <2>1, FoldsAreLogs, 0 \in Nat
  <2>3. Told(log.gstate, f.gstate)
    BY <1>4, <2>1, ResumeTells DEF Told, Outcomes
  <2>4. QED
    BY <2>1, <2>2, <2>3, AppendTells
<1>7. QED
  BY <1>2, <1>3, <1>5, <1>6 DEF OperationStep

(* So does every step of the executor.                                      *)
LEMMA NextTells ==
  ASSUME RunsADag, AllTyped, StreamInv, [Next]_vars
  PROVE  Told(log.gstate, log'.gstate)
<1>1. CASE UNCHANGED vars
  BY <1>1 DEF vars, Told
<1>2. CASE OtherAppends
  BY <1>2 DEF OtherAppends, Stored, AllTyped, StreamTyped, IsLog, Told
<1>3. ASSUME NEW e \in Executors, HostStep(e)
      PROVE  log' = log
  BY <1>3 DEF HostStep, Create, Close, Crash, Gone, Abort, Call
<1>4. QED
  BY <1>1, <1>2, <1>3, TaskStepTells, OperationStepTells DEF Next, Told

(* The operators of the abstract module that do not look at its state are   *)
(* those of this module: its nodes,                                         *)
LEMMA AbstractNodes ==
  ASSUME NEW g
  PROVE  /\ Abstract!NodesOf(g) = NodesOf(g) /\ Abstract!Workers(g) = Workers(g)
         /\ Abstract!Finalizers(g) = Finalizers(g)
  BY DEF Abstract!NodesOf, NodesOf, Abstract!Workers, Workers, Abstract!Finalizers, Finalizers

(* what may be claimed in a graph state,                                    *)
LEMMA AbstractClaimable ==
  ASSUME NEW g, NEW s, NEW n, NEW stop
  PROVE  Abstract!Claimable(g, s, n, stop) <=> Claimable(g, s, n, stop)
  BY DEF Abstract!Claimable, Claimable, Abstract!Predecessors, Predecessors, Abstract!GreenFor, GreenFor, Abstract!RequiredFailed, RequiredFailed, Abstract!NodesOf, NodesOf

(* how many there are,                                                      *)
LEMMA AbstractCardinality ==
  ASSUME NEW S
  PROVE  Abstract!Cardinality(S) = Cardinality(S)
  BY DEF Abstract!Cardinality, Cardinality

(* the batch that is collected,                                             *)
LEMMA AbstractCollect ==
  ASSUME NEW g, NEW s, NEW N, NEW stop
  PROVE  Abstract!Collect(g, s, N, stop) = Collect(g, s, N, stop)
<1>1. ASSUME NEW C
      PROVE Abstract!IsBatch(g, s, N, stop, C) <=> IsBatch(g, s, N, stop, C)
  <2> DEFINE Room(n) == /\ Cardinality({m \in C : m < n}) < g.global
                        /\ \/ g.key[n] = NoKey
                           \/ Cardinality({m \in C : m < n /\ g.key[m] = g.key[n]}) < g.keyed[g.key[n]]
  <2>1. Abstract!IsBatch(g, s, N, stop, C)
          <=> \A n \in N : n \in C <=> Abstract!Claimable(g, s, n, stop) /\ Room(n)
    BY AbstractCardinality DEF Abstract!IsBatch
  <2>2. IsBatch(g, s, N, stop, C) <=> \A n \in N : n \in C <=> Claimable(g, s, n, stop) /\ Room(n)
    BY DEF IsBatch
  <2> HIDE DEF Room
  <2>3. QED
    BY <2>1, <2>2, AbstractClaimable
<1>2. QED
  BY <1>1 DEF Abstract!Collect, Collect

(* the decision on a graph state,                                           *)
LEMMA AbstractDecide ==
  ASSUME NEW g, NEW s
  PROVE  Abstract!DagDecide(g, s) = DagDecide(g, s)
<1>1. ASSUME NEW C
      PROVE  Abstract!Dispatch(s, C) = Dispatch(s, C)
  BY DEF Abstract!Dispatch, Dispatch, Abstract!NextPosition, NextPosition
<1>2. ASSUME NEW kind
      PROVE  Abstract!Terminal(kind) = Terminal(kind)
  BY DEF Abstract!Terminal, Terminal
<1>3. /\ Abstract!Collect(g, s, Abstract!Workers(g), TRUE) = Collect(g, s, Workers(g), TRUE)
      /\ Abstract!Collect(g, s, Abstract!Finalizers(g), FALSE) = Collect(g, s, Finalizers(g), FALSE)
      /\ Abstract!NodesOf(g) = NodesOf(g)
  BY AbstractNodes, AbstractCollect
<1>4. QED
  BY <1>1, <1>2, <1>3 DEF Abstract!DagDecide, DagDecide

(* the graph state after an event,                                          *)
LEMMA AbstractReduce ==
  ASSUME NEW g, NEW s, NEW ev
  PROVE  Abstract!DagReduce(g, s, ev) = DagReduce(g, s, ev)
  BY DEF Abstract!DagReduce, DagReduce, Abstract!IsCurrent, IsCurrent, Abstract!WithStatus, WithStatus

(* and after the dispatches of a decision.                                  *)
LEMMA AbstractReduceBatch ==
  ASSUME NEW g, NEW s, NEW P
  PROVE  Abstract!DagReduceBatch(g, s, P) = DagReduceBatch(g, s, P)
  BY AbstractNodes, AbstractReduce DEF Abstract!DagReduceBatch, DagReduceBatch

(* Giving a node another status.                                            *)
LEMMA StatusIs ==
  ASSUME NEW s, IsGraphState(s), NEW n \in NodesOf(Graph), NEW st
  PROVE  LET u == WithStatus(s, n, st) IN
         /\ u[n].status = st /\ u[n].attempts = s[n].attempts
         /\ \A m \in NodesOf(Graph) : m # n => u[m] = s[m]
         /\ IsGraphState(u)
<1> DEFINE new == [status |-> st, attempts |-> s[n].attempts]
<1>1. s[n] = [status |-> s[n].status, attempts |-> s[n].attempts] /\ s = [m \in NodesOf(Graph) |-> s[m]]
  BY DEF IsGraphState
<1>2. [s[n] EXCEPT !.status = st] = new
  <2>1. ASSUME NEW x, NEW y
        PROVE  [[status |-> x, attempts |-> y] EXCEPT !.status = st] = [status |-> st, attempts |-> y]
    OBVIOUS
  <2>2. [[status |-> s[n].status, attempts |-> s[n].attempts] EXCEPT !.status = st] = new
    BY <2>1
  <2>3. QED
    BY <1>1, <2>2
<1>3. WithStatus(s, n, st) = [s EXCEPT ![n] = new]
  BY <1>2 DEF WithStatus
<1>4. new.status = st /\ new.attempts = s[n].attempts /\ new = [status |-> new.status, attempts |-> new.attempts]
  OBVIOUS
<1> HIDE DEF new
<1> DEFINE u == WithStatus(s, n, st)
<1>5. u = [m \in NodesOf(Graph) |-> IF m = n THEN new ELSE s[m]]
  BY <1>1, <1>3
<1> HIDE DEF u
<1>6. u = [m \in NodesOf(Graph) |-> u[m]] /\ u[n] = new /\ \A m \in NodesOf(Graph) : m # n => u[m] = s[m]
  BY <1>5
<1>7. ASSUME NEW m \in NodesOf(Graph)
      PROVE  u[m] = [status |-> u[m].status, attempts |-> u[m].attempts]
  <2>1. CASE m = n
    BY <1>4, <1>6, <2>1
  <2>2. CASE m # n
    <3>1. u[m] = s[m]
      BY <1>6, <2>2
    <3>2. s[m] = [status |-> s[m].status, attempts |-> s[m].attempts]
      BY DEF IsGraphState
    <3>3. QED
      BY <3>1, <3>2
  <2>3. QED
    BY <2>1, <2>2
<1>8. QED
  BY <1>4, <1>6, <1>7 DEF u, IsGraphState

(* Telling a dag of a dispatch: a node is dispatched by the position of its *)
(* next attempt, if it waits or failed.                                     *)
LEMMA DispatchedIs ==
  ASSUME NEW s, IsGraphState(s), NEW P
  PROVE  LET u == DagReduceBatch(Graph, s, P) IN
         /\ IsGraphState(u)
         /\ \A n \in NodesOf(Graph) :
              IF \E p \in P : p[1] = n
                THEN \E p \in P : /\ p[1] = n
                                  /\ u[n] = IF p[2] = s[n].attempts + 1 /\ s[n].status \in {"pending", "failed"}
                                              THEN [status |-> "in-flight", attempts |-> p[2]] ELSE s[n]
                ELSE u[n] = s[n]
<1> DEFINE u == DagReduceBatch(Graph, s, P)
           chosen(n) == CHOOSE q \in P : q[1] = n
           event(p) == [type |-> "node-dispatched", position |-> p, result |-> "none"]
<1>1. s = [n \in NodesOf(Graph) |-> s[n]]
  BY DEF IsGraphState
<1>2. u = [n \in NodesOf(Graph) |-> IF \E p \in P : p[1] = n THEN DagReduce(Graph, s, event(chosen(n)))[n] ELSE s[n]]
  BY DEF DagReduceBatch
<1>3. ASSUME NEW n \in NodesOf(Graph), NEW p, p[1] = n
      PROVE  DagReduce(Graph, s, event(p))[n]
               = IF p[2] = s[n].attempts + 1 /\ s[n].status \in {"pending", "failed"}
                   THEN [status |-> "in-flight", attempts |-> p[2]] ELSE s[n]
  <2>1. event(p).type = "node-dispatched" /\ event(p).position = p
    OBVIOUS
  <2> HIDE DEF event
  <2>2. CASE p[2] = s[n].attempts + 1 /\ s[n].status \in {"pending", "failed"}
    <3>1. DagReduce(Graph, s, event(p)) = [s EXCEPT ![n] = [status |-> "in-flight", attempts |-> p[2]]]
      BY <1>3, <2>1, <2>2 DEF DagReduce
    <3>2. DagReduce(Graph, s, event(p))[n] = [status |-> "in-flight", attempts |-> p[2]]
      BY <1>1, <3>1
    <3>3. QED
      BY <2>2, <3>2
  <2>3. CASE ~(p[2] = s[n].attempts + 1 /\ s[n].status \in {"pending", "failed"})
    <3>1. DagReduce(Graph, s, event(p)) = s
      BY <1>3, <2>1, <2>3 DEF DagReduce
    <3>2. QED
      BY <2>3, <3>1
  <2>4. QED
    BY <2>2, <2>3
<1> HIDE DEF event, u
<1>4. ASSUME NEW n \in NodesOf(Graph), \E p \in P : p[1] = n
      PROVE  \E p \in P : /\ p[1] = n
                          /\ u[n] = IF p[2] = s[n].attempts + 1 /\ s[n].status \in {"pending", "failed"}
                                      THEN [status |-> "in-flight", attempts |-> p[2]] ELSE s[n]
  <2>1. chosen(n) \in P /\ chosen(n)[1] = n
    BY <1>4
  <2>2. u[n] = DagReduce(Graph, s, event(chosen(n)))[n]
    BY <1>2, <1>4
  <2> HIDE DEF chosen
  <2>3. QED
    BY <1>3, <2>1, <2>2
<1>5. ASSUME NEW n \in NodesOf(Graph), ~ \E p \in P : p[1] = n
      PROVE  u[n] = s[n]
  BY <1>2, <1>5
<1>6. ASSUME NEW n \in NodesOf(Graph)
      PROVE  u[n] = [status |-> u[n].status, attempts |-> u[n].attempts]
  <2>1. s[n] = [status |-> s[n].status, attempts |-> s[n].attempts]
    BY DEF IsGraphState
  <2>2. u[n] = s[n] \/ \E k : u[n] = [status |-> "in-flight", attempts |-> k]
    BY <1>4, <1>5
  <2>3. QED
    BY <2>1, <2>2
<1>7. u = [n \in NodesOf(Graph) |-> u[n]]
  BY <1>2
<1>8. QED
  BY <1>4, <1>5, <1>6, <1>7 DEF u, IsGraphState

(* A position is a node and the number of an attempt.                       *)
LEMMA PositionIs ==
  ASSUME RunsADag, NEW p \in Positions
  PROVE  p[1] \in NodesOf(Graph) /\ p = <<p[1], p[2]>>
  BY DEF RunsADag, DagPositions

(* What is told of an attempt that is not current leaves a state of the dag *)
(* alone; what is told of a current one is a step of DagRun.                *)
LEMMA OutcomeIsStep ==
  ASSUME RunsADag, NEW p \in Positions, NEW ev \in Outcomes(p), IsGraphState(log.gstate),
         log'.gstate = Reduce(log.gstate, ev)
  PROVE  [Abstract!Next]_(Abstract!vars) /\ IsGraphState(log'.gstate)
<1> DEFINE s == log.gstate
           n == p[1]
<1>1. /\ n \in NodesOf(Graph) /\ p = <<n, p[2]>> /\ Abstract!NodesOf(Graph) = NodesOf(Graph)
      /\ ev.position = p
      /\ log'.gstate = DagReduce(Graph, s, ev) /\ log'.gstate = Abstract!DagReduce(Graph, s, ev)
  BY PositionIs, AbstractNodes, AbstractReduce DEF RunsADag, ReduceOne, Outcomes, Event
<1>2. CASE log'.gstate = s
  BY <1>2 DEF Abstract!vars
<1>3. ASSUME NEW st, log'.gstate = WithStatus(s, n, st)
      PROVE  IsGraphState(log'.gstate)
  BY <1>1, <1>3, StatusIs
<1>4. CASE ev = Event("node-paused", p, "none")
  <2>1. ev.type = "node-paused"
    BY <1>4 DEF Event
  <2>2. CASE IsCurrent(s, p)
    <3>1. log'.gstate = WithStatus(s, n, "paused")
      BY <1>1, <2>1, <2>2 DEF DagReduce
    <3>2. ev = Abstract!Event("node-paused", Abstract!Current(n), "none") /\ s[n].status = "in-flight"
      BY <1>1, <1>4, <2>2 DEF IsCurrent, Event, Abstract!Event, Abstract!Current
    <3>3. Abstract!Pause(n)
      BY <1>1, <3>2 DEF Abstract!Pause, Abstract!Record
    <3>4. QED
      BY <1>1, <1>3, <3>1, <3>3 DEF Abstract!Next
  <2>3. CASE ~IsCurrent(s, p)
    BY <1>1, <1>2, <2>1, <2>3 DEF DagReduce
  <2>4. QED
    BY <2>2, <2>3
<1>5. CASE ev = Event("node-resumed", p, "none")
  <2>1. ev.type = "node-resumed"
    BY <1>5 DEF Event
  <2>2. CASE s[n].status = "paused" /\ s[n].attempts = p[2]
    <3>1. log'.gstate = WithStatus(s, n, "in-flight")
      BY <1>1, <2>1, <2>2 DEF DagReduce
    <3>2. ev = Abstract!Event("node-resumed", Abstract!Current(n), "none")
      BY <1>1, <1>5, <2>2 DEF Event, Abstract!Event, Abstract!Current
    <3>3. Abstract!Resume(n)
      BY <1>1, <2>2, <3>2 DEF Abstract!Resume, Abstract!Record
    <3>4. QED
      BY <1>1, <1>3, <3>1, <3>3 DEF Abstract!Next
  <2>3. CASE ~(s[n].status = "paused" /\ s[n].attempts = p[2])
    BY <1>1, <1>2, <2>1, <2>3 DEF DagReduce
  <2>4. QED
    BY <2>2, <2>3
<1>6. CASE ev = Event("node-failed", p, "none")
  <2>1. ev.type = "node-failed"
    BY <1>6 DEF Event
  <2>2. CASE IsCurrent(s, p)
    <3>1. log'.gstate = WithStatus(s, n, "failed")
      BY <1>1, <2>1, <2>2 DEF DagReduce
    <3>2. ev = Abstract!Event("node-failed", Abstract!Current(n), "none") /\ s[n].status = "in-flight"
      BY <1>1, <1>6, <2>2 DEF IsCurrent, Event, Abstract!Event, Abstract!Current
    <3>3. Abstract!Fail(n)
      BY <1>1, <3>2 DEF Abstract!Fail, Abstract!Record
    <3>4. QED
      BY <1>1, <1>3, <3>1, <3>3 DEF Abstract!Next
  <2>3. CASE ~IsCurrent(s, p)
    BY <1>1, <1>2, <2>1, <2>3 DEF DagReduce
  <2>4. QED
    BY <2>2, <2>3
<1>7. ASSUME NEW r \in Results, ev = Event("node-completed", p, r)
      PROVE  [Abstract!Next]_(Abstract!vars) /\ IsGraphState(log'.gstate)
  <2>1. ev.type = "node-completed" /\ ev.result = r
    BY <1>7 DEF Event
  <2>2. CASE IsCurrent(s, p)
    <3>1. log'.gstate = WithStatus(s, n, r)
      BY <1>1, <2>1, <2>2 DEF DagReduce
    <3>2. ev = Abstract!Event("node-completed", Abstract!Current(n), r) /\ s[n].status = "in-flight"
      BY <1>1, <1>7, <2>2 DEF IsCurrent, Event, Abstract!Event, Abstract!Current
    <3>3. Abstract!Complete(n)
      BY <1>1, <3>2 DEF Abstract!Complete, Abstract!Record
    <3>4. QED
      BY <1>1, <1>3, <3>1, <3>3 DEF Abstract!Next
  <2>3. CASE ~IsCurrent(s, p)
    BY <1>1, <1>2, <2>1, <2>3 DEF DagReduce
  <2>4. QED
    BY <2>2, <2>3
<1>8. QED
  BY <1>4, <1>5, <1>6, <1>7 DEF Outcomes

(* What was told to the graph is a step of DagRun, or none.                 *)
LEMMA ToldIsStep ==
  ASSUME RunsADag, IsGraphState(log.gstate), Told(log.gstate, log'.gstate)
  PROVE  [Abstract!Next]_(Abstract!vars) /\ IsGraphState(log'.gstate)
<1> DEFINE s == log.gstate
           P == Decide(s).positions
<1>1. CASE log'.gstate = s
  BY <1>1 DEF Abstract!vars
<1>2. CASE Decide(s).kind = "dispatch" /\ log'.gstate = ReduceAll(s, P)
  <2>1. /\ Decide(s) = Abstract!Decision
        /\ log'.gstate = DagReduceBatch(Graph, s, P)
        /\ log'.gstate = Abstract!DagReduceBatch(Graph, s, P)
    BY <1>2, AbstractDecide, AbstractReduceBatch DEF RunsADag, DecideNow, ReduceBatch, Abstract!Decision
  <2>2. CASE P = {}
    <3>1. log'.gstate = [n \in NodesOf(Graph) |-> s[n]]
      BY <2>1, <2>2 DEF DagReduceBatch
    <3>2. QED
      BY <1>1, <3>1 DEF IsGraphState
  <2>3. CASE P # {}
    <3>1. Abstract!RecordDispatch
      BY <1>2, <2>1, <2>3 DEF Abstract!RecordDispatch
    <3>2. IsGraphState(log'.gstate)
      <4>1. ASSUME NEW Q
            PROVE  IsGraphState(DagReduceBatch(Graph, log.gstate, Q))
        BY DispatchedIs
      <4>2. QED
        BY <2>1, <4>1
    <3>3. QED
      BY <3>1, <3>2 DEF Abstract!Next
  <2>4. QED
    BY <2>2, <2>3
<1>3. QED
  BY <1>1, <1>2, OutcomeIsStep DEF Told

(* With a dag for its graph, however many executors there are, wherever     *)
(* they crash and whatever else is recorded: the graph state that the       *)
(* stream folds to is that of a sequential durable run of the dag.          *)
THEOREM RunIsDagRun ==
  ASSUME HostWaits, RunsADag
  PROVE  Spec => ImplementsDagRun
<1>1. Init => AllTyped /\ StreamInv
  BY InitTypes, InitInStep
<1>2. Init => Abstract!Init /\ IsGraphState(log.gstate)
  <2> SUFFICES ASSUME Init PROVE Abstract!Init /\ IsGraphState(log.gstate)
    OBVIOUS
  <2>1. log.gstate = DagInitialState(Graph)
    BY DEF Init, EmptyLog, RunsADag, DagInitial
  <2>2. Abstract!DagInitialState(Graph) = DagInitialState(Graph)
    BY AbstractNodes DEF Abstract!DagInitialState, DagInitialState
  <2>3. QED
    BY <2>1, <2>2 DEF Abstract!Init, IsGraphState, DagInitialState
<1>3. AllTyped /\ StreamInv /\ [Next]_vars => AllTyped' /\ StreamInv'
  BY NextTypes, NextInStep
<1>4. AllTyped /\ StreamInv /\ IsGraphState(log.gstate) /\ [Next]_vars
        => [Abstract!Next]_(Abstract!vars) /\ IsGraphState(log.gstate)'
  BY NextTells, ToldIsStep
<1>5. QED
  BY <1>1, <1>2, <1>3, <1>4, PTL DEF Spec, ImplementsDagRun, Abstract!Spec

-----------------------------------------------------------------------------
(* A run that was reported complete or failed stays as it was reported.     *)
(* First what a dag decides; the four lemmas on collect are those of        *)
(* DagRunProofs, whose state is another.                                    *)

(* A set of subsets of a finite set has a smallest member: the form in      *)
(* which the proofs below use induction over a finite set.                  *)
LEMMA MinimalExists ==
  ASSUME NEW S, IsFiniteSet(S), NEW T, T # {}, \A D \in T : D \subseteq S
  PROVE  \E D \in T : \A E \in T : E \subseteq D => E = D
<1>1. IsWellFoundedOn(StrictSubsetOrdering(S), SUBSET S)
  BY FS_StrictSubsetOrderingWellFounded, FS_FiniteSubsetsOfFinite
<1>2. PICK D \in T : \A E \in T : <<E, D>> \notin StrictSubsetOrdering(S)
  <2>1. T \in SUBSET SUBSET S
    OBVIOUS
  <2>2. QED
    BY <1>1, <2>1, WFMin
<1>3. \A E \in T : E \subseteq D => E = D
  BY <1>2 DEF StrictSubsetOrdering
<1>4. QED
  BY <1>3

(* A finite set of numbers has a greatest element.                          *)
LEMMA MaximumExists ==
  ASSUME NEW S \in SUBSET Nat, IsFiniteSet(S), S # {}
  PROVE  \E m \in S : \A n \in S : n <= m
<1> DEFINE Top(D) == \E m \in D : \A n \in D : n <= m
           T == {D \in SUBSET S : D # {} /\ ~Top(D)}
<1>1. ASSUME T # {} PROVE FALSE
  <2>1. PICK D \in T : \A E \in T : E \subseteq D => E = D
    <3>1. PICK U : U = T
      OBVIOUS
    <3>2. U # {} /\ \A D \in U : D \subseteq S
      BY <1>1, <3>1
    <3>3. \E D \in U : \A E \in U : E \subseteq D => E = D
      BY <3>2, MinimalExists
    <3>4. QED
      BY <3>1, <3>3
  <2>2. PICK x \in D : TRUE
    BY <2>1
  <2>3. D \ {x} \notin T
    BY <2>1, <2>2
  <2>4. CASE D \ {x} = {}
    BY <2>1, <2>2, <2>4
  <2>5. CASE D \ {x} # {}
    <3>1. Top(D \ {x})
      BY <2>1, <2>3, <2>5
    <3>2. PICK m \in D \ {x} : \A n \in D \ {x} : n <= m
      BY <3>1
    <3>3. \A n \in D : n <= IF m <= x THEN x ELSE m
      BY <2>1, <2>2, <3>2
    <3>4. Top(D)
      BY <2>2, <3>2, <3>3
    <3>5. QED
      BY <2>1, <3>4
  <2>6. QED
    BY <2>4, <2>5
<1>2. QED
  BY <1>1

(* For any candidates there is a batch that takes exactly the claimable     *)
(* ones which find a free slot: the greatest candidate is decided on after  *)
(* all others.                                                              *)
LEMMA BatchExists ==
  ASSUME NEW g, NEW s, NEW stop, NEW S \in SUBSET Nat, IsFiniteSet(S)
  PROVE  \E C \in SUBSET S : IsBatch(g, s, S, stop, C)
<1> DEFINE Has(D) == \E C \in SUBSET D : IsBatch(g, s, D, stop, C)
           T == {D \in SUBSET S : ~Has(D)}
<1>1. ASSUME T # {} PROVE FALSE
  <2>1. PICK D \in T : \A E \in T : E \subseteq D => E = D
    <3>1. PICK U : U = T
      OBVIOUS
    <3>2. U # {} /\ \A D \in U : D \subseteq S
      BY <1>1, <3>1
    <3>3. \E D \in U : \A E \in U : E \subseteq D => E = D
      BY <3>2, MinimalExists
    <3>4. QED
      BY <3>1, <3>3
  <2>2. D # {}
    <3>1. IsBatch(g, s, {}, stop, {})
      BY DEF IsBatch
    <3>2. QED
      BY <2>1, <3>1
  <2>3. PICK m \in D : \A n \in D : n <= m
    <3>1. IsFiniteSet(D)
      BY <2>1, FS_Subset
    <3>2. QED
      BY <2>1, <2>2, <3>1, MaximumExists
  <2>4. D \ {m} \notin T
    BY <2>1, <2>3
  <2>5. PICK C \in SUBSET (D \ {m}) : IsBatch(g, s, D \ {m}, stop, C)
    BY <2>1, <2>4
  <2>6. {k \in C : k < m} = C
    <3>1. ASSUME NEW k \in C PROVE k < m
      <4>1. k \in D /\ k # m /\ k \in Nat /\ m \in Nat
        BY <2>1, <2>3, <2>5
      <4>2. k <= m
        BY <2>3, <4>1
      <4>3. QED
        BY <4>1, <4>2
    <3>2. QED
      BY <3>1
  <2> DEFINE Room == /\ Claimable(g, s, m, stop)
                     /\ Cardinality({k \in C : k < m}) < g.global
                     /\ \/ g.key[m] = NoKey
                        \/ Cardinality({k \in C : k < m /\ g.key[k] = g.key[m]}) < g.keyed[g.key[m]]
             E == IF Room THEN C \union {m} ELSE C
  <2>7. \A n \in D : /\ {k \in E : k < n} = {k \in C : k < n}
                     /\ {k \in E : k < n /\ g.key[k] = g.key[n]} = {k \in C : k < n /\ g.key[k] = g.key[n]}
    BY <2>1, <2>3, <2>5
  <2>8. IsBatch(g, s, D, stop, E)
    <3> SUFFICES ASSUME NEW n \in D
                 PROVE  n \in E <=>
                          /\ Claimable(g, s, n, stop)
                          /\ Cardinality({k \in C : k < n}) < g.global
                          /\ \/ g.key[n] = NoKey
                             \/ Cardinality({k \in C : k < n /\ g.key[k] = g.key[n]}) < g.keyed[g.key[n]]
      BY <2>7 DEF IsBatch
    <3>1. CASE n = m
      <4>1. n \in E <=> Room
        BY <2>5, <3>1
      <4>2. QED
        BY <3>1, <4>1
    <3>2. CASE n # m
      <4>1. n \in E <=> n \in C
        BY <3>2
      <4>2. n \in D \ {m}
        BY <3>2
      <4>3. QED
        BY <2>5, <4>1, <4>2 DEF IsBatch
    <3>3. QED
      BY <3>1, <3>2
  <2>9. E \in SUBSET D
    BY <2>3, <2>5
  <2>10. QED
    BY <2>1, <2>8, <2>9
<1>2. QED
  BY <1>1

(* What collect returns is such a batch, so the CHOOSE in it is never       *)
(* empty.                                                                   *)
LEMMA CollectIs ==
  ASSUME NEW g, NEW s, NEW stop, NEW S \in SUBSET Nat, IsFiniteSet(S)
  PROVE  /\ Collect(g, s, S, stop) \in SUBSET S
         /\ IsBatch(g, s, S, stop, Collect(g, s, S, stop))
<1>1. \E C \in SUBSET S : IsBatch(g, s, S, stop, C)
  BY BatchExists
<1> DEFINE P(C) == IsBatch(g, s, S, stop, C)
<1> HIDE DEF P
<1>2. \E C \in SUBSET S : P(C)
  BY <1>1 DEF P
<1>3. (CHOOSE C \in SUBSET S : P(C)) \in SUBSET S /\ P(CHOOSE C \in SUBSET S : P(C))
  BY <1>2, Zenon
<1>4. QED
  BY <1>3 DEF P, Collect
(* The state s asks for no further work: the run is complete or failed.     *)
Ends(s) == Decide(s).kind \in {"complete", "fail"}

(* A dag asks for the next attempts of nodes that wait or failed, and only  *)
(* when no attempt is open.                                                 *)
LEMMA DagAsks ==
  ASSUME RunsADag, NEW s, NEW p \in Decide(s).positions
  PROVE  /\ p[1] \in NodesOf(Graph) /\ p[2] = s[p[1]].attempts + 1
         /\ s[p[1]].status \in {"pending", "failed"}
         /\ \A n \in NodesOf(Graph) : s[n].status \notin {"in-flight", "paused"}
<1> DEFINE W == Collect(Graph, s, Workers(Graph), TRUE)
           F == Collect(Graph, s, Finalizers(Graph), FALSE)
<1>1. /\ Workers(Graph) \in SUBSET Nat /\ IsFiniteSet(Workers(Graph))
      /\ Finalizers(Graph) \in SUBSET Nat /\ IsFiniteSet(Finalizers(Graph))
      /\ Workers(Graph) \subseteq NodesOf(Graph) /\ Finalizers(Graph) \subseteq NodesOf(Graph)
  <2>1. Workers(Graph) \subseteq NodesOf(Graph) /\ Finalizers(Graph) \subseteq NodesOf(Graph)
    BY DEF Workers, Finalizers
  <2>2. QED
    BY <2>1, GraphIsValid, FS_Subset
<1>2. /\ W \subseteq Workers(Graph) /\ IsBatch(Graph, s, Workers(Graph), TRUE, W)
      /\ F \subseteq Finalizers(Graph) /\ IsBatch(Graph, s, Finalizers(Graph), FALSE, F)
  BY <1>1, CollectIs
<1>3. \A n \in W \cup F : n \in NodesOf(Graph) /\ s[n].status \in {"pending", "failed"}
  BY <1>1, <1>2 DEF IsBatch, Claimable
<1> HIDE DEF W, F
<1>4. Decide(s) = DagDecide(Graph, s)
  BY DEF RunsADag, DecideNow
<1>5. /\ \A n \in NodesOf(Graph) : s[n].status \notin {"in-flight", "paused"}
      /\ Decide(s) \in {Dispatch(s, W), Dispatch(s, F)}
  <2>1. Dispatch(s, {}).positions = {} /\ \A kind : Terminal(kind).positions = {}
    BY DEF Dispatch, Terminal
  <2>2. QED
    BY <1>4, <2>1 DEF DagDecide, W, F
<1>6. PICK n \in W \cup F : p = NextPosition(s, n)
  BY <1>5 DEF Dispatch
<1>7. QED
  BY <1>3, <1>5, <1>6 DEF NextPosition

(* A dag that asks for no further work has no open attempt.                 *)
LEMMA DagEnds ==
  ASSUME RunsADag, NEW s, Ends(s)
  PROVE  \A n \in NodesOf(Graph) : s[n].status \notin {"in-flight", "paused"}
<1>1. DagDecide(Graph, s).kind \in {"complete", "fail"}
  BY DEF Ends, RunsADag, DecideNow
<1>2. Dispatch(s, {}).kind = "dispatch" /\ Terminal("pause").kind = "pause"
  BY DEF Dispatch, Terminal
<1>3. QED
  BY <1>1, <1>2 DEF DagDecide

-----------------------------------------------------------------------------
(* An attempt that is open in the record is the current one of its node:    *)
(* the fold and the graph agree on what is open.                            *)
Linked(f) ==
  \A p \in Positions :
    f.attempts[p].status \in {"in-flight", "paused"} =>
      f.gstate[p[1]].status = f.attempts[p].status /\ f.gstate[p[1]].attempts = p[2]

(* A log in which they agree and the graph state is one of the dag.         *)
IsLinked(f) == IsLog(f) /\ IsGraphState(f.gstate) /\ Linked(f)

(* What happens to an open attempt is no concern of any other node.         *)
LEMMA LinkKept ==
  ASSUME RunsADag, NEW f, IsLinked(f), NEW g, NEW p \in Positions, NEW st,
         f.attempts[p].status \in {"in-flight", "paused"},
         \A q \in Positions : q # p => g.attempts[q].status = f.attempts[q].status,
         g.gstate = WithStatus(f.gstate, p[1], st),
         g.attempts[p].status \in {"in-flight", "paused"} => g.attempts[p].status = st
  PROVE  Linked(g) /\ IsGraphState(g.gstate)
<1> DEFINE s == f.gstate
<1>1. p[1] \in NodesOf(Graph) /\ p = <<p[1], p[2]>> /\ s[p[1]].attempts = p[2]
  BY PositionIs DEF IsLinked, Linked
<1>2. IsGraphState(s)
  BY DEF IsLinked
<1>3. /\ \A n \in NodesOf(Graph) : n # p[1] => g.gstate[n] = s[n]
      /\ g.gstate[p[1]].status = st /\ g.gstate[p[1]].attempts = s[p[1]].attempts
      /\ IsGraphState(g.gstate)
  BY <1>1, <1>2, StatusIs
<1>4. ASSUME NEW q \in Positions, g.attempts[q].status \in {"in-flight", "paused"}
      PROVE  g.gstate[q[1]].status = g.attempts[q].status /\ g.gstate[q[1]].attempts = q[2]
  <2>1. q[1] \in NodesOf(Graph) /\ q = <<q[1], q[2]>>
    BY PositionIs
  <2>2. CASE q = p
    <3>1. s[p[1]].status = f.attempts[p].status
      BY DEF IsLinked, Linked
    <3>2. QED
      BY <1>1, <1>3, <1>4, <2>2, <3>1
  <2>3. CASE q # p
    <3>1. s[q[1]].status = f.attempts[q].status /\ s[q[1]].attempts = q[2]
      BY <1>4, <2>3 DEF IsLinked, Linked
    <3>2. q[1] # p[1]
      BY <1>1, <2>1, <2>3, <3>1
    <3>3. QED
      BY <1>3, <1>4, <2>1, <2>3, <3>1, <3>2
  <2>4. QED
    BY <2>2, <2>3
<1>5. QED
  BY <1>3, <1>4 DEF Linked

(* A log of which only what is neither graph state nor status changed.      *)
LEMMA LinkSame ==
  ASSUME NEW f, IsLinked(f), NEW g, IsLog(g), g.gstate = f.gstate,
         \A q \in Positions : g.attempts[q].status = f.attempts[q].status
  PROVE  IsLinked(g)
  BY DEF IsLinked, Linked

(* A start and a receipt open and close nothing.                            *)
LEMMA StartLinks ==
  ASSUME RunsADag, NEW f, IsLinked(f), NEW p \in Positions, NEW n \in Nat
  PROVE  IsLinked(FoldStart(f, p)) /\ IsLinked(FoldReceipt(f, p, n))
<1>1. /\ IsLog(f) /\ IsLog(FoldStart(f, p)) /\ IsLog(FoldReceipt(f, p, n))
      /\ FoldStart(f, p).gstate = f.gstate /\ FoldReceipt(f, p, n).gstate = f.gstate
  BY FoldsAreLogs, FoldsTell DEF IsLinked
<1>2. \A q \in Positions : FoldStart(f, p).attempts[q].status = f.attempts[q].status
  BY <1>1 DEF FoldStart, Fold, IsLog, Attempt
<1>3. \A q \in Positions : FoldReceipt(f, p, n).attempts[q].status = f.attempts[q].status
  BY <1>1 DEF FoldReceipt, Fold, IsLog, Attempt
<1>4. QED
  BY <1>1, <1>2, <1>3, LinkSame

(* The fold refuses an event and remains as it was, but for being refused.  *)
LEMMA RefusedLinks ==
  ASSUME NEW f, IsLinked(f)
  PROVE  IsLinked([f EXCEPT !.valid = FALSE])
<1>1. IsLog([f EXCEPT !.valid = FALSE])
  BY DEF IsLinked, IsLog
<1>2. /\ [f EXCEPT !.valid = FALSE].gstate = f.gstate
      /\ [f EXCEPT !.valid = FALSE].attempts = f.attempts
  BY DEF IsLinked, IsLog
<1>3. QED
  BY <1>1, <1>2, LinkSame

(* The graph takes a resume as the fold does: a paused attempt is in flight *)
(* again, one in flight stays so.                                           *)
LEMMA ResumeLinks ==
  ASSUME RunsADag, NEW f, IsLinked(f), NEW p \in Positions
  PROVE  IsLinked(FoldResume(f, p))
<1> DEFINE g == FoldResume(f, p)
           a == f.attempts[p]
           ev == Event("node-resumed", p, "none")
<1>1. IsLog(f) /\ IsLog(g) /\ a \in Attempt
  BY FoldsAreLogs, 0 \in Nat DEF IsLinked, IsLog
<1>2. CASE ~(a.status = "paused" \/ (a.status = "in-flight" /\ a.started))
  <2>1. g = [f EXCEPT !.valid = FALSE]
    BY <1>2 DEF FoldResume, Fold
  <2>2. QED
    BY <2>1, RefusedLinks
<1>3. CASE a.status = "paused" \/ (a.status = "in-flight" /\ a.started)
  <2>1. /\ g.gstate = DagReduce(Graph, f.gstate, ev)
        /\ g.attempts[p].status = "in-flight"
        /\ \A q \in Positions : q # p => g.attempts[q].status = f.attempts[q].status
    BY <1>1, <1>3 DEF FoldResume, Fold, IsLog, Attempt, RunsADag, ReduceOne
  <2>2. ev.type = "node-resumed" /\ ev.position = p
    BY DEF Event
  <2>3. f.gstate[p[1]].status = a.status /\ f.gstate[p[1]].attempts = p[2]
    BY <1>3 DEF IsLinked, Linked
  <2> HIDE DEF ev, g, a
  <2>4. CASE a.status = "paused"
    <3>1. g.gstate = WithStatus(f.gstate, p[1], "in-flight")
      BY <2>1, <2>2, <2>3, <2>4 DEF DagReduce
    <3>2. QED
      BY <1>1, <2>1, <2>4, <3>1, LinkKept DEF IsLinked, a, g
  <2>5. CASE a.status # "paused"
    <3>1. g.gstate = f.gstate
      BY <2>1, <2>2, <2>3, <2>5 DEF DagReduce
    <3>2. \A q \in Positions : g.attempts[q].status = f.attempts[q].status
      BY <1>3, <2>1, <2>5 DEF a
    <3>3. QED
      BY <1>1, <3>1, <3>2, LinkSame DEF g
  <2>6. QED
    BY <2>4, <2>5
<1>4. QED
  BY <1>2, <1>3

(* It takes a pause, a result and a failure of an attempt in flight as the  *)
(* fold does.                                                               *)
LEMMA EndLinks ==
  ASSUME RunsADag, NEW f, IsLinked(f), NEW p \in Positions, NEW r
  PROVE  /\ IsLinked(FoldPause(f, p)) /\ IsLinked(FoldSettle(f, p, "node-failed", "none"))
         /\ IsLinked(FoldSettle(f, p, "node-completed", r))
<1> DEFINE a == f.attempts[p]
<1>1. IsLog(f) /\ a \in Attempt
  BY DEF IsLinked, IsLog
<1>2. ASSUME NEW g, IsLog(g), NEW type \in {"node-paused", "node-failed", "node-completed"}, NEW x,
             a.status = "in-flight",
             g.gstate = DagReduce(Graph, f.gstate, Event(type, p, x)),
             g.attempts[p].status = IF type = "node-paused" THEN "paused" ELSE "settled",
             \A q \in Positions : q # p => g.attempts[q].status = f.attempts[q].status
      PROVE  IsLinked(g)
  <2> DEFINE ev == Event(type, p, x)
  <2>1. ev.type = type /\ ev.position = p /\ ev.result = x
    BY DEF Event
  <2>2. IsCurrent(f.gstate, p)
    BY <1>2 DEF IsCurrent, IsLinked, Linked
  <2> HIDE DEF ev
  <2>3. PICK st : /\ g.gstate = WithStatus(f.gstate, p[1], st)
                  /\ type = "node-paused" => st = "paused"
    <3>1. CASE type = "node-paused"
      BY <1>2, <2>1, <2>2, <3>1 DEF DagReduce, ev
    <3>2. CASE type = "node-failed"
      BY <1>2, <2>1, <2>2, <3>2 DEF DagReduce, ev
    <3>3. CASE type = "node-completed"
      BY <1>2, <2>1, <2>2, <3>3 DEF DagReduce, ev
    <3>4. QED
      BY <3>1, <3>2, <3>3
  <2>4. QED
    BY <1>2, <2>3, LinkKept DEF IsLinked
<1>3. CASE a.status # "in-flight"
  <2>1. /\ FoldPause(f, p) = [f EXCEPT !.valid = FALSE]
        /\ FoldSettle(f, p, "node-failed", "none") = [f EXCEPT !.valid = FALSE]
        /\ FoldSettle(f, p, "node-completed", r) = [f EXCEPT !.valid = FALSE]
    BY <1>3 DEF FoldPause, FoldSettle, Fold
  <2>2. QED
    BY <2>1, RefusedLinks
<1>4. CASE a.status = "in-flight"
  <2>1. IsLinked(FoldPause(f, p))
    <3> DEFINE g == FoldPause(f, p)
    <3>1. IsLog(g)
      BY <1>1, FoldsAreLogs, 0 \in Nat
    <3>2. /\ g.gstate = DagReduce(Graph, f.gstate, Event("node-paused", p, "none"))
          /\ g.attempts[p].status = "paused"
          /\ \A q \in Positions : q # p => g.attempts[q].status = f.attempts[q].status
      BY <1>1, <1>4 DEF FoldPause, Fold, IsLog, Attempt, RunsADag, ReduceOne
    <3> HIDE DEF g
    <3>3. IsLinked(g)
      BY <1>2, <1>4, <3>1, <3>2
    <3>4. QED
      BY <3>3 DEF g
  <2>2. ASSUME NEW type \in {"node-failed", "node-completed"}, NEW x
        PROVE  IsLinked(FoldSettle(f, p, type, x))
    <3> DEFINE g == FoldSettle(f, p, type, x)
    <3>1. IsLog(g)
      BY <1>1, FoldsAreLogs, 0 \in Nat
    <3>2. /\ g.gstate = DagReduce(Graph, f.gstate, Event(type, p, x))
          /\ g.attempts[p].status = "settled"
          /\ \A q \in Positions : q # p => g.attempts[q].status = f.attempts[q].status
      BY <1>1, <1>4 DEF FoldSettle, Fold, IsLog, Attempt, RunsADag, ReduceOne
    <3> HIDE DEF g
    <3>3. IsLinked(g)
      BY <1>2, <1>4, <3>1, <3>2
    <3>4. QED
      BY <3>3 DEF g
  <2>3. QED
    BY <2>1, <2>2
<1>5. QED
  BY <1>3, <1>4

(* What a dispatch of q makes of node n in state s.                        *)
Taken(s, n, q) ==
  IF q[2] = s[n].attempts + 1 /\ s[n].status \in {"pending", "failed"}
    THEN [status |-> "in-flight", attempts |-> q[2]] ELSE s[n]

(* The node of a dispatched position is told of one of the positions that   *)
(* name it.                                                                 *)
LEMMA DispatchedNode ==
  ASSUME NEW s, IsGraphState(s), NEW P, NEW v, v = DagReduceBatch(Graph, s, P),
         NEW n \in NodesOf(Graph), NEW w \in P, w[1] = n
  PROVE  \E q \in P : q[1] = n /\ v[n] = Taken(s, n, q)
<1>1. IF \E q \in P : q[1] = n THEN \E q \in P : q[1] = n /\ v[n] = Taken(s, n, q) ELSE v[n] = s[n]
  BY DispatchedIs DEF Taken
<1>2. QED
  BY <1>1

(* What is dispatched is open in the graph too, for nothing else is.        *)
LEMMA DispatchLinks ==
  ASSUME RunsADag, NEW f, IsLinked(f), NEW P
  PROVE  IsLinked(FoldDispatches(f, P))
<1> DEFINE g == FoldDispatches(f, P)
           s == f.gstate
           d == Decide(s)
           Accepted == /\ d.kind = "dispatch" /\ P \subseteq d.positions
                       /\ \A p \in P : f.attempts[p].status = "none"
<1>1. IsLog(f) /\ IsLog(g) /\ IsGraphState(s)
  BY DispatchesAreLogs DEF IsLinked
<1>2. CASE ~Accepted
  <2>1. g = [f EXCEPT !.valid = FALSE]
    BY <1>2 DEF FoldDispatches, Fold
  <2>2. QED
    BY <2>1, RefusedLinks
<1>3. CASE Accepted
  <2>1. g = [f EXCEPT !.gstate = ReduceAll(s, P),
                      !.attempts = [p \in Positions |-> IF p \in P THEN [NoAttempt EXCEPT !.status = "in-flight"]
                                                                  ELSE f.attempts[p]]]
    BY <1>3 DEF FoldDispatches, Fold
  <2>2. /\ g.gstate = DagReduceBatch(Graph, s, P)
        /\ g.attempts = [p \in Positions |-> IF p \in P THEN [NoAttempt EXCEPT !.status = "in-flight"]
                                                        ELSE f.attempts[p]]
    BY <1>1, <2>1 DEF IsLog, RunsADag, ReduceBatch
  <2>3. IsGraphState(g.gstate)
    BY <1>1, <2>2, DispatchedIs
  <2>4. ASSUME NEW p \in P
        PROVE  p[1] \in NodesOf(Graph) /\ p[2] = s[p[1]].attempts + 1 /\ s[p[1]].status \in {"pending", "failed"}
    BY <1>3, DagAsks
  <2> HIDE DEF g, s, d, Accepted
  <2>5. ASSUME NEW p \in Positions, g.attempts[p].status \in {"in-flight", "paused"}
        PROVE  g.gstate[p[1]].status = g.attempts[p].status /\ g.gstate[p[1]].attempts = p[2]
    <3>1. p[1] \in NodesOf(Graph)
      BY PositionIs
    <3>2. CASE p \in P
      <4>1. g.attempts[p].status = "in-flight"
        BY <2>2, <3>2 DEF NoAttempt
      <4>2. IsGraphState(s) /\ g.gstate = DagReduceBatch(Graph, s, P)
        BY <1>1, <2>2
      <4>3. PICK q \in P : q[1] = p[1] /\ g.gstate[p[1]] = Taken(s, p[1], q)
        BY <3>1, <3>2, <4>2, DispatchedNode
      <4>4. q[2] = s[p[1]].attempts + 1 /\ p[2] = q[2] /\ s[p[1]].status \in {"pending", "failed"}
        BY <2>4, <3>2, <4>3
      <4>5. g.gstate[p[1]] = [status |-> "in-flight", attempts |-> p[2]]
        BY <4>3, <4>4 DEF Taken
      <4>6. QED
        BY <4>1, <4>5
    <3>3. CASE p \notin P
      <4>1. f.attempts[p].status \in {"in-flight", "paused"} /\ g.attempts[p] = f.attempts[p]
        BY <2>2, <2>5, <3>3
      <4>2. s[p[1]].status = f.attempts[p].status /\ s[p[1]].attempts = p[2]
        BY <4>1 DEF IsLinked, Linked, s
      <4>3. P = {}
        <5>1. SUFFICES ASSUME NEW q \in P PROVE FALSE
          OBVIOUS
        <5>2. \A n \in NodesOf(Graph) : s[n].status \notin {"in-flight", "paused"}
          BY <1>3, DagAsks DEF Accepted, d
        <5>3. QED
          BY <3>1, <4>1, <4>2, <5>2
      <4>4. g.gstate[p[1]] = s[p[1]]
        BY <1>1, <2>2, <3>1, <4>3, DispatchedIs
      <4>5. QED
        BY <4>1, <4>2, <4>4
    <3>4. QED
      BY <3>2, <3>3
  <2>6. QED
    BY <1>1, <2>3, <2>5 DEF IsLinked, Linked, g
<1>4. QED
  BY <1>2, <1>3

(* An append keeps them so if what it records does.                         *)
LEMMA AppendLinks ==
  ASSUME IsLinked(log), NEW e \in Executors, NEW x, NEW f, IsLinked(f), Commits(e, x, f) \/ Throws(x, f)
  PROVE  IsLinked(log')
<1>1. log.rev + 1 \in Nat
  BY DEF IsLinked, IsLog
<1>2. IsLinked(Stored(f))
  <2>1. IsLog(Stored(f)) /\ Stored(f).gstate = f.gstate /\ Stored(f).attempts = f.attempts
    BY <1>1 DEF IsLinked, IsLog, Stored
  <2>2. QED
    BY <2>1, LinkSame
<1>3. log' = log \/ log' = Stored(f)
  BY DEF Commits, Throws, Conflicts, StorageFails
<1>4. QED
  BY <1>2, <1>3

(* Every step of an attempt keeps them so.                                  *)
LEMMA TaskStepLinks ==
  ASSUME RunsADag, AllTyped, IsLinked(log), NEW e \in Executors, NEW k \in Positions \X Slots,
         TaskStep(e, k)
  PROVE  IsLinked(log')
<1> DEFINE p == k[1]
           t == task[e][k]
<1>1. p \in Positions /\ t.seq + 1 \in Nat
  BY DEF AllTyped, TasksTyped, Task
<1>2. ASSUME NEW f, IsLinked(f), NEW u, TaskAppends(e, k, f, u)
      PROVE  IsLinked(log')
  BY <1>2, AppendLinks DEF TaskAppends
<1>3. CASE AppendStart(e, k)
  <2>1. IsLinked(FoldStart(log, p))
    BY <1>1, StartLinks
  <2>2. QED
    BY <1>2, <1>3, <2>1 DEF AppendStart
<1>4. CASE SkipRun(e, k) \/ Invoke(e, k) \/ RunReturns(e, k)
  BY <1>4 DEF SkipRun, Invoke, RunReturns
<1>5. CASE AppendReceipt(e, k)
  <2>1. IsLinked(FoldReceipt(log, p, t.seq + 1))
    BY <1>1, StartLinks
  <2>2. QED
    BY <1>2, <1>5, <2>1 DEF AppendReceipt
<1>6. CASE AppendFact(e, k)
  <2>1. Commits(e, appendRev[e], log) \/ Throws(appendRev[e], log)
    BY <1>6 DEF AppendFact
  <2>2. QED
    BY <2>1, AppendLinks
<1>7. CASE AppendOutcome(e, k)
  <2>1. PICK f : /\ TaskAppends(e, k, f, NoTask)
                 /\ \/ f = FoldPause(log, p) \/ f = FoldSettle(log, p, "node-failed", "none")
                    \/ \E r \in Results : f = FoldSettle(log, p, "node-completed", r)
    BY <1>7 DEF AppendOutcome
  <2>2. IsLinked(f)
    BY <1>1, <2>1, EndLinks
  <2>3. QED
    BY <1>2, <2>1, <2>2
<1>8. QED
  BY <1>3, <1>4, <1>5, <1>6, <1>7 DEF TaskStep

(* Every step of an operation keeps them so.                                *)
LEMMA OperationStepLinks ==
  ASSUME RunsADag, AllTyped, IsLinked(log), NEW e \in Executors, OperationStep(e)
  PROVE  IsLinked(log')
<1>1. IsLog(snap[e])
  BY DEF AllTyped, ControlTyped
<1>2. CASE Read(e) \/ Decides(e) \/ DecidesResume(e) \/ Awaited(e)
  BY <1>2 DEF Read, Decides, DecidesResume, Awaited
<1>3. CASE AppendDispatch(e)
  <2> DEFINE f == FoldDispatches(log, Decided(e))
  <2>1. Commits(e, snap[e].rev, f) \/ Throws(snap[e].rev, f)
    BY <1>3 DEF AppendDispatch, Throws
  <2>2. IsLinked(f)
    BY DispatchLinks
  <2>3. QED
    BY <2>1, <2>2, AppendLinks
<1>4. ASSUME NEW p \in Positions
      PROVE  IsLinked(WithRecovery(e, p))
  <2>1. snap[e].attempts[p].seq + 1 \in Nat
    BY <1>1 DEF IsLog, Attempt
  <2>2. IsLinked(FoldReceipt(log, p, snap[e].attempts[p].seq + 1))
    BY <2>1, StartLinks
  <2>3. QED
    BY <2>2 DEF WithRecovery
<1>5. CASE AppendReconcile(e)
  <2> DEFINE p == target[e]
             f == FoldPause(WithRecovery(e, p), p)
  <2>1. p \in Positions /\ (Commits(e, snap[e].rev, f) \/ Throws(snap[e].rev, f))
    BY <1>5 DEF AppendReconcile, AllTyped, ControlTyped
  <2>2. IsLinked(f)
    BY <1>4, <2>1, EndLinks
  <2>3. QED
    BY <2>1, <2>2, AppendLinks
<1>6. CASE AppendResume(e)
  <2> DEFINE p == target[e]
             f == FoldResume(WithRecovery(e, p), p)
  <2>1. p \in Positions /\ (Commits(e, snap[e].rev, f) \/ Throws(snap[e].rev, f))
    BY <1>6 DEF AppendResume, AllTyped, ControlTyped
  <2>2. IsLinked(f)
    BY <1>4, <2>1, ResumeLinks
  <2>3. QED
    BY <2>1, <2>2, AppendLinks
<1>7. QED
  BY <1>2, <1>3, <1>5, <1>6 DEF OperationStep

(* They agree in the empty log, and after every step.                       *)
LEMMA InitLinks ==
  ASSUME RunsADag, Init
  PROVE  IsLinked(log)
<1>1. IsLog(log) /\ log = EmptyLog
  BY InitTypes DEF Init, AllTyped, StreamTyped
<1>2. Linked(log)
  BY <1>1 DEF Linked, EmptyLog, NoAttempt
<1>3. IsGraphState(log.gstate)
  BY <1>1 DEF EmptyLog, RunsADag, DagInitial, DagInitialState, IsGraphState
<1>4. QED
  BY <1>1, <1>2, <1>3 DEF IsLinked

(* They agree after every step.                                             *)
LEMMA NextLinks ==
  ASSUME RunsADag, AllTyped, IsLinked(log), [Next]_vars
  PROVE  IsLinked(log')
<1>1. CASE UNCHANGED vars
  BY <1>1 DEF vars
<1>2. CASE OtherAppends
  <2>1. IsLog(Stored(log)) /\ Stored(log).gstate = log.gstate /\ Stored(log).attempts = log.attempts
    BY DEF IsLinked, IsLog, Stored
  <2>2. QED
    BY <1>2, <2>1, LinkSame DEF OtherAppends
<1>3. ASSUME NEW e \in Executors, HostStep(e)
      PROVE  log' = log
  BY <1>3 DEF HostStep, Create, Close, Crash, Gone, Abort, Call
<1>4. QED
  BY <1>1, <1>2, <1>3, TaskStepLinks, OperationStepLinks DEF Next

-----------------------------------------------------------------------------
(* The graph state of the log, and all else but the revision, stand still.  *)
Rests == log' = [log EXCEPT !.rev = log'.rev]

(* Nothing is open in the record of a dag that ended.                       *)
LEMMA NothingOpen ==
  ASSUME RunsADag, IsLinked(log), Ends(log.gstate), NEW p \in Positions
  PROVE  log.attempts[p].status \notin {"in-flight", "paused"}
<1>1. p[1] \in NodesOf(Graph)
  BY PositionIs
<1>2. log.gstate[p[1]].status \notin {"in-flight", "paused"}
  BY <1>1, DagEnds
<1>3. QED
  BY <1>2 DEF IsLinked, Linked

(* An append at a revision that is not the log's leaves it alone.           *)
LEMMA StaleAppendRests ==
  ASSUME NEW e, NEW x, x # log.rev, NEW f, Commits(e, x, f) \/ Throws(x, f)
  PROVE  log' = log
  BY DEF Commits, Throws, Conflicts, StorageFails

(* An attempt that outlives the end of the run is behind the log: nothing   *)
(* that it records is accepted.                                             *)
LEMMA TaskRests ==
  ASSUME RunsADag, AllTyped, StreamInv, IsLinked(log), Ends(log.gstate),
         NEW e \in Executors, NEW k \in Positions \X Slots, TaskStep(e, k)
  PROVE  log' = log
<1>1. task[e][k].step # "none"
  BY DEF TaskStep, AppendStart, SkipRun, Invoke, RunReturns, AppendReceipt, AppendFact, AppendOutcome
<1>2. appendRev[e] # log.rev
  <2>1. SUFFICES ASSUME appendRev[e] = log.rev PROVE FALSE
    OBVIOUS
  <2>2. k \in Live(e) /\ k[1] \in Positions
    BY <1>1 DEF Live
  <2>3. Agrees(k, task[e][k])
    BY <2>1, <2>2 DEF StreamInv, InStep, WorkIsInStep
  <2>4. QED
    BY <2>2, <2>3, NothingOpen DEF Agrees
<1>3. ASSUME NEW f, NEW u, TaskAppends(e, k, f, u)
      PROVE  log' = log
  BY <1>2, <1>3, StaleAppendRests DEF TaskAppends
<1>4. CASE AppendStart(e, k)
  BY <1>3, <1>4 DEF AppendStart
<1>5. CASE SkipRun(e, k) \/ Invoke(e, k) \/ RunReturns(e, k)
  BY <1>5 DEF SkipRun, Invoke, RunReturns
<1>6. CASE AppendReceipt(e, k)
  BY <1>3, <1>6 DEF AppendReceipt
<1>7. CASE AppendFact(e, k)
  <2>1. Commits(e, appendRev[e], log) \/ Throws(appendRev[e], log)
    BY <1>7 DEF AppendFact
  <2>2. QED
    BY <1>2, <2>1, StaleAppendRests
<1>8. CASE AppendOutcome(e, k)
  BY <1>3, <1>8 DEF AppendOutcome
<1>9. QED
  BY <1>4, <1>5, <1>6, <1>7, <1>8 DEF TaskStep

(* So is an operation that is about to record something.                    *)
LEMMA OperationRests ==
  ASSUME RunsADag, AllTyped, StreamInv, IsLinked(log), Ends(log.gstate),
         NEW e \in Executors, OperationStep(e)
  PROVE  log' = log
<1>1. InStep(e)
  BY DEF StreamInv
<1>2. ASSUME pc[e] \in {"dispatch", "reconcile", "resume"}
      PROVE  snap[e].rev # log.rev
  <2>1. SUFFICES ASSUME snap[e].rev = log.rev PROVE FALSE
    OBVIOUS
  <2>2. snap[e] = log
    BY <1>1, <1>2, <2>1 DEF InStep, ReadIsFresh, Deciding
  <2>3. CASE pc[e] = "dispatch"
    BY <1>1, <2>2, <2>3 DEF InStep, DecisionFollows, Ends
  <2>4. CASE pc[e] \in {"reconcile", "resume"}
    <3>1. target[e] \in Positions
      BY <2>4 DEF AllTyped, ControlTyped
    <3>2. log.attempts[target[e]].status \in {"in-flight", "paused"}
      BY <1>1, <2>2, <2>4 DEF InStep, DecisionFollows, Uncertain
    <3>3. QED
      BY <3>1, <3>2, NothingOpen
  <2>5. QED
    BY <1>2, <2>3, <2>4
<1>3. CASE Read(e) \/ Decides(e) \/ DecidesResume(e) \/ Awaited(e)
  BY <1>3 DEF Read, Decides, DecidesResume, Awaited
<1>4. CASE AppendDispatch(e)
  <2>1. PICK f : pc[e] = "dispatch" /\ (Commits(e, snap[e].rev, f) \/ Throws(snap[e].rev, f))
    BY <1>4 DEF AppendDispatch, Throws
  <2>2. QED
    BY <1>2, <2>1, StaleAppendRests
<1>5. CASE AppendReconcile(e)
  <2>1. PICK f : pc[e] = "reconcile" /\ (Commits(e, snap[e].rev, f) \/ Throws(snap[e].rev, f))
    BY <1>5 DEF AppendReconcile
  <2>2. QED
    BY <1>2, <2>1, StaleAppendRests
<1>6. CASE AppendResume(e)
  <2>1. PICK f : pc[e] = "resume" /\ (Commits(e, snap[e].rev, f) \/ Throws(snap[e].rev, f))
    BY <1>6 DEF AppendResume
  <2>2. QED
    BY <1>2, <2>1, StaleAppendRests
<1>7. QED
  BY <1>3, <1>4, <1>5, <1>6 DEF OperationStep

(* A run that ended stays as it is: only others still record in its stream. *)
LEMMA EndRests ==
  ASSUME RunsADag, AllTyped, StreamInv, IsLinked(log), Ends(log.gstate), [Next]_vars
  PROVE  Rests
<1>1. IsLog(log)
  BY DEF IsLinked
<1>2. CASE UNCHANGED vars
  BY <1>1, <1>2 DEF vars, Rests, IsLog
<1>3. CASE OtherAppends
  BY <1>1, <1>3 DEF OtherAppends, Stored, Rests, IsLog
<1>4. ASSUME NEW e \in Executors, HostStep(e)
      PROVE  log' = log
  BY <1>4 DEF HostStep, Create, Close, Crash, Gone, Abort, Call
<1>5. CASE log' = log
  BY <1>1, <1>5 DEF Rests, IsLog
<1>6. QED
  BY <1>2, <1>3, <1>4, <1>5, TaskRests, OperationRests DEF Next

(* An executor reports the end of the run, or is about to.                  *)
Reports(x) ==
  \/ outcome[x] \in {"complete", "fail"}
  \/ pc[x] \in Deciding /\ Ends(snap[x].gstate)

(* What it reports is so: the invariant of the end of a run.                *)
FinalInv == \A x \in Executors : Reports(x) => Ends(log.gstate)

(* Who leaves reports what it leaves with.                                  *)
LEMMA LeaveReports ==
  ASSUME AllTyped, NEW e \in Executors, NEW x \in Executors, NEW how, Leave(e, how), Reports(x)'
  PROVE  Reports(x) \/ (x = e /\ how \in {"complete", "fail"})
<1>1. /\ outcome'[x] = IF x = e THEN how ELSE outcome[x]
      /\ pc'[x] = IF x = e THEN "idle" ELSE pc[x]
      /\ x # e => snap'[x] = snap[x]
  BY DEF Leave, AllTyped, ControlTyped
<1>2. QED
  BY <1>1 DEF Reports, Ends, Deciding

(* Who goes on reports what it read.                                        *)
LEMMA AtReports ==
  ASSUME AllTyped, NEW e \in Executors, NEW x \in Executors, NEW place, NEW t, At(e, place, t), Reports(x)',
         place \in Deciding => pc[e] \in Deciding
  PROVE  Reports(x)
<1>1. /\ outcome'[x] = outcome[x]
      /\ pc'[x] = IF x = e THEN place ELSE pc[x]
      /\ (x # e \/ place \in Deciding) => snap'[x] = snap[x]
  BY DEF At, AllTyped, ControlTyped, Deciding
<1>2. QED
  BY <1>1 DEF Reports, Ends

(* Nothing that leaves the control of the executors alone is a report.      *)
LEMMA SameReports ==
  ASSUME NEW x \in Executors, UNCHANGED <<outcome, pc, snap>>, Reports(x)'
  PROVE  Reports(x)
  BY DEF Reports, Ends

(* Nobody begins to report the end of a run that has not ended.             *)
LEMMA ReportsEnd ==
  ASSUME AllTyped, NEW x \in Executors, [Next]_vars, Reports(x)'
  PROVE  Reports(x) \/ Ends(log.gstate)
<1>1. CASE UNCHANGED vars
  BY <1>1, SameReports DEF vars, exec
<1>2. CASE OtherAppends
  BY <1>2, SameReports DEF OtherAppends, exec
<1>3. ASSUME NEW e \in Executors, HostStep(e)
      PROVE  Reports(x)
  <2>1. CASE Create(e)
    BY <2>1, SameReports DEF Create
  <2>2. CASE Close(e) \/ Crash(e)
    <3>1. Gone(e)
      BY <2>2 DEF Close, Crash
    <3>2. /\ outcome'[x] = IF x = e THEN "none" ELSE outcome[x]
          /\ pc'[x] = IF x = e THEN "idle" ELSE pc[x]
          /\ x # e => snap'[x] = snap[x]
      BY <3>1 DEF Gone, AllTyped, ControlTyped
    <3>3. QED
      BY <3>2 DEF Reports, Ends, Deciding
  <2>3. CASE Abort(e)
    BY <2>3, LeaveReports DEF Abort, Rejects
  <2>4. CASE \E t \in Positions \cup {NoPosition} : Call(e, t)
    <3>1. /\ outcome'[x] = IF x = e THEN "none" ELSE outcome[x]
          /\ pc'[x] = IF x = e THEN "read" ELSE pc[x]
          /\ snap'[x] = snap[x]
      BY <2>4 DEF Call, AllTyped, ControlTyped
    <3>2. QED
      BY <3>1 DEF Reports, Ends, Deciding
  <2>5. QED
    BY <1>3, <2>1, <2>2, <2>3, <2>4 DEF HostStep
<1>4. ASSUME NEW e \in Executors, NEW k \in Positions \X Slots, TaskStep(e, k)
      PROVE  Reports(x)
  <2>1. UNCHANGED exec \/ Rejects(e)
    BY <1>4 DEF TaskStep, AppendStart, SkipRun, Invoke, RunReturns, AppendReceipt, AppendFact,
                AppendOutcome, TaskAppends, TaskThrows
  <2>2. QED
    BY <2>1, LeaveReports, SameReports DEF Rejects, exec
<1>5. ASSUME NEW e \in Executors, OperationStep(e)
      PROVE  Reports(x) \/ Ends(log.gstate)
  <2>1. CASE Read(e)
    <3>1. /\ outcome'[x] = outcome[x]
          /\ pc'[x] = IF x = e THEN "fold" ELSE pc[x]
          /\ snap'[x] = IF x = e THEN log ELSE snap[x]
      BY <2>1 DEF Read, AllTyped, ControlTyped
    <3>2. QED
      BY <3>1 DEF Reports, Ends
  <2>2. CASE Decides(e)
    <3> DEFINE d == Decide(snap[e].gstate)
    <3>1. pc[e] = "fold"
      BY <2>2 DEF Decides, Folds
    <3>2. \/ Rejects(e) \/ Leave(e, d.kind)
          \/ Leave(e, "waiting") \/ At(e, "dispatch", NoPosition)
      BY <2>2 DEF Decides
    <3>3. d.kind \in {"complete", "fail"} => Reports(e)
      BY <3>1 DEF Reports, Ends, Deciding
    <3> HIDE DEF d
    <3>4. QED
      BY <3>1, <3>2, <3>3, LeaveReports, AtReports DEF Rejects, Deciding
  <2>3. CASE AppendDispatch(e)
    <3>1. At(e, "await", NoPosition) \/ At(e, "read", NoPosition) \/ Rejects(e)
      BY <2>3 DEF AppendDispatch
    <3>2. QED
      BY <3>1, LeaveReports, AtReports DEF Rejects, Deciding
  <2>4. CASE DecidesResume(e)
    <3>1. PICK p : \/ Rejects(e) \/ At(e, "reconcile", p)
                   \/ At(e, "resume", p) \/ At(e, "await", p)
      BY <2>4 DEF DecidesResume
    <3>2. pc[e] = "fold"
      BY <2>4 DEF DecidesResume, Folds
    <3>3. QED
      BY <3>1, <3>2, LeaveReports, AtReports DEF Rejects, Deciding
  <2>5. CASE AppendReconcile(e)
    <3>1. At(e, "read", NoPosition) \/ Rejects(e)
      BY <2>5 DEF AppendReconcile
    <3>2. QED
      BY <3>1, LeaveReports, AtReports DEF Rejects, Deciding
  <2>6. CASE AppendResume(e)
    <3>1. PICK p : At(e, "await", p) \/ Rejects(e)
      BY <2>6 DEF AppendResume
    <3>2. QED
      BY <3>1, LeaveReports, AtReports DEF Rejects, Deciding
  <2>7. CASE Awaited(e)
    BY <2>7, AtReports DEF Awaited, Deciding
  <2>8. QED
    BY <1>5, <2>1, <2>2, <2>3, <2>4, <2>5, <2>6, <2>7 DEF OperationStep
<1>6. QED
  BY <1>1, <1>2, <1>3, <1>4, <1>5 DEF Next

(* A report is of the end of the run, and the end stays.                    *)
LEMMA NextFinal ==
  ASSUME RunsADag, AllTyped, StreamInv, IsLinked(log), FinalInv, [Next]_vars
  PROVE  FinalInv'
<1>1. SUFFICES ASSUME NEW x \in Executors, Reports(x)'
               PROVE  Ends(log'.gstate)
  BY DEF FinalInv, Ends
<1>2. Ends(log.gstate)
  BY <1>1, ReportsEnd DEF FinalInv
<1>3. log'.gstate = log.gstate
  BY <1>2, EndRests DEF Rests, IsLinked, IsLog
<1>4. QED
  BY <1>2, <1>3

(* With a dag for its graph: once an executor reported the run complete or  *)
(* failed, nobody who still has one on it, or an attempt at work, records   *)
(* anything of its graph.                                                   *)
THEOREM FinalStays ==
  ASSUME HostWaits, RunsADag
  PROVE  Spec => FinalIsFinal
<1>1. Init => AllTyped /\ StreamInv /\ IsLinked(log) /\ FinalInv
  <2>1. Init => FinalInv
    BY DEF Init, FinalInv, Reports, Deciding
  <2>2. QED
    BY <2>1, InitTypes, InitInStep, InitLinks
<1>2. AllTyped /\ StreamInv /\ IsLinked(log) /\ FinalInv /\ [Next]_vars
        => AllTyped' /\ StreamInv' /\ IsLinked(log)' /\ FinalInv'
  <2>1. AllTyped /\ IsLinked(log) /\ [Next]_vars => IsLinked(log)'
    BY NextLinks DEF IsLinked, Linked
  <2>2. QED
    BY <2>1, NextTypes, NextInStep, NextFinal
<1>3. AllTyped /\ StreamInv /\ IsLinked(log) /\ FinalInv /\ [Next]_vars
        => [(\E e \in Executors : outcome[e] \in {"complete", "fail"}) =>
              log' = [log EXCEPT !.rev = log'.rev]]_vars
  <2> SUFFICES ASSUME AllTyped, StreamInv, IsLinked(log), FinalInv, [Next]_vars,
                      NEW e \in Executors, outcome[e] \in {"complete", "fail"}
               PROVE  log' = [log EXCEPT !.rev = log'.rev]
    OBVIOUS
  <2>1. Ends(log.gstate)
    BY DEF FinalInv, Reports
  <2>2. QED
    BY <2>1, EndRests DEF Rests
<1>4. QED
  BY <1>1, <1>2, <1>3, PTL DEF Spec, FinalIsFinal
=============================================================================
