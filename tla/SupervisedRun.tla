------------------------------ MODULE SupervisedRun ------------------------------
(***************************************************************************)
(* One supervised local run of packages/runner/src: the watchdog of         *)
(* supervised-run.ts, which is the process of the caller, and the worker of *)
(* supervised-worker.ts, which it starts, waits for and starts again.  They *)
(* share the supervision stream, the run's own stream, the process lock of  *)
(* the run, and the workspace under its lease.  Somebody else may hold the  *)
(* lease, and edit the workspace, whenever it is free.                      *)
(*                                                                         *)
(* Of the run's stream the module keeps how far it is: what the worker does *)
(* to it is GraphExecutor, and its preflight is Preflight.  The records of  *)
(* the supervision stream that nothing is decided by are appends that may   *)
(* fail.  Cleanup is taken to be what it reports: a command that returns    *)
(* has left no process.  Validation of the options and of the stored        *)
(* anchor, host module digests, usage and status are left out.              *)
(***************************************************************************)
EXTENDS Naturals

CONSTANTS
  HasPreflight,  \* whether the plan has a preflight policy
  MaxRestarts,   \* options.restart.maxRestarts
  MaxPauses,     \* bound: the pauses of the run
  MaxFaults      \* bound: the calls that fail

ASSUME RestartsAreCountable == MaxRestarts \in Nat
ASSUME PreflightIsSettled == HasPreflight \in BOOLEAN

VARIABLES
  run,      \* the run's stream: how far it is, and the pause it is at
  log,      \* what is read of the supervision stream
  lock,     \* whether the run's lock directory is there
  lease,    \* who holds the workspace: the run, somebody else, nobody, or a
            \* token that an acquisition left behind and nobody has
  drifted,  \* whether the workspace has edits of somebody else
  dog,      \* the watchdog
  worker,   \* the worker
  ends,     \* what ends the run early: a call of stop, the deadline
  faults    \* how many calls failed

vars == <<run, log, lock, lease, drifted, dog, worker, ends, faults>>

(* A record of the supervision stream.                                      *)
Record(type) == [type |-> type, evidence |-> "none", safe |-> TRUE, retained |-> FALSE]

Terminals == {"completed", "failed", "paused", "stopped", "timeout"}

Results == {"complete", "fail", "pause"}

TerminalOf(result) ==
  CASE result = "complete" -> "completed"
    [] result = "fail"     -> "failed"
    [] result = "pause"    -> "paused"

Idle == [pc |-> "off", target |-> 0, resumed |-> FALSE, held |-> FALSE, safe |-> TRUE,
         releaseFailed |-> FALSE, anchor |-> "none", evidence |-> "none", refused |-> FALSE,
         restarts |-> 0, timedOut |-> FALSE, after |-> "finish",
         error |-> "none", wraps |-> "other", out |-> Record("none")]

NoWorker == [pc |-> "none", target |-> 0, result |-> "none"]

Alive == worker.pc \in {"up", "binding", "working", "reporting"}

Paused == run.at \in {"paused", "preflight paused"}

Fault == faults < MaxFaults /\ faults' = faults + 1

(* The stream as it is read: its last record; the restarts of the last      *)
(* launch, the last result since, and the first record since that ends a    *)
(* watchdog's work.                                                         *)
NoLog == [last |-> Record("none"), restarts |-> 0, result |-> "none", end |-> "none"]

Fold(l, record) ==
  [l EXCEPT !.last = record,
            !.result = IF record.type \in Results THEN record.type ELSE @,
            !.end = IF record.type \in Terminals /\ @ = "none" THEN record.type ELSE @]

FoldLaunch(l, restarts) ==
  [last |-> Record("launching"), restarts |-> restarts, result |-> "none", end |-> "none"]

(* An append to the supervision stream: it is there, or it is not, or it is *)
(* there and the call fails all the same.                                   *)
Appended(then) == log' = then /\ UNCHANGED faults
NotTold(then)  == Fault /\ log' \in {log, then}

Goes(pc) == dog' = [dog EXCEPT !.pc = pc]

Throws(error) == dog' = [dog EXCEPT !.pc = "catch", !.error = error]

Captured == IF drifted THEN "theirs" ELSE "ours"

Matches(anchor) == anchor = Captured

-----------------------------------------------------------------------------
(* Starting and resuming, up to the first launch.                           *)

(* startSupervisedRun: what it captures is the workspace of the run.        *)
Start ==
  /\ dog.pc = "off" /\ run.at = "none"
  /\ drifted' = FALSE
  /\ dog' = [Idle EXCEPT !.pc = "lock", !.anchor = "ours"]
  /\ ends' = {}
  /\ UNCHANGED <<run, log, lock, lease, worker, faults>>

(* resumeSupervisedRun, with the identity of a pause of the run.            *)
Resume(target) ==
  /\ dog.pc = "off" /\ target \in 1..run.pause
  /\ dog' = [Idle EXCEPT !.pc = "lock", !.target = target, !.resumed = TRUE]
  /\ ends' = {}
  /\ UNCHANGED <<run, log, lock, lease, drifted, worker, faults>>

(* mkdir(lock), which one watchdog can do: the others are PROCESS_LOCKED.   *)
Lock ==
  /\ dog.pc = "lock"
  /\ IF lock THEN dog' = Idle
     ELSE Goes(IF dog.resumed THEN "check" ELSE "lease")
  /\ lock' = TRUE
  /\ UNCHANGED <<run, log, lease, drifted, worker, ends, faults>>

(* The restartCount of the last launch.                                     *)
RestartsSoFar == log.restarts

Resumable ==
  /\ log.last.type = "paused" /\ log.last.safe /\ ~log.last.retained
  /\ Paused /\ run.pause = dog.target

(* What a resume checks before it takes the lease: the last record must be  *)
(* a pause, the run must be at it, and its anchor must be there; a pending  *)
(* anchor is compared with what is captured now.                            *)
Check ==
  /\ dog.pc = "check"
  /\ \/ ~Resumable /\ dog' = [dog EXCEPT !.pc = "give up"] /\ UNCHANGED faults
     \/ /\ Resumable
        /\ LET told == [dog EXCEPT !.restarts = RestartsSoFar, !.evidence = log.last.evidence]
               Refusal == [told EXCEPT !.refused = TRUE, !.pc = "top", !.out = Record("paused")]
           IN \/ /\ dog' = CASE told.evidence = "none"    -> Refusal
                             [] told.evidence = "saved"   -> [told EXCEPT !.anchor = "ours", !.pc = "lease"]
                             [] told.evidence = "pending" ->
                                  IF drifted THEN Refusal ELSE [told EXCEPT !.anchor = "ours", !.pc = "lease"]
                 /\ UNCHANGED faults
              \/ told.evidence # "none" /\ Fault /\ dog' = Refusal
  /\ UNCHANGED <<run, log, lock, lease, drifted, worker, ends>>

(* acquireLease throws: its ref may be there all the same.                  *)
NotAcquired == Fault /\ lease' \in IF lease = "free" THEN {"free", "stray"} ELSE {lease}

(* acquireLease and verify: what changed since the anchor refuses a resume  *)
(* and fails a start.                                                       *)
Lease ==
  /\ dog.pc = "lease"
  /\ \/ lease # "free" /\ Goes("give up") /\ UNCHANGED <<lease, faults>>
     \/ NotAcquired /\ Goes("give up")
     \/ /\ lease = "free" /\ lease' = "run"
        /\ LET taken == [dog EXCEPT !.held = TRUE] IN
             \/ /\ dog' = CASE Matches(dog.anchor) -> [taken EXCEPT !.pc = IF dog.resumed THEN "top" ELSE "store"]
                           [] ~Matches(dog.anchor) /\ dog.resumed ->
                                [taken EXCEPT !.refused = TRUE, !.pc = "top", !.out = Record("paused")]
                           [] ~Matches(dog.anchor) /\ ~dog.resumed -> [taken EXCEPT !.pc = "give up"]
                /\ UNCHANGED faults
             \/ Fault /\ dog' = [taken EXCEPT !.pc = "give up"]
  /\ UNCHANGED <<run, log, lock, drifted, worker, ends>>

(* persistRunDefinition                                                     *)
Store ==
  /\ dog.pc = "store"
  /\ LET stored == [run EXCEPT !.at = IF HasPreflight THEN "unchecked" ELSE "open"] IN
       \/ run' = stored /\ Goes("top") /\ UNCHANGED faults
       \/ Fault /\ run' \in {run, stored} /\ Goes("give up")
  /\ UNCHANGED <<log, lock, lease, drifted, worker, ends>>

(* What a start or a resume does when it fails before the loop: the lease   *)
(* is given back and the lock removed, or the lock stays with the lease.    *)
GiveUp ==
  /\ dog.pc = "give up"
  /\ \/ /\ lock' = FALSE /\ UNCHANGED faults
        /\ lease' = IF dog.held THEN "free" ELSE lease
     \/ /\ dog.held /\ Fault
        /\ lease' \in {"run", "free"} /\ UNCHANGED lock
  /\ dog' = Idle
  /\ UNCHANGED <<run, log, drifted, worker, ends>>

-----------------------------------------------------------------------------
(* The watchdog's loop.                                                     *)

Releases(out, after) ==
  dog' = [dog EXCEPT !.pc = "release", !.out = out, !.after = after]

(* The top of the loop: a refused resume and a run out of time end here.    *)
Top ==
  /\ dog.pc = "top"
  /\ \/ dog.refused /\ Releases([dog.out EXCEPT !.evidence = dog.evidence], "finish")
     \/ /\ ~dog.refused /\ dog.evidence = "pending"
        /\ dog' = [dog EXCEPT !.pc = "write anchor", !.after = "top"]
     \/ /\ ~dog.refused /\ dog.evidence # "pending" /\ ends # {}
        /\ Releases(Record(IF "stop" \in ends THEN "stopped" ELSE "timeout"), "finish")
     \/ /\ ~dog.refused /\ dog.evidence # "pending" /\ ends = {}
        /\ Goes("launch")
  /\ UNCHANGED <<run, log, lock, lease, drifted, worker, ends, faults>>

(* The launch is recorded; when the run is over meanwhile nothing is run.   *)
Launch ==
  /\ dog.pc = "launch"
  /\ LET launching == FoldLaunch(log, dog.restarts) IN
       \/ /\ Appended(launching)
          /\ IF ends # {} THEN Goes("top") /\ UNCHANGED worker
             ELSE /\ dog' = [dog EXCEPT !.pc = "command", !.evidence = "none", !.safe = FALSE,
                                        !.timedOut = FALSE]
                  /\ worker' = [pc |-> "up", target |-> dog.target, result |-> "none"]
       \/ /\ NotTold(launching)
          /\ Throws(IF dog.resumed /\ dog.evidence = "saved" THEN "storage" ELSE "other")
          /\ UNCHANGED worker
  /\ UNCHANGED <<run, lock, lease, drifted, ends>>

(* Broken, for mutation testing: a deadline is only looked at in the loop.  *)
KillOnStop ==
  /\ dog.pc = "command" /\ "stop" \in ends /\ Alive
  /\ worker' = NoWorker
  /\ UNCHANGED <<run, log, lock, lease, drifted, dog, ends, faults>>

(* runOwnedCommand ends the worker when the run is stopped or out of time.  *)
Kill ==
  /\ dog.pc = "command" /\ ends # {} /\ Alive
  /\ worker' = NoWorker
  /\ dog' = [dog EXCEPT !.timedOut = "stop" \notin ends]
  /\ UNCHANGED <<run, log, lock, lease, drifted, ends, faults>>

(* Broken, for mutation testing: a command that throws has cleaned up.      *)
EveryErrorIsSafe ==
  /\ dog.pc = "command" /\ Fault
  /\ dog' = [dog EXCEPT !.pc = "settle", !.safe = TRUE, !.error = "command"]
  /\ UNCHANGED <<run, log, lock, lease, drifted, worker, ends>>

(* runOwnedCommand throws: the worker could not be spawned or went over a   *)
(* limit, and nothing is left; or something may be left.                    *)
CommandThrows ==
  /\ dog.pc = "command" /\ Fault
  /\ \/ /\ worker' = NoWorker
        /\ dog' = [dog EXCEPT !.pc = "settle", !.safe = TRUE, !.error = "command"]
     \/ Throws("command") /\ UNCHANGED worker
  /\ UNCHANGED <<run, log, lock, lease, drifted, ends>>

(* It returns, nothing is left of the worker, and its exit is recorded.     *)
CommandReturns ==
  /\ dog.pc = "command" /\ ~Alive
  /\ \/ dog' = [dog EXCEPT !.pc = "settle", !.safe = TRUE] /\ UNCHANGED faults
     \/ Fault /\ dog' = [dog EXCEPT !.pc = "catch", !.safe = TRUE, !.error = "other"]
  /\ worker' = NoWorker
  /\ UNCHANGED <<run, log, lock, lease, drifted, ends>>

(* settlePreflightInterruption: a check nobody is left to finish is closed  *)
(* as interrupted, by interruptRunPreflight, and the run is at a pause; a   *)
(* run at a pause of its preflight is ended there, whatever its worker      *)
(* recorded; and a run that cannot be read is not settled.                  *)
Settle ==
  /\ dog.pc = "settle"
  /\ LET interrupted == [at |-> "preflight paused", pause |-> run.pause + 1]
         Pauses == dog' = [dog EXCEPT !.pc = "capture", !.out = Record("paused"),
                             !.error = "none", !.wraps = "storage"]
     IN \/ /\ run.at = "probing"
           /\ \/ run' = interrupted /\ Pauses /\ UNCHANGED faults
              \/ Fault /\ run' \in {run, interrupted} /\ Throws("storage")
        \/ run.at = "preflight paused" /\ Pauses /\ UNCHANGED <<run, faults>>
        \/ run.at = "unreadable" /\ Throws("storage") /\ UNCHANGED <<run, faults>>
        \/ /\ run.at \notin {"probing", "preflight paused", "unreadable"}
           /\ Goes(IF dog.error = "command" THEN "catch" ELSE "judge")
           /\ UNCHANGED <<run, faults>>
  /\ UNCHANGED <<log, lock, lease, drifted, worker, ends>>

(* Broken, for mutation testing: a stop comes before what was recorded.     *)
StopBeforeResult ==
  /\ dog.pc = "judge" /\ ends # {}
  /\ Releases(Record(IF "stop" \in ends THEN "stopped" ELSE "timeout"), "finish")
  /\ UNCHANGED <<run, log, lock, lease, drifted, worker, ends, faults>>

(* After the worker is gone: what it recorded is the result, whatever ended *)
(* it; with nothing recorded it crashed, and is started again, or not.      *)
Judge ==
  /\ dog.pc = "judge"
  /\ \/ /\ log.result # "none"
        /\ dog' = [dog EXCEPT !.pc = IF log.result = "pause" THEN "capture" ELSE "release",
                           !.out = Record(TerminalOf(log.result)), !.after = "finish"]
        /\ UNCHANGED <<log, faults>>
     \/ /\ log.result = "none" /\ ("stop" \in ends \/ dog.timedOut)
        /\ Releases(Record(IF "stop" \in ends THEN "stopped" ELSE "timeout"), "finish")
        /\ UNCHANGED <<log, faults>>
     \/ /\ log.result = "none" /\ "stop" \notin ends /\ ~dog.timedOut
        /\ \/ /\ Appended(Fold(log, Record("crashed")))
              /\ IF dog.restarts >= MaxRestarts THEN Releases(Record("failed"), "finish")
                 ELSE Goes("restart")
           \/ NotTold(Fold(log, Record("crashed"))) /\ Throws("other")
  /\ UNCHANGED <<run, lock, lease, drifted, worker, ends>>

(* The workspace is captured before the restart releases it, and recorded.  *)
RestartAnchor ==
  /\ dog.pc = "restart"
  /\ \/ /\ dog' = [dog EXCEPT !.pc = "release", !.anchor = Captured, !.after = "backoff"]
        /\ UNCHANGED faults
     \/ Fault /\ Throws("other")
  /\ UNCHANGED <<run, log, lock, lease, drifted, worker, ends>>

(* Broken, for mutation testing: a pause is told with its lease kept.       *)
KeepsLease ==
  /\ dog.pc = "capture"
  /\ dog' = [dog EXCEPT !.pc = "write anchor", !.anchor = Captured, !.evidence = "pending",
                        !.after = "finish"]
  /\ UNCHANGED <<run, log, lock, lease, drifted, worker, ends, faults>>

(* savePauseAnchor, without an anchor of its own: the capture.              *)
Capture ==
  /\ dog.pc = "capture"
  /\ \/ /\ dog' = [dog EXCEPT !.pc = "write anchor", !.anchor = Captured,
                              !.evidence = "pending", !.after = "release"]
        /\ UNCHANGED faults
     \/ Fault /\ dog' = [dog EXCEPT !.pc = "catch", !.error = "storage", !.evidence = "none"]
  /\ UNCHANGED <<run, log, lock, lease, drifted, worker, ends>>

(* savePauseAnchor: the artifact is written and recorded; what fails before *)
(* leaves the pause with the digest, what fails after with the artifact.    *)
WriteAnchor ==
  /\ dog.pc = "write anchor"
  /\ \/ /\ dog' = [dog EXCEPT !.pc = dog.after, !.evidence = "saved", !.after = "finish"]
        /\ UNCHANGED faults
     \/ /\ Fault
        /\ \E evidence \in {"pending", "saved"} :
             dog' = [dog EXCEPT !.pc = "catch", !.error = "storage", !.evidence = evidence]
  /\ UNCHANGED <<run, log, lock, lease, drifted, worker, ends>>

Freed == IF dog.held THEN "free" ELSE lease

(* release, which does nothing without a token.                             *)
Release ==
  /\ dog.pc = "release"
  /\ \/ /\ lease' = Freed
        /\ dog' = [dog EXCEPT !.pc = dog.after, !.held = FALSE]
        /\ UNCHANGED faults
     \/ /\ dog.held /\ Fault
        /\ lease' \in {"run", "free"}
        /\ dog' = [dog EXCEPT !.pc = "catch", !.error = "other", !.releaseFailed = TRUE]
  /\ UNCHANGED <<run, log, lock, drifted, worker, ends>>

Outcome == IF dog.out.type = "paused" THEN [dog.out EXCEPT !.evidence = dog.evidence] ELSE dog.out

(* finish: the outcome is recorded.  That a completed run's output can be   *)
(* read is checked first.                                                   *)
Finish ==
  /\ dog.pc = "finish"
  /\ \/ Appended(Fold(log, Outcome)) /\ Goes("finally")
     \/ NotTold(Fold(log, Outcome)) /\ Throws(dog.wraps)
  /\ UNCHANGED <<run, lock, lease, drifted, worker, ends>>

(* The delay of a restart, and the lease and workspace it takes up again.   *)
Backoff ==
  /\ dog.pc = "backoff"
  /\ \/ ends # {} /\ Goes("top") /\ UNCHANGED <<lease, faults>>
     \/ /\ ends = {} /\ lease # "free"
        /\ Throws("other") /\ UNCHANGED <<lease, faults>>
     \/ Fault /\ Throws("other") /\ UNCHANGED lease
     \/ ends = {} /\ NotAcquired /\ Throws("other")
     \/ /\ ends = {} /\ lease = "free" /\ lease' = "run"
        /\ LET taken == [dog EXCEPT !.held = TRUE] IN
             \/ /\ dog' = IF Matches(dog.anchor)
                            THEN [taken EXCEPT !.pc = "top", !.restarts = @ + 1]
                            ELSE [taken EXCEPT !.pc = "write anchor", !.after = "release",
                                               !.evidence = "pending", !.out = Record("paused")]
                /\ UNCHANGED faults
             \/ Fault /\ dog' = [taken EXCEPT !.pc = "catch", !.error = "other"]
  /\ UNCHANGED <<run, log, lock, drifted, worker, ends>>

(* The catch of done: what is safe to release is released.                  *)
Catch ==
  /\ dog.pc = "catch"
  /\ LET told(after) ==
           IF after.safe /\ ~after.releaseFailed /\ after.error = "storage" /\ after.evidence # "none"
             THEN [Record("paused") EXCEPT !.evidence = after.evidence]
             ELSE [Record("failed") EXCEPT !.safe = after.safe, !.retained = after.held]
         Then(after) == dog' = [after EXCEPT !.pc = "end failed", !.out = told(after)]
     IN IF dog.safe /\ ~dog.releaseFailed
          THEN \/ lease' = Freed /\ Then([dog EXCEPT !.held = FALSE]) /\ UNCHANGED faults
               \/ /\ dog.held /\ Fault /\ lease' \in {"run", "free"}
                  /\ Then([dog EXCEPT !.releaseFailed = TRUE])
          ELSE Then(dog) /\ UNCHANGED <<lease, faults>>
  /\ UNCHANGED <<run, log, lock, drifted, worker, ends>>

(* The record of it: done is rejected when it fails.                        *)
EndFailed ==
  /\ dog.pc = "end failed"
  /\ Appended(Fold(log, dog.out)) \/ NotTold(Fold(log, dog.out))
  /\ Goes("finally")
  /\ UNCHANGED <<run, lock, lease, drifted, worker, ends>>

(* Broken, for mutation testing: the lock goes with the worker.             *)
FinallyUnlocks ==
  /\ dog.pc = "finally"
  /\ lock' = ~dog.safe
  /\ dog' = Idle
  /\ UNCHANGED <<run, log, lease, drifted, worker, ends, faults>>

(* The finally of done: the lock goes when nothing is left behind.          *)
Finally ==
  /\ dog.pc = "finally"
  /\ lock' = ~(dog.safe /\ ~dog.releaseFailed)
  /\ dog' = Idle
  /\ UNCHANGED <<run, log, lease, drifted, worker, ends, faults>>

(* The process of the watchdog ends; its worker goes on.                    *)
Die ==
  /\ dog.pc \notin {"off", "dead"}
  /\ dog' = [Idle EXCEPT !.pc = "dead"]
  /\ UNCHANGED <<run, log, lock, lease, drifted, worker, ends, faults>>

-----------------------------------------------------------------------------
(* The worker.                                                              *)

Reports(result) == worker' = [worker EXCEPT !.pc = "reporting", !.result = result]

Asked == worker.target = run.pause

(* runWorker, up to the host module: a pause of the preflight that it was   *)
(* not asked to resume is reported; a check that nobody finished, and a     *)
(* stream that cannot be read, are a failure; another pause than the one it *)
(* was asked to resume may be a mismatch already here; a call may fail.     *)
Begin ==
  /\ worker.pc = "up"
  /\ \/ run.at = "preflight paused" /\ ~Asked /\ Reports("pause") /\ UNCHANGED faults
     \/ run.at \in {"probing", "unreadable"} /\ Reports("fail") /\ UNCHANGED faults
     \/ /\ run.at = "paused" /\ ~Asked /\ worker.target # 0
        /\ Reports("pause") /\ UNCHANGED faults
     \/ /\ run.at \notin {"probing", "unreadable"}
        /\ ~(run.at = "preflight paused" /\ ~Asked)
        /\ worker' = [worker EXCEPT !.pc = "binding"] /\ UNCHANGED faults
     \/ Fault /\ Reports("fail")
  /\ UNCHANGED <<run, log, lock, lease, drifted, dog, ends>>

(* The host module is compared with its digest, imported and bound, which   *)
(* may fail, whatever the run is at: nothing is resumed before it is bound. *)
(* Then the executor takes up the run: a pause is resumed when the watchdog *)
(* was asked to, and what was settled before is only reported.              *)
Bind ==
  /\ worker.pc = "binding"
  /\ \/ Reports("fail") /\ UNCHANGED run
     \/ /\ run.at \in {"unchecked", "open"}
        /\ worker' = [worker EXCEPT !.pc = "working"] /\ UNCHANGED run
     \/ run.at = "complete" /\ Reports("complete") /\ UNCHANGED run
     \/ Paused /\ ~Asked /\ Reports("pause") /\ UNCHANGED run
     \/ /\ Paused /\ Asked
        /\ run' = [run EXCEPT !.at = IF @ = "paused" THEN "open" ELSE "unchecked"]
        /\ worker' = [worker EXCEPT !.pc = "working"]
  /\ UNCHANGED <<log, lock, lease, drifted, dog, ends, faults>>

Pauses(at) ==
  /\ run.pause < MaxPauses
  /\ run' = [at |-> at, pause |-> run.pause + 1] /\ Reports("pause")

Settles(at, result) == run' = [run EXCEPT !.at = at] /\ Reports(result)

(* The executor: checks, then work, then a settled run.  A check that finds *)
(* its engine unavailable under an identity that is not the plan's leaves a *)
(* stream that cannot be read (Preflight).                                  *)
Work ==
  /\ worker.pc = "working"
  /\ \/ /\ run.at = "unchecked" /\ run.pause < MaxPauses
        /\ run' = [run EXCEPT !.at = "probing"] /\ UNCHANGED worker
     \/ /\ run.at = "probing"
        /\ run' = [run EXCEPT !.at = "open"] /\ UNCHANGED worker
     \/ run.at = "probing" /\ Pauses("preflight paused")
     \/ run.at = "probing" /\ \E at \in {"failed", "unreadable"} : Settles(at, "fail")
     \/ run.at = "open" /\ Settles("complete", "complete")
     \/ run.at = "open" /\ Settles("failed", "fail")
     \/ run.at = "open" /\ Pauses("paused")
  /\ UNCHANGED <<log, lock, lease, drifted, dog, ends, faults>>

(* The executor throws: the dispatch budget is exhausted, or a call fails.  *)
(* Not in a check, unless a call fails.                                     *)
WorkerThrows ==
  /\ worker.pc = "working"
  /\ IF run.at = "probing" THEN Fault ELSE UNCHANGED faults
  /\ Reports("fail")
  /\ UNCHANGED <<run, log, lock, lease, drifted, dog, ends>>

(* The result is recorded and the worker exits.  When the append fails the  *)
(* failure is recorded as the result, after the first if that is there.     *)
Report ==
  /\ worker.pc = "reporting"
  /\ \/ Appended(Fold(log, Record(worker.result)))
     \/ Fault /\ log' = Fold(log, Record("fail"))
  /\ worker' = NoWorker
  /\ UNCHANGED <<run, lock, lease, drifted, dog, ends>>

(* The worker's process ends by itself, wherever it is.                     *)
WorkerDies ==
  /\ Alive
  /\ worker' = NoWorker
  /\ UNCHANGED <<run, log, lock, lease, drifted, dog, ends, faults>>

-----------------------------------------------------------------------------
(* What else happens.                                                       *)

(* stop() of the watchdog's handle, while done is pending.                  *)
Stop ==
  /\ dog.pc \notin {"off", "dead", "lock", "check", "lease", "store", "give up"} /\ "stop" \notin ends
  /\ ends' = ends \cup {"stop"}
  /\ UNCHANGED <<run, log, lock, lease, drifted, dog, worker, faults>>

(* The deadline passes; of a resumed run, it may have before.               *)
Deadline ==
  /\ dog.pc \notin {"off", "dead", "lock", "check", "lease", "store", "give up"}
  /\ "deadline" \notin ends
  /\ ends' = ends \cup {"deadline"}
  /\ UNCHANGED <<run, log, lock, lease, drifted, dog, worker, faults>>

(* Somebody else takes the lease when it is free, edits, and gives it back; *)
(* an edit may also be undone.                                              *)
TakeLease   == lease = "free" /\ lease' = "other" /\ UNCHANGED drifted
Edit        == lease = "other" /\ drifted' = ~drifted /\ UNCHANGED lease
ReturnLease == lease = "other" /\ lease' = "free" /\ UNCHANGED drifted

Others ==
  /\ TakeLease \/ Edit \/ ReturnLease
  /\ UNCHANGED <<run, log, lock, dog, worker, ends, faults>>

Init ==
  /\ run = [at |-> "none", pause |-> 0]
  /\ log = NoLog /\ lock = FALSE /\ lease = "free" /\ drifted = FALSE
  /\ dog = Idle /\ worker = NoWorker
  /\ ends = {} /\ faults = 0

Watchdog ==
  \/ Lock \/ Check \/ Lease \/ Store \/ GiveUp \/ Top \/ Launch \/ Kill
  \/ CommandThrows \/ CommandReturns \/ Settle \/ Judge \/ RestartAnchor
  \/ Capture \/ WriteAnchor \/ Release \/ Finish \/ Backoff \/ Catch
  \/ EndFailed \/ Finally

Worker == Begin \/ Bind \/ Work \/ WorkerThrows \/ Report \/ WorkerDies

Next ==
  \/ Start \/ \E target \in 1..MaxPauses : Resume(target)
  \/ Watchdog \/ Die \/ Worker \/ Stop \/ Deadline \/ Others

Spec == Init /\ [][Next]_vars

(* The watchdog goes on with its steps, and the clock with the time.  The   *)
(* worker need not: what it runs may hang.                                  *)
FairSpec == Spec /\ WF_vars(Watchdog) /\ WF_vars(Deadline)

-----------------------------------------------------------------------------
Places ==
  {"off", "dead", "lock", "check", "lease", "store", "give up", "top", "launch", "command", "settle",
   "judge", "restart", "capture", "write anchor", "release", "finish", "backoff", "catch",
   "end failed", "finally"}

Evidence == {"none", "pending", "saved"}

Types == Terminals \cup Results \cup {"none", "launching", "crashed"}

Records == [type : Types, evidence : Evidence, safe : BOOLEAN, retained : BOOLEAN]

Runs ==
  [at : {"none", "unchecked", "probing", "open", "complete", "failed", "paused", "preflight paused",
         "unreadable"},
   pause : Nat]

Logs ==
  [last : Records, restarts : Nat, result : Results \cup {"none"}, end : Terminals \cup {"none"}]

Dogs ==
  [pc : Places, target : Nat, resumed : BOOLEAN, held : BOOLEAN, safe : BOOLEAN,
   releaseFailed : BOOLEAN, anchor : {"none", "ours", "theirs"}, evidence : Evidence,
   refused : BOOLEAN, restarts : Nat, timedOut : BOOLEAN, after : Places,
   error : {"none", "command", "storage", "other"}, wraps : {"storage", "other"}, out : Records]

Workers ==
  [pc : {"none", "up", "binding", "working", "reporting"}, target : Nat, result : Results \cup {"none"}]

TypeOK ==
  /\ run \in Runs /\ log \in Logs
  /\ lock \in BOOLEAN /\ lease \in {"free", "run", "other", "stray"} /\ drifted \in BOOLEAN
  /\ dog \in Dogs /\ worker \in Workers
  /\ ends \subseteq {"stop", "deadline"}

(* One worker, and the workspace is the run's while it lives: whatever      *)
(* fails or dies, the lease is not free for others, and the lock not for    *)
(* another watchdog, before its worker is known to be gone; and what the    *)
(* worker sees has no edits but the run's own, also none that were made     *)
(* while the run was paused or backed off.                                  *)
WorkerOwnsTheWorkspace ==
  Alive =>
    /\ lock /\ lease = "run" /\ ~drifted
    /\ dog.pc \notin {"launch", "settle", "judge", "restart", "release", "finish", "backoff"}

(* "When the worker has recorded a result and cleanup and lease release are *)
(* verified, the watchdog returns that result even if a stop or timeout     *)
(* arrives" (docs/public/driving/runner.mdx:113-116): as long as no call    *)
(* fails, the record that ends the watchdog's work is of the result its     *)
(* worker recorded, and no worker is launched over a result: for that it    *)
(* takes a pause, and somebody to resume it.  The code does not do so where *)
(* the worker failed with the run at a pause of its preflight, its host     *)
(* module not bound: the pause is told, the failure is not, and the run can *)
(* be resumed.                                                              *)
ResultIsReturned ==
  faults = 0 =>
    /\ log.result # "none" /\ log.end # "none" =>
         \/ log.end = TerminalOf(log.result)
         \/ log.result = "fail" /\ log.end = "paused" /\ run.at = "preflight paused"
    /\ dog.pc = "launch" => log.last.type \in {"none", "crashed", "paused"}

(* A lease that a watchdog leaves behind is not lost: while the run has it, *)
(* the run's lock stays, and no other watchdog takes it up; and where the   *)
(* last record is of a failure, it says that the lease is retained.         *)
RetainedIsTold ==
  dog.pc = "off" /\ lease = "run" => lock /\ (log.last.type = "failed" => log.last.retained)

(* What is recorded as the end of a watchdog's work is true of the          *)
(* workspace and of the worker when it is recorded: a pause, for somebody   *)
(* to resume, a completion, a stop and a timeout have the lease released    *)
(* and no worker; a failure says when the lease is retained, and when a     *)
(* worker may be left.                                                      *)
EndsAreClean ==
  [][log' # log =>
       /\ log'.last.type \in {"paused", "completed", "stopped", "timeout"} =>
            lease' # "run" /\ ~Alive'
       /\ log'.last.type = "failed" =>
            (lease' = "run" => log'.last.retained) /\ (Alive' => ~log'.last.safe)]_vars

(* What a watchdog began ends, with a hanging worker too; and its lock goes *)
(* with it unless a worker or the lease is left behind.                     *)
DoneSettles ==
  dog.pc \notin {"off", "dead"} ~> dog.pc = "dead" \/ (dog.pc = "off" /\ (lock => faults > 0))
================================================================================
