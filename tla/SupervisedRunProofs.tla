-------------------------- MODULE SupervisedRunProofs --------------------------
(***************************************************************************)
(* Proofs about SupervisedRun, for any number of restarts, pauses and       *)
(* failing calls, with and without a preflight: every state has its type, a *)
(* live worker has the workspace for itself (WorkerOwnsTheWorkspace), a     *)
(* recorded result is the one returned (ResultIsReturned), a lease that     *)
(* stays keeps its lock (RetainedIsTold), and the record that ends a        *)
(* watchdog's work is true of the lease and the worker (EndsAreClean).      *)
(*                                                                          *)
(* The argument: the property says nothing of a time without a worker, so   *)
(* the invariant says when one may be launched. It follows the lease        *)
(* through the steps of the watchdog: it is the run's from where it is      *)
(* taken to where it is released (DogHolds), the workspace is as the run    *)
(* left it wherever a launch may follow (Secured), and a step that releases *)
(* either knows the worker gone or does not happen (WorkerHolds). There is  *)
(* one lemma for each action; that the variables keep their shape is shown  *)
(* apart.                                                                   *)
(*                                                                          *)
(* The others need one invariant together, by a second lemma for each       *)
(* action. ToldInv follows a lease that stays to the record that tells of   *)
(* it, and says where no failure can be the last record. ResultInv is of a  *)
(* run in which no call has failed: from its launch on nothing is recorded  *)
(* but by the worker, and once it is, every place of the watchdog up to the *)
(* record of the outcome has the outcome of that result, or of the pause of *)
(* the preflight at which a worker failed.                                  *)
(***************************************************************************)
EXTENDS SupervisedRun, TLAPS

-----------------------------------------------------------------------------
(* The invariant.                                                           *)

(* The workspace is the run's, under its lease.                             *)
Secure == dog.held /\ ~dog.releaseFailed /\ lease = "run" /\ ~drifted

(* Where a watchdog stands that has no part in the run.                     *)
Before == {"off", "dead", "lock"}

(* Where a watchdog stands that has failed.                                 *)
Ending == {"catch", "end failed", "finally"}

(* Of the watchdog: past its lock it has the lock; it holds the lease it    *)
(* took until a release, which a failure of may leave either way; and what  *)
(* it compares the workspace with at a restart is what the run left.        *)
DogHolds ==
  /\ dog.pc \notin Before => lock
  /\ dog.pc \notin Ending => ~dog.releaseFailed
  /\ dog.pc \in Before \cup {"check", "lease"} => ~dog.held
  /\ dog.held /\ ~dog.releaseFailed => lease = "run"
  /\ dog.pc = "command" => ~dog.safe
  /\ dog.pc = "lock" /\ ~dog.resumed => dog.anchor = "ours"
  /\ dog.pc = "release" => dog.after \in {"finish", "backoff"}
  /\ dog.pc = "write anchor" => dog.after \in {"top", "release"}
  /\ dog.pc = "lease" \/ dog.pc = "backoff" \/ (dog.pc = "release" /\ dog.after = "backoff") =>
       dog.anchor = "ours"

(* Before a launch, and until what it launched is judged, the workspace is  *)
(* the run's.                                                               *)
Secured ==
  /\ dog.pc \in {"store", "launch", "command", "settle", "judge", "restart"} => Secure
  /\ (dog.pc = "top" \/ (dog.pc = "write anchor" /\ dog.after = "top")) /\ ~dog.refused /\ ends = {} =>
       Secure

(* Of a live worker: the watchdog waits for it, has failed without knowing  *)
(* it gone, or is not there at all.                                         *)
WorkerHolds ==
  Alive =>
    /\ lock /\ lease = "run" /\ ~drifted
    /\ dog.pc \in Before \cup Ending \cup {"command"}
    /\ dog.pc \in Ending => ~dog.safe

(* The invariant.                                                           *)
IInv == TypeOK /\ DogHolds /\ Secured /\ WorkerHolds

-----------------------------------------------------------------------------
(* The watchdog.                                                            *)

(* The values that the steps of the watchdog give to its fields.            *)
LEMMA Values ==
  /\ \A p \in {"off", "dead", "lock", "check", "lease", "store", "give up", "top", "launch", "command", "settle",
             "judge", "restart", "capture", "write anchor", "release", "finish", "backoff", "catch",
             "end failed", "finally"} : p \in Places
  /\ "none" \in Evidence /\ "pending" \in Evidence /\ "saved" \in Evidence
BY DEF Places, Evidence

(* A record of a known type is a record.                                    *)
LEMMA Recording == ASSUME NEW type \in Types PROVE Record(type) \in Records
BY DEF Record, Records, Evidence

(* The types that are recorded.                                             *)
LEMMA TypesAre ==
  \A t \in {"completed", "failed", "paused", "stopped", "timeout", "complete", "fail", "pause", "none",
           "launching", "crashed"} : t \in Types
BY DEF Types, Terminals, Results

(* A watchdog that is not there has nothing.                                *)
LEMMA IdleIs ==
  /\ Idle \in Dogs /\ Idle.pc = "off" /\ Idle.after = "finish"
  /\ ~Idle.held /\ ~Idle.releaseFailed /\ ~Idle.refused
BY DEF Idle, Dogs, Places, Evidence, Records, Types, Terminals, Results, Record

(* What the invariant says of the values of the variables.                  *)
LEMMA Shapes ==
  ASSUME IInv
  PROVE  /\ dog \in Dogs /\ Captured \in {"none", "ours", "theirs"} /\ lock \in BOOLEAN /\ drifted \in BOOLEAN
         /\ lease \in {"free", "run", "other", "stray"} /\ log.restarts \in Nat /\ log.last.evidence \in Evidence
         /\ run.pause \in Nat /\ dog.out \in Records
         /\ DogHolds /\ Secured /\ WorkerHolds
BY DEF IInv, TypeOK, Captured, Logs, Runs, Records, Dogs

(* A start is at its lock, with the workspace as it is for its own.         *)
LEMMA StartHolds ==
  ASSUME IInv, Start
  PROVE  dog' \in Dogs /\ DogHolds' /\ Secured' /\ WorkerHolds'
<1>1. dog' \in Dogs
  BY Shapes, Values, IdleIs, Recording, TypesAre DEF Dogs, Start
<1>2. DogHolds' /\ Secured' /\ WorkerHolds'
  BY Shapes, IdleIs DEF Dogs, DogHolds, Secured, Secure, WorkerHolds, Before, Ending, Alive, Start
<1>3. QED
  BY <1>1, <1>2

(* A resume is at its lock, and has taken nothing yet.                      *)
LEMMA ResumeHolds ==
  ASSUME IInv, NEW target \in 1..MaxPauses, Resume(target)
  PROVE  dog' \in Dogs /\ DogHolds' /\ Secured' /\ WorkerHolds'
<1>1. target \in Nat
  BY Shapes DEF Resume
<1>2. dog' \in Dogs
  BY Shapes, <1>1, Values, IdleIs, Recording, TypesAre DEF Dogs, Resume
<1>3. DogHolds' /\ Secured' /\ WorkerHolds'
  BY Shapes, IdleIs DEF Dogs, DogHolds, Secured, Secure, WorkerHolds, Before, Ending, Alive, Resume
<1>4. QED
  BY <1>2, <1>3

(* The watchdog that makes the lock's directory has it; another one's       *)
(* attempt ends at once.                                                    *)
LEMMA LockHolds ==
  ASSUME IInv, Lock
  PROVE  dog' \in Dogs /\ DogHolds' /\ Secured' /\ WorkerHolds'
<1>1. CASE lock /\ dog' = Idle
  BY Shapes, <1>1, IdleIs DEF DogHolds, Secured, Secure, WorkerHolds, Before, Ending, Alive, Lock
<1>2. CASE ~lock /\ lock' = TRUE /\ dog' = [dog EXCEPT !.pc = "check"]
  <2>1. /\ dog' \in Dogs
        /\ dog'.pc = "check" /\ dog'.held = dog.held /\ dog'.releaseFailed = dog.releaseFailed /\ dog'.safe = dog.safe
        /\ dog'.refused = dog.refused /\ dog'.after = dog.after /\ dog'.anchor = dog.anchor
    BY Shapes, <1>2, Values, Recording, TypesAre DEF Dogs
  <2>2. QED
    BY Shapes, <1>2, <2>1 DEF DogHolds, Secured, Secure, WorkerHolds, Before, Ending, Alive, Lock
<1>3. CASE ~lock /\ ~dog.resumed /\ lock' = TRUE /\ dog' = [dog EXCEPT !.pc = "lease"]
  <2>1. /\ dog' \in Dogs
        /\ dog'.pc = "lease" /\ dog'.held = dog.held /\ dog'.releaseFailed = dog.releaseFailed /\ dog'.safe = dog.safe
        /\ dog'.refused = dog.refused /\ dog'.after = dog.after /\ dog'.anchor = dog.anchor
    BY Shapes, <1>3, Values, Recording, TypesAre DEF Dogs
  <2>2. QED
    BY Shapes, <1>3, <2>1 DEF DogHolds, Secured, Secure, WorkerHolds, Before, Ending, Alive, Lock
<1>4. QED
  BY <1>1, <1>2, <1>3 DEF Lock, Goes

(* A resume goes on with an anchor of the run's own, refuses, or gives up;  *)
(* it takes nothing.                                                        *)
LEMMA CheckHolds ==
  ASSUME IInv, Check
  PROVE  dog' \in Dogs /\ DogHolds' /\ Secured' /\ WorkerHolds'
<1> DEFINE told == [dog EXCEPT !.restarts = RestartsSoFar, !.evidence = log.last.evidence]
<1>1. /\ told \in Dogs /\ told.evidence \in {"none", "pending", "saved"}
      /\ told.held = dog.held /\ told.releaseFailed = dog.releaseFailed /\ told.safe = dog.safe
      /\ told.refused = dog.refused /\ told.after = dog.after /\ told.anchor = dog.anchor
  BY Shapes DEF Dogs, RestartsSoFar, Evidence
<1>2. /\ dog.pc = "check" /\ UNCHANGED <<run, lock, lease, drifted, worker, ends>>
      /\ \/ dog' = [dog EXCEPT !.pc = "give up"]
         \/ dog' = [told EXCEPT !.refused = TRUE, !.pc = "top", !.out = Record("paused")]
         \/ dog' = [told EXCEPT !.anchor = "ours", !.pc = "lease"]
  <2>1. CASE ~Resumable
    BY <2>1 DEF Check
  <2>2. CASE Resumable
    BY <1>1, <2>2 DEF Check
  <2>3. QED
    BY <2>1, <2>2
<1> HIDE DEF told
<1>3. CASE dog' = [dog EXCEPT !.pc = "give up"]
  <2>1. /\ dog' \in Dogs /\ dog'.pc = "give up" /\ dog'.held = dog.held
        /\ dog'.releaseFailed = dog.releaseFailed /\ dog'.safe = dog.safe
    BY Shapes, <1>3, Values DEF Dogs
  <2>2. QED
    BY Shapes, <1>2, <2>1 DEF DogHolds, Secured, Secure, WorkerHolds, Before, Ending, Alive
<1>4. CASE dog' = [told EXCEPT !.refused = TRUE, !.pc = "top", !.out = Record("paused")]
  <2>1. /\ dog' \in Dogs /\ dog'.pc = "top" /\ dog'.held = dog.held /\ dog'.refused
        /\ dog'.releaseFailed = dog.releaseFailed /\ dog'.safe = dog.safe
    BY <1>1, <1>4, Values, Recording, TypesAre DEF Dogs
  <2>2. QED
    BY Shapes, <1>2, <2>1 DEF DogHolds, Secured, Secure, WorkerHolds, Before, Ending, Alive
<1>5. CASE dog' = [told EXCEPT !.anchor = "ours", !.pc = "lease"]
  <2>1. /\ dog' \in Dogs /\ dog'.pc = "lease" /\ dog'.held = dog.held /\ dog'.anchor = "ours"
        /\ dog'.releaseFailed = dog.releaseFailed /\ dog'.safe = dog.safe
    BY <1>1, <1>5, Values DEF Dogs
  <2>2. QED
    BY Shapes, <1>2, <2>1 DEF DogHolds, Secured, Secure, WorkerHolds, Before, Ending, Alive
<1>6. QED
  BY <1>2, <1>3, <1>4, <1>5

(* Who takes the lease and finds the workspace as it was has both; who      *)
(* finds it changed does not go on to launch.                               *)
LEMMA LeaseHolds ==
  ASSUME IInv, Lease
  PROVE  dog' \in Dogs /\ DogHolds' /\ Secured' /\ WorkerHolds'
<1>1. CASE (UNCHANGED lease \/ NotAcquired) /\ dog' = [dog EXCEPT !.pc = "give up"]
  <2>1. /\ dog' \in Dogs
        /\ dog'.pc = "give up" /\ dog'.held = dog.held /\ dog'.releaseFailed = dog.releaseFailed /\ dog'.safe = dog.safe
        /\ dog'.refused = dog.refused /\ dog'.after = dog.after /\ dog'.anchor = dog.anchor
    BY Shapes, <1>1, Values, Recording, TypesAre DEF Dogs
  <2>2. QED
    BY Shapes, <1>1, <2>1
       DEF DogHolds, Secured, Secure, WorkerHolds, Before, Ending, Alive, Lease, Fault, Matches, Captured
<1>2. CASE lease = "free" /\ lease' = "run" /\ Matches(dog.anchor) /\ dog' = [dog EXCEPT !.held = TRUE, !.pc = "top"]
  <2>1. /\ dog' \in Dogs
        /\ dog'.pc = "top" /\ dog'.held = TRUE /\ dog'.releaseFailed = dog.releaseFailed /\ dog'.safe = dog.safe
        /\ dog'.refused = dog.refused /\ dog'.after = dog.after /\ dog'.anchor = dog.anchor
    BY Shapes, <1>2, Values, Recording, TypesAre DEF Dogs
  <2>2. QED
    BY Shapes, <1>2, <2>1
       DEF DogHolds, Secured, Secure, WorkerHolds, Before, Ending, Alive, Lease, Fault, Matches, Captured
<1>3. CASE lease = "free" /\ lease' = "run" /\ Matches(dog.anchor) /\ dog' = [dog EXCEPT !.held = TRUE, !.pc = "store"]
  <2>1. /\ dog' \in Dogs
        /\ dog'.pc = "store" /\ dog'.held = TRUE /\ dog'.releaseFailed = dog.releaseFailed /\ dog'.safe = dog.safe
        /\ dog'.refused = dog.refused /\ dog'.after = dog.after /\ dog'.anchor = dog.anchor
    BY Shapes, <1>3, Values, Recording, TypesAre DEF Dogs
  <2>2. QED
    BY Shapes, <1>3, <2>1
       DEF DogHolds, Secured, Secure, WorkerHolds, Before, Ending, Alive, Lease, Fault, Matches, Captured
<1>4. CASE lease = "free" /\ lease' = "run" /\ dog' = [dog EXCEPT !.held = TRUE, !.refused = TRUE, !.pc = "top", !.out = Record("paused")]
  <2>1. /\ dog' \in Dogs
        /\ dog'.pc = "top" /\ dog'.held = TRUE /\ dog'.releaseFailed = dog.releaseFailed /\ dog'.safe = dog.safe
        /\ dog'.refused = TRUE /\ dog'.after = dog.after /\ dog'.anchor = dog.anchor
    BY Shapes, <1>4, Values, Recording, TypesAre DEF Dogs
  <2>2. QED
    BY Shapes, <1>4, <2>1
       DEF DogHolds, Secured, Secure, WorkerHolds, Before, Ending, Alive, Lease, Fault, Matches, Captured
<1>5. CASE lease = "free" /\ lease' = "run" /\ dog' = [dog EXCEPT !.held = TRUE, !.pc = "give up"]
  <2>1. /\ dog' \in Dogs
        /\ dog'.pc = "give up" /\ dog'.held = TRUE /\ dog'.releaseFailed = dog.releaseFailed /\ dog'.safe = dog.safe
        /\ dog'.refused = dog.refused /\ dog'.after = dog.after /\ dog'.anchor = dog.anchor
    BY Shapes, <1>5, Values, Recording, TypesAre DEF Dogs
  <2>2. QED
    BY Shapes, <1>5, <2>1
       DEF DogHolds, Secured, Secure, WorkerHolds, Before, Ending, Alive, Lease, Fault, Matches, Captured
<1>6. QED
  BY <1>1, <1>2, <1>3, <1>4, <1>5 DEF Lease, NotAcquired, Goes, Fault

(* The workspace stays the run's while its definition is stored.            *)
LEMMA StoreHolds ==
  ASSUME IInv, Store
  PROVE  dog' \in Dogs /\ DogHolds' /\ Secured' /\ WorkerHolds'
<1>1. dog' \in Dogs
  BY Shapes, Values, IdleIs, Recording, TypesAre DEF Dogs, Store, Goes, Fault
<1>2. DogHolds' /\ Secured' /\ WorkerHolds'
  BY Shapes, IdleIs
     DEF Dogs, DogHolds, Secured, Secure, WorkerHolds, Before, Ending, Alive, Store, Goes, Fault
<1>3. QED
  BY <1>1, <1>2

(* A start or a resume that gives up has no worker, so that its lease and   *)
(* lock may go.                                                             *)
LEMMA GiveUpHolds ==
  ASSUME IInv, GiveUp
  PROVE  dog' \in Dogs /\ DogHolds' /\ Secured' /\ WorkerHolds'
<1>1. dog' \in Dogs
  BY Shapes, Values, IdleIs, Recording, TypesAre DEF Dogs, GiveUp, Fault
<1>2. DogHolds' /\ Secured' /\ WorkerHolds'
  BY Shapes, IdleIs
     DEF Dogs, DogHolds, Secured, Secure, WorkerHolds, Before, Ending, Alive, GiveUp, Fault
<1>3. QED
  BY <1>1, <1>2

(* At the top of the loop only a watchdog that has the workspace goes on to *)
(* launch.                                                                  *)
LEMMA TopHolds ==
  ASSUME IInv, Top
  PROVE  dog' \in Dogs /\ DogHolds' /\ Secured' /\ WorkerHolds'
<1>1. /\ [dog.out EXCEPT !.evidence = dog.evidence] \in Records
      /\ Record(IF "stop" \in ends THEN "stopped" ELSE "timeout") \in Records
  BY Shapes, Recording, TypesAre DEF Dogs, Records
<1>2. CASE dog.refused /\ dog' = [dog EXCEPT !.pc = "release", !.out = [dog.out EXCEPT !.evidence = dog.evidence], !.after = "finish"]
  <2>1. /\ dog' \in Dogs
        /\ dog'.pc = "release" /\ dog'.held = dog.held /\ dog'.releaseFailed = dog.releaseFailed /\ dog'.safe = dog.safe
        /\ dog'.refused = dog.refused /\ dog'.after = "finish" /\ dog'.anchor = dog.anchor
    BY Shapes, <1>1, <1>2, Values, Recording, TypesAre DEF Dogs
  <2>2. QED
    BY Shapes, <1>1, <1>2, <2>1
       DEF DogHolds, Secured, Secure, WorkerHolds, Before, Ending, Alive, Top
<1>3. CASE ~dog.refused /\ dog' = [dog EXCEPT !.pc = "write anchor", !.after = "top"]
  <2>1. /\ dog' \in Dogs
        /\ dog'.pc = "write anchor" /\ dog'.held = dog.held /\ dog'.releaseFailed = dog.releaseFailed /\ dog'.safe = dog.safe
        /\ dog'.refused = dog.refused /\ dog'.after = "top" /\ dog'.anchor = dog.anchor
    BY Shapes, <1>1, <1>3, Values, Recording, TypesAre DEF Dogs
  <2>2. QED
    BY Shapes, <1>1, <1>3, <2>1
       DEF DogHolds, Secured, Secure, WorkerHolds, Before, Ending, Alive, Top
<1>4. CASE ends # {} /\ dog' = [dog EXCEPT !.pc = "release", !.out = Record(IF "stop" \in ends THEN "stopped" ELSE "timeout"), !.after = "finish"]
  <2>1. /\ dog' \in Dogs
        /\ dog'.pc = "release" /\ dog'.held = dog.held /\ dog'.releaseFailed = dog.releaseFailed /\ dog'.safe = dog.safe
        /\ dog'.refused = dog.refused /\ dog'.after = "finish" /\ dog'.anchor = dog.anchor
    BY Shapes, <1>1, <1>4, Values, Recording, TypesAre DEF Dogs
  <2>2. QED
    BY Shapes, <1>1, <1>4, <2>1
       DEF DogHolds, Secured, Secure, WorkerHolds, Before, Ending, Alive, Top
<1>5. CASE ~dog.refused /\ ends = {} /\ dog' = [dog EXCEPT !.pc = "launch"]
  <2>1. /\ dog' \in Dogs
        /\ dog'.pc = "launch" /\ dog'.held = dog.held /\ dog'.releaseFailed = dog.releaseFailed /\ dog'.safe = dog.safe
        /\ dog'.refused = dog.refused /\ dog'.after = dog.after /\ dog'.anchor = dog.anchor
    BY Shapes, <1>1, <1>5, Values, Recording, TypesAre DEF Dogs
  <2>2. QED
    BY Shapes, <1>1, <1>5, <2>1
       DEF DogHolds, Secured, Secure, WorkerHolds, Before, Ending, Alive, Top
<1>6. QED
  BY <1>2, <1>3, <1>4, <1>5 DEF Top, Goes, Releases

(* A worker is launched in a workspace that is the run's.                   *)
LEMMA LaunchHolds ==
  ASSUME IInv, Launch
  PROVE  dog' \in Dogs /\ DogHolds' /\ Secured' /\ WorkerHolds'
<1>1. CASE ends # {} /\ dog' = [dog EXCEPT !.pc = "top"]
  <2>1. /\ dog' \in Dogs
        /\ dog'.pc = "top" /\ dog'.held = dog.held /\ dog'.releaseFailed = dog.releaseFailed /\ dog'.safe = dog.safe
        /\ dog'.refused = dog.refused /\ dog'.after = dog.after /\ dog'.anchor = dog.anchor
    BY Shapes, <1>1, Values, Recording, TypesAre DEF Dogs
  <2>2. QED
    BY Shapes, <1>1, <2>1
       DEF DogHolds, Secured, Secure, WorkerHolds, Before, Ending, Alive, Launch, Appended, NotTold, Fault
<1>2. CASE dog' = [dog EXCEPT !.pc = "command", !.evidence = "none", !.safe = FALSE, !.timedOut = FALSE]
  <2>1. /\ dog' \in Dogs
        /\ dog'.pc = "command" /\ dog'.held = dog.held /\ dog'.releaseFailed = dog.releaseFailed /\ dog'.safe = FALSE
        /\ dog'.refused = dog.refused /\ dog'.after = dog.after /\ dog'.anchor = dog.anchor
    BY Shapes, <1>2, Values, Recording, TypesAre DEF Dogs
  <2>2. QED
    BY Shapes, <1>2, <2>1
       DEF DogHolds, Secured, Secure, WorkerHolds, Before, Ending, Alive, Launch, Appended, NotTold, Fault
<1>3. CASE UNCHANGED worker /\ dog' = [dog EXCEPT !.pc = "catch", !.error = IF dog.resumed /\ dog.evidence = "saved" THEN "storage" ELSE "other"]
  <2>1. /\ dog' \in Dogs
        /\ dog'.pc = "catch" /\ dog'.held = dog.held /\ dog'.releaseFailed = dog.releaseFailed /\ dog'.safe = dog.safe
        /\ dog'.refused = dog.refused /\ dog'.after = dog.after /\ dog'.anchor = dog.anchor
    BY Shapes, <1>3, Values, Recording, TypesAre DEF Dogs
  <2>2. QED
    BY Shapes, <1>3, <2>1
       DEF DogHolds, Secured, Secure, WorkerHolds, Before, Ending, Alive, Launch, Appended, NotTold, Fault
<1>4. QED
  BY <1>1, <1>2, <1>3 DEF Launch, Goes, Throws, Appended, NotTold, Fault

(* A worker that is killed is gone.                                         *)
LEMMA KillHolds ==
  ASSUME IInv, Kill
  PROVE  dog' \in Dogs /\ DogHolds' /\ Secured' /\ WorkerHolds'
<1>1. dog' \in Dogs
  BY Shapes, Values, IdleIs, Recording, TypesAre DEF Dogs, Kill, Alive, NoWorker
<1>2. DogHolds' /\ Secured' /\ WorkerHolds'
  BY Shapes, IdleIs
     DEF Dogs, DogHolds, Secured, Secure, WorkerHolds, Before, Ending, Alive, Kill, NoWorker
<1>3. QED
  BY <1>1, <1>2

(* A command that throws leaves no worker, or is not known to be safe.      *)
LEMMA CommandThrowsHolds ==
  ASSUME IInv, CommandThrows
  PROVE  dog' \in Dogs /\ DogHolds' /\ Secured' /\ WorkerHolds'
<1>1. CASE worker' = NoWorker /\ dog' = [dog EXCEPT !.pc = "settle", !.safe = TRUE, !.error = "command"]
  <2>1. /\ dog' \in Dogs
        /\ dog'.pc = "settle" /\ dog'.held = dog.held /\ dog'.releaseFailed = dog.releaseFailed /\ dog'.safe = TRUE
        /\ dog'.refused = dog.refused /\ dog'.after = dog.after /\ dog'.anchor = dog.anchor
    BY Shapes, <1>1, Values, Recording, TypesAre DEF Dogs
  <2>2. QED
    BY Shapes, <1>1, <2>1
       DEF DogHolds, Secured, Secure, WorkerHolds, Before, Ending, Alive, CommandThrows, Fault, NoWorker
<1>2. CASE UNCHANGED worker /\ dog' = [dog EXCEPT !.pc = "catch", !.error = "command"]
  <2>1. /\ dog' \in Dogs
        /\ dog'.pc = "catch" /\ dog'.held = dog.held /\ dog'.releaseFailed = dog.releaseFailed /\ dog'.safe = dog.safe
        /\ dog'.refused = dog.refused /\ dog'.after = dog.after /\ dog'.anchor = dog.anchor
    BY Shapes, <1>2, Values, Recording, TypesAre DEF Dogs
  <2>2. QED
    BY Shapes, <1>2, <2>1
       DEF DogHolds, Secured, Secure, WorkerHolds, Before, Ending, Alive, CommandThrows, Fault, NoWorker
<1>3. QED
  BY <1>1, <1>2 DEF CommandThrows, Throws, Fault

(* A command that returns leaves no worker.                                 *)
LEMMA CommandReturnsHolds ==
  ASSUME IInv, CommandReturns
  PROVE  dog' \in Dogs /\ DogHolds' /\ Secured' /\ WorkerHolds'
<1>1. CASE worker' = NoWorker /\ dog' = [dog EXCEPT !.pc = "settle", !.safe = TRUE]
  <2>1. /\ dog' \in Dogs
        /\ dog'.pc = "settle" /\ dog'.held = dog.held /\ dog'.releaseFailed = dog.releaseFailed /\ dog'.safe = TRUE
        /\ dog'.refused = dog.refused /\ dog'.after = dog.after /\ dog'.anchor = dog.anchor
    BY Shapes, <1>1, Values, Recording, TypesAre DEF Dogs
  <2>2. QED
    BY Shapes, <1>1, <2>1
       DEF DogHolds, Secured, Secure, WorkerHolds, Before, Ending, Alive, CommandReturns, Fault, NoWorker
<1>2. CASE worker' = NoWorker /\ dog' = [dog EXCEPT !.pc = "catch", !.safe = TRUE, !.error = "other"]
  <2>1. /\ dog' \in Dogs
        /\ dog'.pc = "catch" /\ dog'.held = dog.held /\ dog'.releaseFailed = dog.releaseFailed /\ dog'.safe = TRUE
        /\ dog'.refused = dog.refused /\ dog'.after = dog.after /\ dog'.anchor = dog.anchor
    BY Shapes, <1>2, Values, Recording, TypesAre DEF Dogs
  <2>2. QED
    BY Shapes, <1>2, <2>1
       DEF DogHolds, Secured, Secure, WorkerHolds, Before, Ending, Alive, CommandReturns, Fault, NoWorker
<1>3. QED
  BY <1>1, <1>2 DEF CommandReturns, Fault

(* Closing the check of a dead worker leaves the workspace as it is.        *)
LEMMA SettleHolds ==
  ASSUME IInv, Settle
  PROVE  dog' \in Dogs /\ DogHolds' /\ Secured' /\ WorkerHolds'
<1>1. CASE dog' = [dog EXCEPT !.pc = "capture", !.out = Record("paused"), !.error = "none", !.wraps = "storage"]
  <2>1. /\ dog' \in Dogs
        /\ dog'.pc = "capture" /\ dog'.held = dog.held /\ dog'.releaseFailed = dog.releaseFailed /\ dog'.safe = dog.safe
        /\ dog'.refused = dog.refused /\ dog'.after = dog.after /\ dog'.anchor = dog.anchor
    BY Shapes, <1>1, Values, Recording, TypesAre DEF Dogs
  <2>2. QED
    BY Shapes, <1>1, <2>1
       DEF DogHolds, Secured, Secure, WorkerHolds, Before, Ending, Alive, Settle, Fault, Pauses, Reports
<1>2. CASE dog' = [dog EXCEPT !.pc = "catch", !.error = "storage"]
  <2>1. /\ dog' \in Dogs
        /\ dog'.pc = "catch" /\ dog'.held = dog.held /\ dog'.releaseFailed = dog.releaseFailed /\ dog'.safe = dog.safe
        /\ dog'.refused = dog.refused /\ dog'.after = dog.after /\ dog'.anchor = dog.anchor
    BY Shapes, <1>2, Values, Recording, TypesAre DEF Dogs
  <2>2. QED
    BY Shapes, <1>2, <2>1
       DEF DogHolds, Secured, Secure, WorkerHolds, Before, Ending, Alive, Settle, Fault, Pauses, Reports
<1>3. CASE dog' = [dog EXCEPT !.pc = "catch"]
  <2>1. /\ dog' \in Dogs
        /\ dog'.pc = "catch" /\ dog'.held = dog.held /\ dog'.releaseFailed = dog.releaseFailed /\ dog'.safe = dog.safe
        /\ dog'.refused = dog.refused /\ dog'.after = dog.after /\ dog'.anchor = dog.anchor
    BY Shapes, <1>3, Values, Recording, TypesAre DEF Dogs
  <2>2. QED
    BY Shapes, <1>3, <2>1
       DEF DogHolds, Secured, Secure, WorkerHolds, Before, Ending, Alive, Settle, Fault, Pauses, Reports
<1>4. CASE dog' = [dog EXCEPT !.pc = "judge"]
  <2>1. /\ dog' \in Dogs
        /\ dog'.pc = "judge" /\ dog'.held = dog.held /\ dog'.releaseFailed = dog.releaseFailed /\ dog'.safe = dog.safe
        /\ dog'.refused = dog.refused /\ dog'.after = dog.after /\ dog'.anchor = dog.anchor
    BY Shapes, <1>4, Values, Recording, TypesAre DEF Dogs
  <2>2. QED
    BY Shapes, <1>4, <2>1
       DEF DogHolds, Secured, Secure, WorkerHolds, Before, Ending, Alive, Settle, Fault, Pauses, Reports
<1>5. QED
  BY <1>1, <1>2, <1>3, <1>4 DEF Settle, Goes, Throws, Fault

(* What the worker came to is judged when it is gone.                       *)
LEMMA JudgeHolds ==
  ASSUME IInv, Judge
  PROVE  dog' \in Dogs /\ DogHolds' /\ Secured' /\ WorkerHolds'
<1>1. /\ log.result # "none" => Record(TerminalOf(log.result)) \in Records
      /\ Record(IF "stop" \in ends THEN "stopped" ELSE "timeout") \in Records
  BY Recording, TypesAre DEF IInv, TypeOK, Logs, Results, TerminalOf
<1>2. CASE log.result # "none" /\ dog' = [dog EXCEPT !.pc = "capture", !.out = Record(TerminalOf(log.result)), !.after = "finish"]
  <2>1. /\ dog' \in Dogs
        /\ dog'.pc = "capture" /\ dog'.held = dog.held /\ dog'.releaseFailed = dog.releaseFailed /\ dog'.safe = dog.safe
        /\ dog'.refused = dog.refused /\ dog'.after = "finish" /\ dog'.anchor = dog.anchor
    BY Shapes, <1>1, <1>2, Values, Recording, TypesAre DEF Dogs
  <2>2. QED
    BY Shapes, <1>1, <1>2, <2>1
       DEF DogHolds, Secured, Secure, WorkerHolds, Before, Ending, Alive, Judge, Appended, NotTold, Fault
<1>3. CASE log.result # "none" /\ dog' = [dog EXCEPT !.pc = "release", !.out = Record(TerminalOf(log.result)), !.after = "finish"]
  <2>1. /\ dog' \in Dogs
        /\ dog'.pc = "release" /\ dog'.held = dog.held /\ dog'.releaseFailed = dog.releaseFailed /\ dog'.safe = dog.safe
        /\ dog'.refused = dog.refused /\ dog'.after = "finish" /\ dog'.anchor = dog.anchor
    BY Shapes, <1>1, <1>3, Values, Recording, TypesAre DEF Dogs
  <2>2. QED
    BY Shapes, <1>1, <1>3, <2>1
       DEF DogHolds, Secured, Secure, WorkerHolds, Before, Ending, Alive, Judge, Appended, NotTold, Fault
<1>4. CASE dog' = [dog EXCEPT !.pc = "release", !.out = Record(IF "stop" \in ends THEN "stopped" ELSE "timeout"), !.after = "finish"]
  <2>1. /\ dog' \in Dogs
        /\ dog'.pc = "release" /\ dog'.held = dog.held /\ dog'.releaseFailed = dog.releaseFailed /\ dog'.safe = dog.safe
        /\ dog'.refused = dog.refused /\ dog'.after = "finish" /\ dog'.anchor = dog.anchor
    BY Shapes, <1>1, <1>4, Values, Recording, TypesAre DEF Dogs
  <2>2. QED
    BY Shapes, <1>1, <1>4, <2>1
       DEF DogHolds, Secured, Secure, WorkerHolds, Before, Ending, Alive, Judge, Appended, NotTold, Fault
<1>5. CASE dog' = [dog EXCEPT !.pc = "release", !.out = Record("failed"), !.after = "finish"]
  <2>1. /\ dog' \in Dogs
        /\ dog'.pc = "release" /\ dog'.held = dog.held /\ dog'.releaseFailed = dog.releaseFailed /\ dog'.safe = dog.safe
        /\ dog'.refused = dog.refused /\ dog'.after = "finish" /\ dog'.anchor = dog.anchor
    BY Shapes, <1>1, <1>5, Values, Recording, TypesAre DEF Dogs
  <2>2. QED
    BY Shapes, <1>1, <1>5, <2>1
       DEF DogHolds, Secured, Secure, WorkerHolds, Before, Ending, Alive, Judge, Appended, NotTold, Fault
<1>6. CASE dog' = [dog EXCEPT !.pc = "restart"]
  <2>1. /\ dog' \in Dogs
        /\ dog'.pc = "restart" /\ dog'.held = dog.held /\ dog'.releaseFailed = dog.releaseFailed /\ dog'.safe = dog.safe
        /\ dog'.refused = dog.refused /\ dog'.after = dog.after /\ dog'.anchor = dog.anchor
    BY Shapes, <1>1, <1>6, Values, Recording, TypesAre DEF Dogs
  <2>2. QED
    BY Shapes, <1>1, <1>6, <2>1
       DEF DogHolds, Secured, Secure, WorkerHolds, Before, Ending, Alive, Judge, Appended, NotTold, Fault
<1>7. CASE dog' = [dog EXCEPT !.pc = "catch", !.error = "other"]
  <2>1. /\ dog' \in Dogs
        /\ dog'.pc = "catch" /\ dog'.held = dog.held /\ dog'.releaseFailed = dog.releaseFailed /\ dog'.safe = dog.safe
        /\ dog'.refused = dog.refused /\ dog'.after = dog.after /\ dog'.anchor = dog.anchor
    BY Shapes, <1>1, <1>7, Values, Recording, TypesAre DEF Dogs
  <2>2. QED
    BY Shapes, <1>1, <1>7, <2>1
       DEF DogHolds, Secured, Secure, WorkerHolds, Before, Ending, Alive, Judge, Appended, NotTold, Fault
<1>8. QED
  BY <1>2, <1>3, <1>4, <1>5, <1>6, <1>7 DEF Judge, Goes, Throws, Releases, Appended, NotTold, Fault

(* Before a restart gives the workspace away it is captured as the run left *)
(* it.                                                                      *)
LEMMA RestartAnchorHolds ==
  ASSUME IInv, RestartAnchor
  PROVE  dog' \in Dogs /\ DogHolds' /\ Secured' /\ WorkerHolds'
<1>1. CASE dog' = [dog EXCEPT !.pc = "release", !.anchor = Captured, !.after = "backoff"]
  <2>1. /\ dog' \in Dogs
        /\ dog'.pc = "release" /\ dog'.held = dog.held /\ dog'.releaseFailed = dog.releaseFailed /\ dog'.safe = dog.safe
        /\ dog'.refused = dog.refused /\ dog'.after = "backoff" /\ dog'.anchor = Captured
    BY Shapes, <1>1, Values, Recording, TypesAre DEF Dogs
  <2>2. QED
    BY Shapes, <1>1, <2>1
       DEF DogHolds, Secured, Secure, WorkerHolds, Before, Ending, Alive, RestartAnchor, Fault, Captured
<1>2. CASE dog' = [dog EXCEPT !.pc = "catch", !.error = "other"]
  <2>1. /\ dog' \in Dogs
        /\ dog'.pc = "catch" /\ dog'.held = dog.held /\ dog'.releaseFailed = dog.releaseFailed /\ dog'.safe = dog.safe
        /\ dog'.refused = dog.refused /\ dog'.after = dog.after /\ dog'.anchor = dog.anchor
    BY Shapes, <1>2, Values, Recording, TypesAre DEF Dogs
  <2>2. QED
    BY Shapes, <1>2, <2>1
       DEF DogHolds, Secured, Secure, WorkerHolds, Before, Ending, Alive, RestartAnchor, Fault, Captured
<1>3. QED
  BY <1>1, <1>2 DEF RestartAnchor, Throws, Fault

(* A pause is captured before its workspace is given away.                  *)
LEMMA CaptureHolds ==
  ASSUME IInv, Capture
  PROVE  dog' \in Dogs /\ DogHolds' /\ Secured' /\ WorkerHolds'
<1>1. CASE dog' = [dog EXCEPT !.pc = "write anchor", !.anchor = Captured, !.evidence = "pending", !.after = "release"]
  <2>1. /\ dog' \in Dogs
        /\ dog'.pc = "write anchor" /\ dog'.held = dog.held /\ dog'.releaseFailed = dog.releaseFailed /\ dog'.safe = dog.safe
        /\ dog'.refused = dog.refused /\ dog'.after = "release" /\ dog'.anchor = Captured
    BY Shapes, <1>1, Values, Recording, TypesAre DEF Dogs
  <2>2. QED
    BY Shapes, <1>1, <2>1
       DEF DogHolds, Secured, Secure, WorkerHolds, Before, Ending, Alive, Capture, Fault, Captured
<1>2. CASE dog' = [dog EXCEPT !.pc = "catch", !.error = "storage", !.evidence = "none"]
  <2>1. /\ dog' \in Dogs
        /\ dog'.pc = "catch" /\ dog'.held = dog.held /\ dog'.releaseFailed = dog.releaseFailed /\ dog'.safe = dog.safe
        /\ dog'.refused = dog.refused /\ dog'.after = dog.after /\ dog'.anchor = dog.anchor
    BY Shapes, <1>2, Values, Recording, TypesAre DEF Dogs
  <2>2. QED
    BY Shapes, <1>2, <2>1
       DEF DogHolds, Secured, Secure, WorkerHolds, Before, Ending, Alive, Capture, Fault, Captured
<1>3. QED
  BY <1>1, <1>2 DEF Capture, Fault

(* Once its anchor is written, a resume goes back to the top, and a pause   *)
(* on to its release.                                                       *)
LEMMA WriteAnchorHolds ==
  ASSUME IInv, WriteAnchor
  PROVE  dog' \in Dogs /\ DogHolds' /\ Secured' /\ WorkerHolds'
<1>1. CASE dog' = [dog EXCEPT !.pc = dog.after, !.evidence = "saved", !.after = "finish"]
  <2>1. /\ dog' \in Dogs
        /\ dog'.pc = dog.after /\ dog'.held = dog.held /\ dog'.releaseFailed = dog.releaseFailed /\ dog'.safe = dog.safe
        /\ dog'.refused = dog.refused /\ dog'.after = "finish" /\ dog'.anchor = dog.anchor
    BY Shapes, <1>1, Values, Recording, TypesAre DEF Dogs
  <2>2. QED
    BY Shapes, <1>1, <2>1
       DEF DogHolds, Secured, Secure, WorkerHolds, Before, Ending, Alive, WriteAnchor, Fault
<1>2. CASE dog' = [dog EXCEPT !.pc = "catch", !.error = "storage", !.evidence = "pending"]
  <2>1. /\ dog' \in Dogs
        /\ dog'.pc = "catch" /\ dog'.held = dog.held /\ dog'.releaseFailed = dog.releaseFailed /\ dog'.safe = dog.safe
        /\ dog'.refused = dog.refused /\ dog'.after = dog.after /\ dog'.anchor = dog.anchor
    BY Shapes, <1>2, Values, Recording, TypesAre DEF Dogs
  <2>2. QED
    BY Shapes, <1>2, <2>1
       DEF DogHolds, Secured, Secure, WorkerHolds, Before, Ending, Alive, WriteAnchor, Fault
<1>3. CASE dog' = [dog EXCEPT !.pc = "catch", !.error = "storage", !.evidence = "saved"]
  <2>1. /\ dog' \in Dogs
        /\ dog'.pc = "catch" /\ dog'.held = dog.held /\ dog'.releaseFailed = dog.releaseFailed /\ dog'.safe = dog.safe
        /\ dog'.refused = dog.refused /\ dog'.after = dog.after /\ dog'.anchor = dog.anchor
    BY Shapes, <1>3, Values, Recording, TypesAre DEF Dogs
  <2>2. QED
    BY Shapes, <1>3, <2>1
       DEF DogHolds, Secured, Secure, WorkerHolds, Before, Ending, Alive, WriteAnchor, Fault
<1>4. QED
  BY <1>1, <1>2, <1>3 DEF WriteAnchor, Fault

(* The workspace is released when no worker is left; what may go on after   *)
(* that is an end or a restart.                                             *)
LEMMA ReleaseHolds ==
  ASSUME IInv, Release
  PROVE  dog' \in Dogs /\ DogHolds' /\ Secured' /\ WorkerHolds'
<1>1. CASE lease' = Freed /\ dog' = [dog EXCEPT !.pc = dog.after, !.held = FALSE]
  <2>1. /\ dog' \in Dogs
        /\ dog'.pc = dog.after /\ dog'.held = FALSE /\ dog'.releaseFailed = dog.releaseFailed /\ dog'.safe = dog.safe
        /\ dog'.refused = dog.refused /\ dog'.after = dog.after /\ dog'.anchor = dog.anchor
    BY Shapes, <1>1, Values, Recording, TypesAre DEF Dogs
  <2>2. QED
    BY Shapes, <1>1, <2>1
       DEF DogHolds, Secured, Secure, WorkerHolds, Before, Ending, Alive, Release, Fault, Freed
<1>2. CASE lease' \in {"run", "free"} /\ dog' = [dog EXCEPT !.pc = "catch", !.error = "other", !.releaseFailed = TRUE]
  <2>1. /\ dog' \in Dogs
        /\ dog'.pc = "catch" /\ dog'.held = dog.held /\ dog'.releaseFailed = TRUE /\ dog'.safe = dog.safe
        /\ dog'.refused = dog.refused /\ dog'.after = dog.after /\ dog'.anchor = dog.anchor
    BY Shapes, <1>2, Values, Recording, TypesAre DEF Dogs
  <2>2. QED
    BY Shapes, <1>2, <2>1
       DEF DogHolds, Secured, Secure, WorkerHolds, Before, Ending, Alive, Release, Fault, Freed
<1>3. QED
  BY <1>1, <1>2 DEF Release, Fault

(* A recorded end has no worker.                                            *)
LEMMA FinishHolds ==
  ASSUME IInv, Finish
  PROVE  dog' \in Dogs /\ DogHolds' /\ Secured' /\ WorkerHolds'
<1>1. CASE dog' = [dog EXCEPT !.pc = "finally"]
  <2>1. /\ dog' \in Dogs
        /\ dog'.pc = "finally" /\ dog'.held = dog.held /\ dog'.releaseFailed = dog.releaseFailed /\ dog'.safe = dog.safe
        /\ dog'.refused = dog.refused /\ dog'.after = dog.after /\ dog'.anchor = dog.anchor
    BY Shapes, <1>1, Values, Recording, TypesAre DEF Dogs
  <2>2. QED
    BY Shapes, <1>1, <2>1
       DEF DogHolds, Secured, Secure, WorkerHolds, Before, Ending, Alive, Finish, Appended, NotTold, Fault
<1>2. CASE dog' = [dog EXCEPT !.pc = "catch", !.error = dog.wraps]
  <2>1. /\ dog' \in Dogs
        /\ dog'.pc = "catch" /\ dog'.held = dog.held /\ dog'.releaseFailed = dog.releaseFailed /\ dog'.safe = dog.safe
        /\ dog'.refused = dog.refused /\ dog'.after = dog.after /\ dog'.anchor = dog.anchor
    BY Shapes, <1>2, Values, Recording, TypesAre DEF Dogs
  <2>2. QED
    BY Shapes, <1>2, <2>1
       DEF DogHolds, Secured, Secure, WorkerHolds, Before, Ending, Alive, Finish, Appended, NotTold, Fault
<1>3. QED
  BY <1>1, <1>2 DEF Finish, Goes, Throws, Appended, NotTold, Fault

(* After its delay a restart has the lease again, and goes to the top only  *)
(* when nobody edited meanwhile.                                            *)
LEMMA BackoffHolds ==
  ASSUME IInv, Backoff
  PROVE  dog' \in Dogs /\ DogHolds' /\ Secured' /\ WorkerHolds'
<1>1. dog.restarts + 1 \in Nat
  BY Shapes DEF Dogs
<1>2. CASE ends # {} /\ UNCHANGED lease /\ dog' = [dog EXCEPT !.pc = "top"]
  <2>1. /\ dog' \in Dogs
        /\ dog'.pc = "top" /\ dog'.held = dog.held /\ dog'.releaseFailed = dog.releaseFailed /\ dog'.safe = dog.safe
        /\ dog'.refused = dog.refused /\ dog'.after = dog.after /\ dog'.anchor = dog.anchor
    BY Shapes, <1>1, <1>2, Values, Recording, TypesAre DEF Dogs
  <2>2. QED
    BY Shapes, <1>1, <1>2, <2>1
       DEF DogHolds, Secured, Secure, WorkerHolds, Before, Ending, Alive, Backoff, Fault, Matches, Captured
<1>3. CASE (UNCHANGED lease \/ NotAcquired) /\ dog' = [dog EXCEPT !.pc = "catch", !.error = "other"]
  <2>1. /\ dog' \in Dogs
        /\ dog'.pc = "catch" /\ dog'.held = dog.held /\ dog'.releaseFailed = dog.releaseFailed /\ dog'.safe = dog.safe
        /\ dog'.refused = dog.refused /\ dog'.after = dog.after /\ dog'.anchor = dog.anchor
    BY Shapes, <1>1, <1>3, Values, Recording, TypesAre DEF Dogs
  <2>2. QED
    BY Shapes, <1>1, <1>3, <2>1
       DEF NotAcquired, DogHolds, Secured, Secure, WorkerHolds, Before, Ending, Alive, Backoff, Fault, Matches, Captured
<1>4. CASE lease = "free" /\ lease' = "run" /\ Matches(dog.anchor) /\ dog' = [dog EXCEPT !.held = TRUE, !.pc = "top", !.restarts = dog.restarts + 1]
  <2>1. /\ dog' \in Dogs
        /\ dog'.pc = "top" /\ dog'.held = TRUE /\ dog'.releaseFailed = dog.releaseFailed /\ dog'.safe = dog.safe
        /\ dog'.refused = dog.refused /\ dog'.after = dog.after /\ dog'.anchor = dog.anchor
    BY Shapes, <1>1, <1>4, Values, Recording, TypesAre DEF Dogs
  <2>2. QED
    BY Shapes, <1>1, <1>4, <2>1
       DEF DogHolds, Secured, Secure, WorkerHolds, Before, Ending, Alive, Backoff, Fault, Matches, Captured
<1>5. CASE lease = "free" /\ lease' = "run" /\ dog' = [dog EXCEPT !.held = TRUE, !.pc = "write anchor", !.after = "release", !.evidence = "pending", !.out = Record("paused")]
  <2>1. /\ dog' \in Dogs
        /\ dog'.pc = "write anchor" /\ dog'.held = TRUE /\ dog'.releaseFailed = dog.releaseFailed /\ dog'.safe = dog.safe
        /\ dog'.refused = dog.refused /\ dog'.after = "release" /\ dog'.anchor = dog.anchor
    BY Shapes, <1>1, <1>5, Values, Recording, TypesAre DEF Dogs
  <2>2. QED
    BY Shapes, <1>1, <1>5, <2>1
       DEF DogHolds, Secured, Secure, WorkerHolds, Before, Ending, Alive, Backoff, Fault, Matches, Captured
<1>6. CASE lease = "free" /\ lease' = "run" /\ dog' = [dog EXCEPT !.held = TRUE, !.pc = "catch", !.error = "other"]
  <2>1. /\ dog' \in Dogs
        /\ dog'.pc = "catch" /\ dog'.held = TRUE /\ dog'.releaseFailed = dog.releaseFailed /\ dog'.safe = dog.safe
        /\ dog'.refused = dog.refused /\ dog'.after = dog.after /\ dog'.anchor = dog.anchor
    BY Shapes, <1>1, <1>6, Values, Recording, TypesAre DEF Dogs
  <2>2. QED
    BY Shapes, <1>1, <1>6, <2>1
       DEF DogHolds, Secured, Secure, WorkerHolds, Before, Ending, Alive, Backoff, Fault, Matches, Captured
<1>7. QED
  BY <1>2, <1>3, <1>4, <1>5, <1>6 DEF Backoff, NotAcquired, Goes, Throws, Fault

(* The catch of done releases nothing while a worker may be left.           *)
LEMMA CatchHolds ==
  ASSUME IInv, Catch
  PROVE  dog' \in Dogs /\ DogHolds' /\ Secured' /\ WorkerHolds'
<1> DEFINE told(after) ==
        IF after.safe /\ ~after.releaseFailed /\ after.error = "storage" /\ after.evidence # "none"
          THEN [Record("paused") EXCEPT !.evidence = after.evidence]
          ELSE [Record("failed") EXCEPT !.safe = after.safe, !.retained = after.held]
<1>1. \A after \in Dogs : told(after) \in Records
  BY Recording, TypesAre DEF Dogs, Records
<1> HIDE DEF told
<1>2. dog.pc = "catch" /\ UNCHANGED <<run, lock, drifted, worker, ends>>
  BY DEF Catch
<1>3. ASSUME NEW after \in Dogs, after.pc = "catch", after.held => dog.held, after.safe = dog.safe,
             after.held /\ ~after.releaseFailed => lease' = "run",
             (dog.safe /\ ~dog.releaseFailed) \/ UNCHANGED lease,
             dog' = [after EXCEPT !.pc = "end failed", !.out = told(after)]
      PROVE  dog' \in Dogs /\ DogHolds' /\ Secured' /\ WorkerHolds'
  <2>1. /\ dog' \in Dogs /\ dog'.pc = "end failed" /\ dog'.held = after.held
        /\ dog'.releaseFailed = after.releaseFailed /\ dog'.safe = dog.safe
    BY <1>1, <1>3, Values DEF Dogs
  <2>2. QED
    BY Shapes, <1>2, <1>3, <2>1 DEF DogHolds, Secured, Secure, WorkerHolds, Before, Ending, Alive
<1>4. CASE dog.safe /\ ~dog.releaseFailed /\ lease' = Freed
           /\ dog' = [[dog EXCEPT !.held = FALSE] EXCEPT !.pc = "end failed", !.out = told([dog EXCEPT !.held = FALSE])]
  <2> DEFINE after == [dog EXCEPT !.held = FALSE]
  <2>1. after \in Dogs /\ after.pc = "catch" /\ ~after.held /\ after.safe = dog.safe
    BY Shapes, <1>2 DEF Dogs
  <2>2. dog' = [after EXCEPT !.pc = "end failed", !.out = told(after)]
    BY <1>4
  <2> HIDE DEF after
  <2>3. QED
    BY <1>3, <1>4, <2>1, <2>2
<1>5. CASE dog.safe /\ ~dog.releaseFailed
           /\ dog' = [[dog EXCEPT !.releaseFailed = TRUE] EXCEPT !.pc = "end failed", !.out = told([dog EXCEPT !.releaseFailed = TRUE])]
  <2> DEFINE after == [dog EXCEPT !.releaseFailed = TRUE]
  <2>1. /\ after \in Dogs /\ after.pc = "catch" /\ after.held = dog.held /\ after.safe = dog.safe
        /\ after.releaseFailed
    BY Shapes, <1>2 DEF Dogs
  <2>2. dog' = [after EXCEPT !.pc = "end failed", !.out = told(after)]
    BY <1>5
  <2> HIDE DEF after
  <2>3. QED
    BY <1>3, <1>5, <2>1, <2>2
<1>6. CASE UNCHANGED lease /\ dog' = [dog EXCEPT !.pc = "end failed", !.out = told(dog)]
  <2>1. dog.held /\ ~dog.releaseFailed => lease' = "run"
    BY Shapes, <1>6 DEF DogHolds
  <2>2. QED
    BY Shapes, <1>2, <1>3, <1>6, <2>1
<1>7. QED
  BY <1>4, <1>5, <1>6 DEF Catch, told

(* The record of a failure changes nothing of the workspace.                *)
LEMMA EndFailedHolds ==
  ASSUME IInv, EndFailed
  PROVE  dog' \in Dogs /\ DogHolds' /\ Secured' /\ WorkerHolds'
<1>1. dog' \in Dogs
  BY Shapes, Values, IdleIs, Recording, TypesAre DEF Dogs, EndFailed, Goes, Appended, NotTold, Fault
<1>2. DogHolds' /\ Secured' /\ WorkerHolds'
  BY Shapes, IdleIs
     DEF Dogs, DogHolds, Secured, Secure, WorkerHolds, Before, Ending, Alive, EndFailed, Goes, Appended, NotTold, Fault
<1>3. QED
  BY <1>1, <1>2

(* The lock of a watchdog goes only when its worker is gone.                *)
LEMMA FinallyHolds ==
  ASSUME IInv, Finally
  PROVE  dog' \in Dogs /\ DogHolds' /\ Secured' /\ WorkerHolds'
<1>1. dog' \in Dogs
  BY Shapes, Values, IdleIs, Recording, TypesAre DEF Dogs, Finally
<1>2. DogHolds' /\ Secured' /\ WorkerHolds'
  BY Shapes, IdleIs DEF Dogs, DogHolds, Secured, Secure, WorkerHolds, Before, Ending, Alive, Finally
<1>3. QED
  BY <1>1, <1>2

(* A watchdog that dies leaves lock, lease and worker as they are.          *)
LEMMA DieHolds ==
  ASSUME IInv, Die
  PROVE  dog' \in Dogs /\ DogHolds' /\ Secured' /\ WorkerHolds'
<1>1. dog' \in Dogs
  BY Shapes, Values, IdleIs, Recording, TypesAre DEF Dogs, Die
<1>2. DogHolds' /\ Secured' /\ WorkerHolds'
  BY Shapes, IdleIs DEF Dogs, DogHolds, Secured, Secure, WorkerHolds, Before, Ending, Alive, Die
<1>3. QED
  BY <1>1, <1>2

(* A worker that begins changes nothing of the workspace.                   *)
LEMMA BeginHolds ==
  ASSUME IInv, Begin
  PROVE  dog' \in Dogs /\ DogHolds' /\ Secured' /\ WorkerHolds'
<1>1. dog' \in Dogs
  BY Shapes, Values, IdleIs, Recording, TypesAre DEF Dogs, Begin, Fault, Reports
<1>2. DogHolds' /\ Secured' /\ WorkerHolds'
  BY Shapes, IdleIs
     DEF Dogs, DogHolds, Secured, Secure, WorkerHolds, Before, Ending, Alive, Begin, Fault, Reports
<1>3. QED
  BY <1>1, <1>2

(* A worker that binds its host module changes nothing of the workspace.    *)
LEMMA BindHolds ==
  ASSUME IInv, Bind
  PROVE  dog' \in Dogs /\ DogHolds' /\ Secured' /\ WorkerHolds'
<1>1. dog' \in Dogs
  BY Shapes, Values, IdleIs, Recording, TypesAre DEF Dogs, Bind, Reports
<1>2. DogHolds' /\ Secured' /\ WorkerHolds'
  BY Shapes, IdleIs
     DEF Dogs, DogHolds, Secured, Secure, WorkerHolds, Before, Ending, Alive, Bind, Reports
<1>3. QED
  BY <1>1, <1>2

(* A worker that works changes nothing of who owns the workspace.           *)
LEMMA WorkHolds ==
  ASSUME IInv, Work
  PROVE  dog' \in Dogs /\ DogHolds' /\ Secured' /\ WorkerHolds'
<1>1. dog' \in Dogs
  BY Shapes, Values, IdleIs, Recording, TypesAre DEF Dogs, Work, Settles, Pauses, Reports
<1>2. DogHolds' /\ Secured' /\ WorkerHolds'
  BY Shapes, IdleIs
     DEF Dogs, DogHolds, Secured, Secure, WorkerHolds, Before, Ending, Alive, Work, Settles, Pauses, Reports
<1>3. QED
  BY <1>1, <1>2

(* An executor that throws changes nothing of the workspace.                *)
LEMMA WorkerThrowsHolds ==
  ASSUME IInv, WorkerThrows
  PROVE  dog' \in Dogs /\ DogHolds' /\ Secured' /\ WorkerHolds'
<1>1. dog' \in Dogs
  BY Shapes, Values, IdleIs, Recording, TypesAre DEF Dogs, WorkerThrows, Fault, Reports
<1>2. DogHolds' /\ Secured' /\ WorkerHolds'
  BY Shapes, IdleIs
     DEF Dogs, DogHolds, Secured, Secure, WorkerHolds, Before, Ending, Alive, WorkerThrows, Fault, Reports
<1>3. QED
  BY <1>1, <1>2

(* A worker that reported is gone.                                          *)
LEMMA ReportHolds ==
  ASSUME IInv, Report
  PROVE  dog' \in Dogs /\ DogHolds' /\ Secured' /\ WorkerHolds'
<1>1. dog' \in Dogs
  BY Shapes, Values, IdleIs, Recording, TypesAre DEF Dogs, Report, Fault, Appended, NoWorker
<1>2. DogHolds' /\ Secured' /\ WorkerHolds'
  BY Shapes, IdleIs
     DEF Dogs, DogHolds, Secured, Secure, WorkerHolds, Before, Ending, Alive, Report, Fault, Appended, NoWorker
<1>3. QED
  BY <1>1, <1>2

(* A worker that dies is gone.                                              *)
LEMMA WorkerDiesHolds ==
  ASSUME IInv, WorkerDies
  PROVE  dog' \in Dogs /\ DogHolds' /\ Secured' /\ WorkerHolds'
<1>1. dog' \in Dogs
  BY Shapes, Values, IdleIs, Recording, TypesAre DEF Dogs, WorkerDies, Alive, NoWorker
<1>2. DogHolds' /\ Secured' /\ WorkerHolds'
  BY Shapes, IdleIs
     DEF Dogs, DogHolds, Secured, Secure, WorkerHolds, Before, Ending, Alive, WorkerDies, NoWorker
<1>3. QED
  BY <1>1, <1>2

(* A call of stop only makes less to be shown.                              *)
LEMMA StopHolds ==
  ASSUME IInv, Stop
  PROVE  dog' \in Dogs /\ DogHolds' /\ Secured' /\ WorkerHolds'
<1>1. dog' \in Dogs
  BY Shapes, Values, IdleIs, Recording, TypesAre DEF Dogs, Stop
<1>2. DogHolds' /\ Secured' /\ WorkerHolds'
  BY Shapes, IdleIs DEF Dogs, DogHolds, Secured, Secure, WorkerHolds, Before, Ending, Alive, Stop
<1>3. QED
  BY <1>1, <1>2

(* The deadline only makes less to be shown.                                *)
LEMMA DeadlineHolds ==
  ASSUME IInv, Deadline
  PROVE  dog' \in Dogs /\ DogHolds' /\ Secured' /\ WorkerHolds'
<1>1. dog' \in Dogs
  BY Shapes, Values, IdleIs, Recording, TypesAre DEF Dogs, Deadline
<1>2. DogHolds' /\ Secured' /\ WorkerHolds'
  BY Shapes, IdleIs DEF Dogs, DogHolds, Secured, Secure, WorkerHolds, Before, Ending, Alive, Deadline
<1>3. QED
  BY <1>1, <1>2

(* Nobody else takes the lease or edits while the lease is the run's.       *)
LEMMA OthersHolds ==
  ASSUME IInv, Others
  PROVE  dog' \in Dogs /\ DogHolds' /\ Secured' /\ WorkerHolds'
<1>1. dog' \in Dogs
  BY Shapes, Values, IdleIs, Recording, TypesAre DEF Dogs, Others, TakeLease, Edit, ReturnLease
<1>2. DogHolds' /\ Secured' /\ WorkerHolds'
  BY Shapes, IdleIs
     DEF Dogs, DogHolds, Secured, Secure, WorkerHolds, Before, Ending, Alive, Others, TakeLease, Edit, ReturnLease
<1>3. QED
  BY <1>1, <1>2

-----------------------------------------------------------------------------
(* The shapes of the variables.                                             *)

(* A record folds a log into a log.                                         *)
LEMMA FoldIsLog ==
  ASSUME NEW l \in Logs, NEW record \in Records
  PROVE  Fold(l, record) \in Logs
<1>1. record.type \in Types
  BY DEF Records
<1> HIDE DEF Records
<1>2. QED
  BY <1>1 DEF Fold, Logs, Terminals, Results

(* The record of a launch folds to a log.                                   *)
LEMMA LaunchIsLog ==
  ASSUME NEW l \in Logs, NEW restarts \in Nat
  PROVE  FoldLaunch(l, restarts) \in Logs
BY Recording, TypesAre DEF FoldLaunch, Logs

(* Counting goes on.                                                        *)
LEMMA Successor == \A n \in Nat : n + 1 \in Nat
OBVIOUS

(* The run's stream keeps its shape.                                        *)
LEMMA RunKeepsShape ==
  ASSUME IInv, Next
  PROVE  run' \in Runs
<1>1. /\ run \in Runs /\ run.pause \in Nat
  BY DEF IInv, TypeOK, Runs
<1>2. ASSUME NEW at \in {"none", "unchecked", "probing", "open", "complete", "failed", "paused", "preflight paused",
                          "unreadable"}
      PROVE  [run EXCEPT !.at = at] \in Runs /\ [at |-> at, pause |-> run.pause + 1] \in Runs
  <2>1. [run EXCEPT !.at = at] \in Runs
    BY <1>1, <1>2 DEF Runs
  <2>2. run.pause + 1 \in Nat
    BY <1>1, Successor, Zenon
  <2>3. [at |-> at, pause |-> run.pause + 1] \in Runs
    BY <1>2, <2>2 DEF Runs
  <2>4. QED
    BY <2>1, <2>3
<1>3. CASE Store
  BY <1>1, <1>2, <1>3 DEF Store
<1>4. CASE Settle
  BY <1>1, <1>2, <1>4 DEF Settle
<1>5. CASE Bind
  BY <1>1, <1>2, <1>5 DEF Bind
<1>6. CASE Work
  BY <1>1, <1>2, <1>6 DEF Work, Pauses, Settles
<1>7. CASE UNCHANGED run
  BY <1>1, <1>7
<1>8. QED
  <2>1. CASE Watchdog
    BY <1>3, <1>4, <1>7, <2>1
       DEF Watchdog, Lock, Check, Lease, GiveUp, Top, Launch, Kill, CommandThrows, CommandReturns, Judge,
           RestartAnchor, Capture, WriteAnchor, Release, Finish, Backoff, Catch, EndFailed, Finally
  <2>2. CASE Worker
    BY <1>5, <1>6, <1>7, <2>2 DEF Worker, Begin, WorkerThrows, Report, WorkerDies
  <2>3. CASE ~Watchdog /\ ~Worker
    BY <1>7, <2>3 DEF Next, Start, Resume, Die, Stop, Deadline, Others
  <2>4. QED
    BY <2>1, <2>2, <2>3

(* The supervision stream, as it is read, keeps its shape.                  *)
LEMMA LogKeepsShape ==
  ASSUME IInv, Next
  PROVE  log' \in Logs
<1>1. /\ log \in Logs /\ dog \in Dogs /\ worker \in Workers
      /\ dog.restarts \in Nat /\ dog.out \in Records /\ dog.evidence \in Evidence
  BY DEF IInv, TypeOK, Dogs
<1>2. CASE Launch
  BY <1>1, <1>2, LaunchIsLog DEF Launch, Appended, NotTold
<1>3. CASE Judge
  BY <1>1, <1>3, FoldIsLog, Recording, TypesAre DEF Judge, Appended, NotTold
<1>4. CASE Finish
  <2>1. Outcome \in Records
    BY <1>1 DEF Outcome, Records
  <2>2. QED
    BY <1>1, <1>4, <2>1, FoldIsLog DEF Finish, Appended, NotTold
<1>5. CASE EndFailed
  BY <1>1, <1>5, FoldIsLog DEF EndFailed, Appended, NotTold
<1>6. CASE Report
  <2>1. worker.result \in Types /\ "fail" \in Types
    BY <1>1 DEF Workers, Types, Results
  <2>2. QED
    BY <1>1, <1>6, <2>1, FoldIsLog, Recording DEF Report, Appended
<1>7. CASE UNCHANGED log
  BY <1>1, <1>7
<1>8. QED
  <2>1. CASE Watchdog
    BY <1>2, <1>3, <1>4, <1>5, <1>7, <2>1
       DEF Watchdog, Lock, Check, Lease, Store, GiveUp, Top, Kill, CommandThrows, CommandReturns, Settle,
           RestartAnchor, Capture, WriteAnchor, Release, Backoff, Catch, Finally
  <2>2. CASE Worker
    BY <1>6, <1>7, <2>2 DEF Worker, Begin, Bind, Work, WorkerThrows, WorkerDies
  <2>3. CASE ~Watchdog /\ ~Worker
    BY <1>7, <2>3 DEF Next, Start, Resume, Die, Stop, Deadline, Others
  <2>4. QED
    BY <2>1, <2>2, <2>3

(* The worker keeps its shape.                                              *)
LEMMA WorkerKeepsShape ==
  ASSUME IInv, Next
  PROVE  worker' \in Workers
<1>1. worker \in Workers /\ dog.target \in Nat /\ NoWorker \in Workers
  BY DEF IInv, TypeOK, Dogs, Workers, NoWorker
<1>2. /\ \A result \in Results : [worker EXCEPT !.pc = "reporting", !.result = result] \in Workers
      /\ [worker EXCEPT !.pc = "binding"] \in Workers
      /\ [worker EXCEPT !.pc = "working"] \in Workers
      /\ [pc |-> "up", target |-> dog.target, result |-> "none"] \in Workers
  BY <1>1 DEF Workers
<1>3. "complete" \in Results /\ "fail" \in Results /\ "pause" \in Results
  BY DEF Results
<1>4. CASE Launch
  BY <1>1, <1>2, <1>4 DEF Launch
<1>5. CASE Kill \/ CommandThrows \/ CommandReturns \/ Report \/ WorkerDies
  BY <1>1, <1>5 DEF Kill, CommandThrows, CommandReturns, Report, WorkerDies
<1>6. CASE Begin \/ Bind
  BY <1>1, <1>2, <1>3, <1>6 DEF Begin, Bind, Reports
<1>7. CASE Work \/ WorkerThrows
  BY <1>1, <1>2, <1>3, <1>7 DEF Work, WorkerThrows, Pauses, Settles, Reports
<1>8. CASE UNCHANGED worker
  BY <1>1, <1>8
<1>9. QED
  <2>1. CASE Watchdog
    BY <1>4, <1>5, <1>8, <2>1
       DEF Watchdog, Lock, Check, Lease, Store, GiveUp, Top, Settle, Judge, RestartAnchor, Capture,
           WriteAnchor, Release, Finish, Backoff, Catch, EndFailed, Finally
  <2>2. CASE Worker
    BY <1>5, <1>6, <1>7, <2>2 DEF Worker
  <2>3. CASE ~Watchdog /\ ~Worker
    BY <1>8, <2>3 DEF Next, Start, Resume, Die, Stop, Deadline, Others
  <2>4. QED
    BY <2>1, <2>2, <2>3

(* The lock, the lease, the workspace and the reasons to end keep their     *)
(* values.                                                                  *)
LEMMA OthersKeepShape ==
  ASSUME IInv, Next
  PROVE  /\ lock' \in BOOLEAN /\ lease' \in {"free", "run", "other", "stray"} /\ drifted' \in BOOLEAN
         /\ ends' \subseteq {"stop", "deadline"}
<1>1. /\ lock \in BOOLEAN /\ lease \in {"free", "run", "other", "stray"} /\ drifted \in BOOLEAN
      /\ ends \subseteq {"stop", "deadline"} /\ dog \in Dogs
  BY DEF IInv, TypeOK
<1>2. dog.safe \in BOOLEAN /\ dog.releaseFailed \in BOOLEAN
  BY <1>1 DEF Dogs
<1>3. CASE Watchdog
  <2>1. CASE Lock \/ Check \/ Lease \/ Store \/ GiveUp \/ Top \/ Launch \/ Kill \/ CommandThrows \/ CommandReturns
    BY <1>1, <2>1
       DEF Lock, Check, Lease, NotAcquired, Store, GiveUp, Top, Launch, Kill, CommandThrows, CommandReturns
  <2>2. CASE Settle \/ Judge \/ RestartAnchor \/ Capture \/ WriteAnchor \/ Finish \/ EndFailed \/ Finally
    BY <1>1, <1>2, <2>2
       DEF Settle, Judge, RestartAnchor, Capture, WriteAnchor, Finish, EndFailed, Finally
  <2>3. CASE Release \/ Backoff \/ Catch
    BY <1>1, <2>3 DEF Release, Backoff, NotAcquired, Catch, Freed
  <2>4. QED
    BY <1>3, <2>1, <2>2, <2>3 DEF Watchdog
<1>4. CASE Worker
  BY <1>1, <1>4 DEF Worker, Begin, Bind, Work, WorkerThrows, Report, WorkerDies
<1>5. CASE ~Watchdog /\ ~Worker
  BY <1>1, <1>5 DEF Next, Start, Resume, Die, Stop, Deadline, Others, TakeLease, Edit, ReturnLease
<1>6. QED
  BY <1>3, <1>4, <1>5

(* The invariant holds in every state of a supervised run.                  *)
THEOREM InvariantHolds == Spec => []IInv
<1>1. Init => IInv
  <2> SUFFICES ASSUME Init PROVE IInv
    OBVIOUS
  <2>1. /\ dog = Idle /\ lock = FALSE /\ lease = "free" /\ drifted = FALSE /\ ends = {}
        /\ worker = NoWorker
    BY DEF Init
  <2>2. TypeOK
    <3>1. run \in Runs /\ worker \in Workers
      BY DEF Init, Runs, Workers, NoWorker
    <3>2. log \in Logs
      BY Recording, TypesAre DEF Init, NoLog, Logs
    <3>3. QED
      BY <2>1, <3>1, <3>2, IdleIs DEF TypeOK
  <2>3. DogHolds /\ Secured /\ WorkerHolds
    BY <2>1, IdleIs DEF DogHolds, Secured, WorkerHolds, Alive, NoWorker, Before, Ending
  <2>4. QED
    BY <2>2, <2>3 DEF IInv
<1>2. IInv /\ [Next]_vars => IInv'
  <2> SUFFICES ASSUME IInv, [Next]_vars PROVE IInv'
    OBVIOUS
  <2>1. CASE Next
    <3>1. dog' \in Dogs /\ DogHolds' /\ Secured' /\ WorkerHolds'
      <4>1. CASE Watchdog
        BY <4>1, LockHolds, CheckHolds, LeaseHolds, StoreHolds, GiveUpHolds, TopHolds, LaunchHolds, KillHolds,
           CommandThrowsHolds, CommandReturnsHolds, SettleHolds, JudgeHolds, RestartAnchorHolds, CaptureHolds,
           WriteAnchorHolds, ReleaseHolds, FinishHolds, BackoffHolds, CatchHolds, EndFailedHolds, FinallyHolds
           DEF Watchdog
      <4>2. CASE Worker
        BY <4>2, BeginHolds, BindHolds, WorkHolds, WorkerThrowsHolds, ReportHolds, WorkerDiesHolds DEF Worker
      <4>3. CASE ~Watchdog /\ ~Worker
        BY <2>1, <4>3, StartHolds, ResumeHolds, DieHolds, StopHolds, DeadlineHolds, OthersHolds DEF Next
      <4>4. QED
        BY <4>1, <4>2, <4>3
    <3>2. TypeOK'
      BY <2>1, <3>1, RunKeepsShape, LogKeepsShape, WorkerKeepsShape, OthersKeepShape DEF TypeOK
    <3>3. QED
      BY <3>1, <3>2 DEF IInv
  <2>2. CASE UNCHANGED vars
    <3>1. /\ TypeOK' = TypeOK /\ DogHolds' = DogHolds
          /\ Secured' = Secured /\ WorkerHolds' = WorkerHolds
      BY <2>2, Zenon DEF vars, TypeOK, DogHolds, Secured, Secure, WorkerHolds, Alive
    <3>2. QED
      BY <3>1 DEF IInv
  <2>3. QED
    BY <2>1, <2>2
<1>3. QED
  BY <1>1, <1>2, PTL DEF Spec

(* Every variable keeps the values the code takes it for, and the watchdog  *)
(* stands where the code has a place.                                       *)
THEOREM TypeCorrect == Spec => []TypeOK
<1>1. IInv => TypeOK
  BY DEF IInv
<1>2. QED
  BY <1>1, InvariantHolds, PTL

(* Whatever fails or dies, and however often, a live worker has the         *)
(* workspace under the run's lease and behind its lock, without an edit of  *)
(* anybody else, and its watchdog is where it waits for it.                 *)
THEOREM WorkspaceAlwaysOwned == Spec => []WorkerOwnsTheWorkspace
<1>1. IInv => WorkerOwnsTheWorkspace
  BY DEF IInv, WorkerHolds, WorkerOwnsTheWorkspace, Before, Ending
<1>2. QED
  BY <1>1, InvariantHolds, PTL

-----------------------------------------------------------------------------
(* What is told of a lease that stays.                                      *)

(* Where a watchdog stands that has not reached its loop.                   *)
Outside == Before \cup {"check", "lease", "store", "give up"}

(* A lease that stays is the watchdog's until its lock is left behind for   *)
(* it; and the record of a failure is read before the lease is taken, or    *)
(* says that it is retained.                                                *)
LeaseIsTold ==
  /\ dog.pc \notin Before /\ lease = "run" => dog.held
  /\ dog.pc \in {"off", "lock"} /\ lease = "run" => lock
  /\ dog.pc # "dead" /\ lease = "run" /\ log.last.type = "failed" => log.last.retained
  /\ dog.pc \in {"finish", "backoff"} => ~dog.held
  /\ dog.pc = "end failed" /\ lease = "run" /\ dog.out.type = "failed" => dog.out.retained
  /\ dog.pc = "end failed" =>
       \/ dog.out.type = "paused" /\ dog.safe /\ ~dog.releaseFailed
       \/ dog.out.type = "failed" /\ dog.out.safe = dog.safe
  /\ dog.pc \in {"end failed", "finally"} /\ lease = "run" => ~dog.safe \/ dog.releaseFailed

(* Where no failure is the last record.                                     *)
NotYetFailed ==
  /\ run.at = "none" => log.last.type = "none" /\ log.result = "none" /\ run.pause = 0
  /\ dog.pc \notin Outside \/ (dog.pc = "lease" /\ dog.resumed) \/ Alive => run.at # "none"
  /\ dog.pc = "check" => dog.resumed
  /\ dog.pc = "store" \/ (dog.pc \in {"lock", "lease"} /\ ~dog.resumed) => run.at = "none"
  /\ dog.pc \notin Before \cup Ending \cup {"check", "give up"} => log.last.type # "failed"
  /\ dog.pc = "give up" /\ dog.held => log.last.type # "failed"

(* The two together.                                                        *)
ToldInv == LeaseIsTold /\ NotYetFailed

-----------------------------------------------------------------------------
(* That a recorded result is returned.                                      *)

(* The outcome is of the result; or the worker failed with the run at a     *)
(* pause of its preflight, and the pause is told.                           *)
Answers(outcome) ==
  \/ outcome = TerminalOf(log.result)
  \/ log.result = "fail" /\ outcome = "paused" /\ run.at = "preflight paused"

(* Every outcome so far is of the result, and the last record is no outcome *)
(* that is not kept.                                                        *)
OutcomeIsKept ==
  /\ log.result # "none" /\ log.end # "none" => Answers(log.end)
  /\ log.last.type \in Terminals => log.end # "none"

(* The watchdog's outcome is that of the result, unless one was recorded.   *)
OutcomeIsChosen ==
  log.end = "none" /\ log.result # "none" => Answers(dog.out.type)

(* A launch follows no other record than these.                             *)
LaunchMayFollow == log.last.type \in {"none", "crashed", "paused"}

(* Where the watchdog stands, and what the stream and the run are there.    *)
ResultWaits ==
  /\ dog.pc \in {"lease", "store", "top", "launch"} \/ (dog.pc = "write anchor" /\ dog.after = "top") =>
       log.end # "none" \/ log.result = "none"
  /\ dog.pc \in {"lease", "store", "launch"} \/ (dog.pc = "write anchor" /\ dog.after = "top")
       \/ (dog.pc = "top" /\ (ends = {} \/ dog.evidence = "pending")) => LaunchMayFollow
  /\ dog.pc = "launch" => dog.evidence # "pending"
  /\ dog.out.type \in Terminals \cup {"none"}
  /\ dog.pc \notin Ending => dog.error = "none"
  /\ dog.pc \in {"command", "settle", "judge"} => log.end = "none"
  /\ dog.pc \in {"restart", "backoff"} \/ (dog.pc = "release" /\ dog.after = "backoff") =>
       log.end = "none" /\ log.result = "none" /\ log.last.type = "crashed"
  /\ dog.pc \in {"capture", "release", "finish"} \/ (dog.pc = "write anchor" /\ dog.after = "release") =>
       OutcomeIsChosen
  /\ dog.pc \in {"command", "settle"} => dog.evidence = "none"
  /\ dog.pc = "catch" =>
       /\ log.result \in {"none", "fail"}
       /\ dog.error = "storage" => dog.evidence = "none"
  /\ dog.pc = "end failed" => log.result \in {"none", "fail"} /\ dog.out.type = "failed"

(* The run at the worker's steps: a check that was begun is finished, or    *)
(* nothing is recorded.                                                     *)
ChecksAreFinished ==
  /\ worker.pc = "working" => run.at \in {"unchecked", "probing", "open"}
  /\ worker.pc \in {"up", "binding"} => run.at # "probing"
  /\ worker.pc = "reporting" =>
       /\ run.at # "probing" /\ (run.at = "preflight paused" => worker.result \in {"pause", "fail"})
       /\ run.at = "unreadable" => worker.result = "fail"
       /\ worker.result \in Results
  /\ Alive => dog.pc \in {"command", "dead"} /\ log.end = "none" /\ log.result = "none"
  /\ dog.pc \in {"command", "settle"} /\ ~Alive =>
       /\ run.at = "probing" => log.result = "none"
       /\ run.at = "preflight paused" => log.result \in {"none", "pause", "fail"}
       /\ run.at = "unreadable" => log.result \in {"none", "fail"}
  /\ dog.pc \notin {"command", "settle", "dead"} => run.at # "probing"

(* As long as no call fails.                                                *)
ResultInv ==
  /\ faults \in Nat
  /\ faults = 0 => OutcomeIsKept /\ ResultWaits /\ ChecksAreFinished

(* The property is a part of what is told.                                  *)
LEMMA ToldImplies == ToldInv => RetainedIsTold
  BY DEF ToldInv, LeaseIsTold, RetainedIsTold

(* The property is a part of what is said of results.                       *)
LEMMA ResultImplies == ResultInv => ResultIsReturned
  BY DEF ResultInv, OutcomeIsKept, Answers, ResultWaits, LaunchMayFollow, ResultIsReturned

(* What the invariant says of the values of the other variables.            *)
LEMMA MoreShapes ==
  ASSUME IInv
  PROVE  /\ log \in Logs /\ run \in Runs /\ worker \in Workers
         /\ log.last \in Records /\ log.result \in Results \cup {"none"}
BY DEF IInv, TypeOK, Logs

(* The fields of a record.                                                  *)
LEMMA RecordIs ==
  \A type : Record(type).type = type /\ Record(type).retained = FALSE
BY DEF Record

(* What a record makes of the log.                                          *)
LEMMA FoldIs ==
  \A record :
    LET after == Fold(log, record) IN
    IInv => /\ after.last = record
            /\ after.result = IF record.type \in Results THEN record.type ELSE log.result
            /\ after.end = IF record.type \in Terminals /\ log.end = "none" THEN record.type ELSE log.end
BY DEF Fold, IInv, TypeOK, Logs

(* What a launch makes of the log.                                          *)
LEMMA LaunchIs ==
  \A n : LET after == FoldLaunch(log, n) IN
         after.last = Record("launching") /\ after.result = "none" /\ after.end = "none"
BY DEF FoldLaunch

(* Evidence changes nothing of an outcome.                                  *)
LEMMA OutIs ==
  ASSUME IInv
  PROVE  \A e : LET out == [dog.out EXCEPT !.evidence = e] IN
                out.type = dog.out.type /\ out.retained = dog.out.retained
BY Shapes DEF Records

(* The outcome that is recorded is the watchdog's.                          *)
LEMMA OutcomeIs ==
  ASSUME IInv
  PROVE  Outcome.type = dog.out.type /\ Outcome.retained = dog.out.retained
BY OutIs DEF Outcome

(* Results and outcomes are different records.                              *)
LEMMA TerminalsAre ==
  /\ \A t \in {"failed", "stopped", "timeout", "paused"} : t \in Terminals
  /\ \A r \in Results : TerminalOf(r) \in Terminals /\ TerminalOf(r) \notin Results
  /\ \A t \in {"failed", "crashed", "launching", "stopped", "timeout", "paused", "completed"} : t \notin Results
  /\ \A t \in {"none", "crashed", "launching"} \cup Results : t \notin Terminals
BY DEF Results, Terminals, TerminalOf


(* A call that fails ends what is said of a run in which none did.          *)
LEMMA FaultForgives ==
  ASSUME ResultInv, Fault
  PROVE  ResultInv'
BY DEF ResultInv, Fault

(* What a crash makes of the log.                                           *)
LEMMA CrashIs ==
  ASSUME IInv
  PROVE  LET after == Fold(log, Record("crashed")) IN
         after.last.type = "crashed" /\ after.result = log.result /\ after.end = log.end
BY FoldIs, RecordIs, TerminalsAre

(* What the outcome of a run makes of the log.                              *)
LEMMA OutcomeFolds ==
  ASSUME IInv
  PROVE  LET after == Fold(log, Outcome) IN
         /\ after.last.type = dog.out.type /\ after.last.retained = dog.out.retained
         /\ after.result = IF dog.out.type \in Results THEN dog.out.type ELSE log.result
         /\ after.end = IF dog.out.type \in Terminals /\ log.end = "none" THEN dog.out.type ELSE log.end
BY FoldIs, OutcomeIs, OutIs DEF Outcome

(* The outcome of a pause.                                                  *)
LEMMA PausedIs == TerminalOf("pause") = "paused" /\ TerminalOf("fail") = "failed"
BY DEF TerminalOf


(* A check that is interrupted, or not yet, was begun.                      *)
LEMMA InterruptedIs ==
  run.at = "probing" =>
    \A r : r \in {run, [at |-> "preflight paused", pause |-> run.pause + 1]} => r.at # "none"
<1>1. ASSUME run.at = "probing", NEW r, r \in {run, [at |-> "preflight paused", pause |-> run.pause + 1]}
      PROVE  r.at # "none"
  <2>1. CASE r = run
    BY <1>1, <2>1
  <2>2. CASE r = [at |-> "preflight paused", pause |-> run.pause + 1]
    BY <2>2
  <2>3. QED
    BY <1>1, <2>1, <2>2, Zenon
<1>2. QED
  BY <1>1


(* What the outcome of a failure makes of the log.                          *)
LEMMA OutFolds ==
  ASSUME IInv
  PROVE  LET after == Fold(log, dog.out) IN
         /\ after.last.type = dog.out.type /\ after.last.retained = dog.out.retained
         /\ after.result = IF dog.out.type \in Results THEN dog.out.type ELSE log.result
         /\ after.end = IF dog.out.type \in Terminals /\ log.end = "none" THEN dog.out.type ELSE log.end
BY FoldIs


(* A start at its lock has no records.                                      *)
LEMMA LockedIs ==
  ToldInv /\ dog.pc = "lock" /\ ~dog.resumed => log.last.type = "none" /\ log.result = "none"
BY DEF ToldInv, NotYetFailed

(* What ends at the top of the loop is a run of which nothing is recorded, or*)
(* whose outcome is.                                                        *)
LEMMA TopTells ==
  ASSUME IInv, ToldInv, ResultInv, Top
  PROVE  ToldInv' /\ ResultInv'
<1>1. dog.pc = "top" /\ UNCHANGED <<run, log, lock, lease, drifted, worker, ends, faults>>
  BY DEF Top
<1>2. CASE /\ dog' = [dog EXCEPT !.pc = "release", !.out = [dog.out EXCEPT !.evidence = dog.evidence], !.after = "finish"]
          /\ dog.refused
  <2>1. /\ dog'.pc = "release" /\ dog'.held = dog.held /\ dog'.releaseFailed = dog.releaseFailed /\ dog'.safe = dog.safe /\ dog'.resumed = dog.resumed
        /\ dog'.refused = dog.refused /\ dog'.after = "finish" /\ dog'.evidence = dog.evidence /\ dog'.error = dog.error
        /\ dog'.out.type = dog.out.type /\ dog'.out.retained = dog.out.retained
    BY Shapes, <1>2, OutIs DEF Dogs
  <2>c. dog.refused
    BY <1>2
  <2>2. ToldInv'
    BY Shapes, MoreShapes, <1>1, <2>c, <2>1, OutIs
       DEF ToldInv, LeaseIsTold, NotYetFailed, Outside, Before, Ending, DogHolds, WorkerHolds, Alive
  <2>3. ResultInv'
    <3>1. ASSUME faults = 0 PROVE OutcomeIsKept' /\ ResultWaits' /\ ChecksAreFinished'
      <4>1. OutcomeIsKept /\ ResultWaits /\ ChecksAreFinished
        BY <3>1 DEF ResultInv
      <4>2. OutcomeIsKept'
        BY <4>1, Shapes, MoreShapes, <1>1, <2>c, <2>1, OutIs, TerminalsAre
           DEF OutcomeIsKept, OutcomeIsChosen, Answers, ResultWaits
      <4>3. ResultWaits'
        BY <4>1, Shapes, MoreShapes, <1>1, <2>c, <2>1, OutIs, TerminalsAre
           DEF ResultWaits, OutcomeIsChosen, LaunchMayFollow, OutcomeIsKept, Answers, ChecksAreFinished, DogHolds, WorkerHolds, Alive, Ending
      <4>4. ChecksAreFinished'
        BY <4>1, Shapes, MoreShapes, <1>1, <2>c, <2>1, OutIs, TerminalsAre
           DEF ChecksAreFinished, DogHolds, WorkerHolds, Alive, Before, Ending
      <4>5. QED
        BY <4>2, <4>3, <4>4
    <3>2. QED
      BY <3>1, <1>1, <1>2 DEF ResultInv
  <2>4. QED
    BY <2>2, <2>3
<1>3. CASE /\ dog' = [dog EXCEPT !.pc = "write anchor", !.after = "top"]
          /\ ~dog.refused /\ dog.evidence = "pending"
  <2>1. /\ dog'.pc = "write anchor" /\ dog'.held = dog.held /\ dog'.releaseFailed = dog.releaseFailed /\ dog'.safe = dog.safe /\ dog'.resumed = dog.resumed
        /\ dog'.refused = dog.refused /\ dog'.after = "top" /\ dog'.evidence = dog.evidence /\ dog'.error = dog.error
        /\ dog'.out.type = dog.out.type /\ dog'.out.retained = dog.out.retained
    BY Shapes, <1>3 DEF Dogs
  <2>c. ~dog.refused /\ dog.evidence = "pending"
    BY <1>3
  <2>2. ToldInv'
    BY Shapes, MoreShapes, <1>1, <2>c, <2>1
       DEF ToldInv, LeaseIsTold, NotYetFailed, Outside, Before, Ending, DogHolds, WorkerHolds, Alive
  <2>3. ResultInv'
    <3>1. ASSUME faults = 0 PROVE OutcomeIsKept' /\ ResultWaits' /\ ChecksAreFinished'
      <4>1. OutcomeIsKept /\ ResultWaits /\ ChecksAreFinished
        BY <3>1 DEF ResultInv
      <4>2. OutcomeIsKept'
        BY <4>1, Shapes, MoreShapes, <1>1, <2>c, <2>1, TerminalsAre
           DEF OutcomeIsKept, OutcomeIsChosen, Answers, ResultWaits
      <4>3. ResultWaits'
        BY <4>1, Shapes, MoreShapes, <1>1, <2>c, <2>1, TerminalsAre
           DEF ResultWaits, OutcomeIsChosen, LaunchMayFollow, OutcomeIsKept, Answers, ChecksAreFinished, DogHolds, WorkerHolds, Alive, Ending
      <4>4. ChecksAreFinished'
        BY <4>1, Shapes, MoreShapes, <1>1, <2>c, <2>1, TerminalsAre
           DEF ChecksAreFinished, DogHolds, WorkerHolds, Alive, Before, Ending
      <4>5. QED
        BY <4>2, <4>3, <4>4
    <3>2. QED
      BY <3>1, <1>1, <1>3 DEF ResultInv
  <2>4. QED
    BY <2>2, <2>3
<1>4. CASE /\ dog' = [dog EXCEPT !.pc = "release", !.out = Record(IF "stop" \in ends THEN "stopped" ELSE "timeout"), !.after = "finish"]
          /\ ends # {}
  <2>1. /\ dog'.pc = "release" /\ dog'.held = dog.held /\ dog'.releaseFailed = dog.releaseFailed /\ dog'.safe = dog.safe /\ dog'.resumed = dog.resumed
        /\ dog'.refused = dog.refused /\ dog'.after = "finish" /\ dog'.evidence = dog.evidence /\ dog'.error = dog.error
        /\ dog'.out.type = (IF "stop" \in ends THEN "stopped" ELSE "timeout") /\ dog'.out.retained = FALSE
    BY Shapes, <1>4, RecordIs DEF Dogs
  <2>c. ends # {}
    BY <1>4
  <2>2. ToldInv'
    BY Shapes, MoreShapes, <1>1, <2>c, <2>1
       DEF ToldInv, LeaseIsTold, NotYetFailed, Outside, Before, Ending, DogHolds, WorkerHolds, Alive
  <2>3. ResultInv'
    <3>1. ASSUME faults = 0 PROVE OutcomeIsKept' /\ ResultWaits' /\ ChecksAreFinished'
      <4>1. OutcomeIsKept /\ ResultWaits /\ ChecksAreFinished
        BY <3>1 DEF ResultInv
      <4>2. OutcomeIsKept'
        BY <4>1, Shapes, MoreShapes, <1>1, <2>c, <2>1, TerminalsAre
           DEF OutcomeIsKept, OutcomeIsChosen, Answers, ResultWaits
      <4>3. ResultWaits'
        BY <4>1, Shapes, MoreShapes, <1>1, <2>c, <2>1, TerminalsAre
           DEF ResultWaits, OutcomeIsChosen, LaunchMayFollow, OutcomeIsKept, Answers, ChecksAreFinished, DogHolds, WorkerHolds, Alive, Ending
      <4>4. ChecksAreFinished'
        BY <4>1, Shapes, MoreShapes, <1>1, <2>c, <2>1, TerminalsAre
           DEF ChecksAreFinished, DogHolds, WorkerHolds, Alive, Before, Ending
      <4>5. QED
        BY <4>2, <4>3, <4>4
    <3>2. QED
      BY <3>1, <1>1, <1>4 DEF ResultInv
  <2>4. QED
    BY <2>2, <2>3
<1>5. CASE /\ dog' = [dog EXCEPT !.pc = "launch"]
          /\ ends = {} /\ dog.evidence # "pending"
  <2>1. /\ dog'.pc = "launch" /\ dog'.held = dog.held /\ dog'.releaseFailed = dog.releaseFailed /\ dog'.safe = dog.safe /\ dog'.resumed = dog.resumed
        /\ dog'.refused = dog.refused /\ dog'.after = dog.after /\ dog'.evidence = dog.evidence /\ dog'.error = dog.error
        /\ dog'.out.type = dog.out.type /\ dog'.out.retained = dog.out.retained
    BY Shapes, <1>5 DEF Dogs
  <2>c. ends = {} /\ dog.evidence # "pending"
    BY <1>5
  <2>2. ToldInv'
    BY Shapes, MoreShapes, <1>1, <2>c, <2>1
       DEF ToldInv, LeaseIsTold, NotYetFailed, Outside, Before, Ending, DogHolds, WorkerHolds, Alive
  <2>3. ResultInv'
    <3>1. ASSUME faults = 0 PROVE OutcomeIsKept' /\ ResultWaits' /\ ChecksAreFinished'
      <4>1. OutcomeIsKept /\ ResultWaits /\ ChecksAreFinished
        BY <3>1 DEF ResultInv
      <4>2. OutcomeIsKept'
        BY <4>1, Shapes, MoreShapes, <1>1, <2>c, <2>1, TerminalsAre
           DEF OutcomeIsKept, OutcomeIsChosen, Answers, ResultWaits
      <4>3. ResultWaits'
        BY <4>1, Shapes, MoreShapes, <1>1, <2>c, <2>1, TerminalsAre
           DEF ResultWaits, OutcomeIsChosen, LaunchMayFollow, OutcomeIsKept, Answers, ChecksAreFinished, DogHolds, WorkerHolds, Alive, Ending
      <4>4. ChecksAreFinished'
        BY <4>1, Shapes, MoreShapes, <1>1, <2>c, <2>1, TerminalsAre
           DEF ChecksAreFinished, DogHolds, WorkerHolds, Alive, Before, Ending
      <4>5. QED
        BY <4>2, <4>3, <4>4
    <3>2. QED
      BY <3>1, <1>1, <1>5 DEF ResultInv
  <2>4. QED
    BY <2>2, <2>3
<1>6. QED
  BY <1>2, <1>3, <1>4, <1>5 DEF Top, Goes, Releases

(* A launch is recorded over no result.                                     *)
LEMMA LaunchTells ==
  ASSUME IInv, ToldInv, ResultInv, Launch
  PROVE  ToldInv' /\ ResultInv'
<1>1. dog.pc = "launch" /\ UNCHANGED <<run, lock, lease, drifted, ends>>
  BY DEF Launch
<1>2. CASE /\ dog' = [dog EXCEPT !.pc = "top"]
          /\ log' = FoldLaunch(log, dog.restarts) /\ ends # {} /\ UNCHANGED <<worker, faults>>
  <2>1. /\ dog'.pc = "top" /\ dog'.held = dog.held /\ dog'.releaseFailed = dog.releaseFailed /\ dog'.safe = dog.safe /\ dog'.resumed = dog.resumed
        /\ dog'.refused = dog.refused /\ dog'.after = dog.after /\ dog'.evidence = dog.evidence /\ dog'.error = dog.error
        /\ dog'.out.type = dog.out.type /\ dog'.out.retained = dog.out.retained
    BY Shapes, <1>2 DEF Dogs
  <2>c. log' = FoldLaunch(log, dog.restarts) /\ ends # {} /\ UNCHANGED <<worker, faults>>
    BY <1>2
  <2>2. ToldInv'
    BY Shapes, MoreShapes, <1>1, <2>c, <2>1, LaunchIs, RecordIs
       DEF ToldInv, LeaseIsTold, NotYetFailed, Outside, Before, Ending, DogHolds, WorkerHolds, Alive
  <2>3. ResultInv'
    <3>1. ASSUME faults = 0 PROVE OutcomeIsKept' /\ ResultWaits' /\ ChecksAreFinished'
      <4>1. OutcomeIsKept /\ ResultWaits /\ ChecksAreFinished
        BY <3>1 DEF ResultInv
      <4>2. OutcomeIsKept'
        BY <4>1, Shapes, MoreShapes, <1>1, <2>c, <2>1, LaunchIs, RecordIs, TerminalsAre
           DEF OutcomeIsKept
      <4>3. ResultWaits'
        BY <4>1, Shapes, MoreShapes, <1>1, <2>c, <2>1, LaunchIs, RecordIs, TerminalsAre
           DEF ResultWaits, OutcomeIsChosen, LaunchMayFollow, OutcomeIsKept, Answers, ChecksAreFinished, DogHolds, WorkerHolds, Alive, Ending
      <4>4. ChecksAreFinished'
        BY <4>1, Shapes, MoreShapes, <1>1, <2>c, <2>1, LaunchIs, RecordIs, TerminalsAre
           DEF ChecksAreFinished, DogHolds, WorkerHolds, Alive, Before, Ending
      <4>5. QED
        BY <4>2, <4>3, <4>4
    <3>2. QED
      BY <3>1, <1>1, <1>2 DEF ResultInv
  <2>4. QED
    BY <2>2, <2>3
<1>3. CASE /\ dog' = [dog EXCEPT !.pc = "command", !.evidence = "none", !.safe = FALSE, !.timedOut = FALSE]
          /\ log' = FoldLaunch(log, dog.restarts) /\ worker' = [pc |-> "up", target |-> dog.target, result |-> "none"] /\ UNCHANGED faults
  <2>1. /\ dog'.pc = "command" /\ dog'.held = dog.held /\ dog'.releaseFailed = dog.releaseFailed /\ dog'.safe = FALSE /\ dog'.resumed = dog.resumed
        /\ dog'.refused = dog.refused /\ dog'.after = dog.after /\ dog'.evidence = "none" /\ dog'.error = dog.error
        /\ dog'.out.type = dog.out.type /\ dog'.out.retained = dog.out.retained
    BY Shapes, <1>3 DEF Dogs
  <2>c. log' = FoldLaunch(log, dog.restarts) /\ worker' = [pc |-> "up", target |-> dog.target, result |-> "none"] /\ UNCHANGED faults
    BY <1>3
  <2>2. ToldInv'
    BY Shapes, MoreShapes, <1>1, <2>c, <2>1, LaunchIs, RecordIs
       DEF ToldInv, LeaseIsTold, NotYetFailed, Outside, Before, Ending, DogHolds, WorkerHolds, Alive
  <2>3. ResultInv'
    <3>1. ASSUME faults = 0 PROVE OutcomeIsKept' /\ ResultWaits' /\ ChecksAreFinished'
      <4>1. OutcomeIsKept /\ ResultWaits /\ ChecksAreFinished
        BY <3>1 DEF ResultInv
      <4>2. OutcomeIsKept'
        BY <4>1, Shapes, MoreShapes, <1>1, <2>c, <2>1, LaunchIs, RecordIs, TerminalsAre
           DEF OutcomeIsKept
      <4>3. ResultWaits'
        BY <4>1, Shapes, MoreShapes, <1>1, <2>c, <2>1, LaunchIs, RecordIs, TerminalsAre
           DEF ResultWaits, OutcomeIsChosen, LaunchMayFollow, OutcomeIsKept, Answers, ChecksAreFinished, DogHolds, WorkerHolds, Alive, Ending
      <4>4. ChecksAreFinished'
        BY <4>1, Shapes, MoreShapes, <1>1, <2>c, <2>1, LaunchIs, RecordIs, TerminalsAre
           DEF ChecksAreFinished, DogHolds, WorkerHolds, Alive, Before, Ending
      <4>5. QED
        BY <4>2, <4>3, <4>4
    <3>2. QED
      BY <3>1, <1>1, <1>3 DEF ResultInv
  <2>4. QED
    BY <2>2, <2>3
<1>4. CASE /\ dog' = [dog EXCEPT !.pc = "catch", !.error = IF dog.resumed /\ dog.evidence = "saved" THEN "storage" ELSE "other"]
          /\ Fault /\ log' \in {log, FoldLaunch(log, dog.restarts)} /\ UNCHANGED worker
  <2>1. /\ dog'.pc = "catch" /\ dog'.held = dog.held /\ dog'.releaseFailed = dog.releaseFailed /\ dog'.safe = dog.safe /\ dog'.resumed = dog.resumed
        /\ dog'.refused = dog.refused /\ dog'.after = dog.after /\ dog'.evidence = dog.evidence /\ dog'.error = (IF dog.resumed /\ dog.evidence = "saved" THEN "storage" ELSE "other")
        /\ dog'.out.type = dog.out.type /\ dog'.out.retained = dog.out.retained
    BY Shapes, <1>4 DEF Dogs
  <2>c. Fault /\ log' \in {log, FoldLaunch(log, dog.restarts)} /\ UNCHANGED worker
    BY <1>4
  <2>2. ToldInv'
    BY Shapes, MoreShapes, <1>1, <2>c, <2>1, LaunchIs, RecordIs
       DEF ToldInv, LeaseIsTold, NotYetFailed, Outside, Before, Ending, DogHolds, WorkerHolds, Alive
  <2>3. ResultInv'
    BY <1>4, FaultForgives
  <2>4. QED
    BY <2>2, <2>3
<1>5. QED
  BY <1>2, <1>3, <1>4 DEF Launch, Goes, Throws, Appended, NotTold

(* A worker that is killed records nothing more.                            *)
LEMMA KillTells ==
  ASSUME IInv, ToldInv, ResultInv, Kill
  PROVE  ToldInv' /\ ResultInv'
<1>1. dog.pc = "command" /\ UNCHANGED <<run, log, lock, lease, drifted, ends, faults>>
  BY DEF Kill
<1>2. CASE /\ dog' = [dog EXCEPT !.timedOut = "stop" \notin ends]
          /\ Alive /\ worker' = NoWorker
  <2>1. /\ dog'.pc = dog.pc /\ dog'.held = dog.held /\ dog'.releaseFailed = dog.releaseFailed /\ dog'.safe = dog.safe /\ dog'.resumed = dog.resumed
        /\ dog'.refused = dog.refused /\ dog'.after = dog.after /\ dog'.evidence = dog.evidence /\ dog'.error = dog.error
        /\ dog'.out.type = dog.out.type /\ dog'.out.retained = dog.out.retained
    BY Shapes, <1>2 DEF Dogs
  <2>c. Alive /\ worker' = NoWorker
    BY <1>2
  <2>2. ToldInv'
    BY Shapes, MoreShapes, <1>1, <2>c, <2>1
       DEF ToldInv, LeaseIsTold, NotYetFailed, Outside, Before, Ending, DogHolds, WorkerHolds, Alive, NoWorker
  <2>3. ResultInv'
    <3>1. ASSUME faults = 0 PROVE OutcomeIsKept' /\ ResultWaits' /\ ChecksAreFinished'
      <4>1. OutcomeIsKept /\ ResultWaits /\ ChecksAreFinished
        BY <3>1 DEF ResultInv
      <4>2. OutcomeIsKept'
        BY <4>1, Shapes, MoreShapes, <1>1, <2>c, <2>1, TerminalsAre
           DEF OutcomeIsKept, OutcomeIsChosen, Answers, ResultWaits, NoWorker
      <4>3. ResultWaits'
        BY <4>1, Shapes, MoreShapes, <1>1, <2>c, <2>1, TerminalsAre
           DEF ResultWaits, OutcomeIsChosen, LaunchMayFollow, OutcomeIsKept, Answers, ChecksAreFinished, DogHolds, WorkerHolds, Alive, Ending, NoWorker
      <4>4. ChecksAreFinished'
        BY <4>1, Shapes, MoreShapes, <1>1, <2>c, <2>1, TerminalsAre
           DEF ChecksAreFinished, DogHolds, WorkerHolds, Alive, Before, Ending, NoWorker
      <4>5. QED
        BY <4>2, <4>3, <4>4
    <3>2. QED
      BY <3>1, <1>1, <1>2 DEF ResultInv
  <2>4. QED
    BY <2>2, <2>3
<1>3. QED
  BY <1>2 DEF Kill

(* A command that throws is a call that failed.                             *)
LEMMA CommandThrowsTells ==
  ASSUME IInv, ToldInv, ResultInv, CommandThrows
  PROVE  ToldInv' /\ ResultInv'
<1>1. dog.pc = "command" /\ UNCHANGED <<run, log, lock, lease, drifted, ends>>
  BY DEF CommandThrows
<1>2. CASE /\ dog' = [dog EXCEPT !.pc = "settle", !.safe = TRUE, !.error = "command"]
          /\ Fault /\ worker' = NoWorker
  <2>1. /\ dog'.pc = "settle" /\ dog'.held = dog.held /\ dog'.releaseFailed = dog.releaseFailed /\ dog'.safe = TRUE /\ dog'.resumed = dog.resumed
        /\ dog'.refused = dog.refused /\ dog'.after = dog.after /\ dog'.evidence = dog.evidence /\ dog'.error = "command"
        /\ dog'.out.type = dog.out.type /\ dog'.out.retained = dog.out.retained
    BY Shapes, <1>2 DEF Dogs
  <2>c. Fault /\ worker' = NoWorker
    BY <1>2
  <2>2. ToldInv'
    BY Shapes, MoreShapes, <1>1, <2>c, <2>1
       DEF ToldInv, LeaseIsTold, NotYetFailed, Outside, Before, Ending, DogHolds, WorkerHolds, Alive, NoWorker
  <2>3. ResultInv'
    BY <1>2, FaultForgives
  <2>4. QED
    BY <2>2, <2>3
<1>3. CASE /\ dog' = [dog EXCEPT !.pc = "catch", !.error = "command"]
          /\ Fault /\ UNCHANGED worker
  <2>1. /\ dog'.pc = "catch" /\ dog'.held = dog.held /\ dog'.releaseFailed = dog.releaseFailed /\ dog'.safe = dog.safe /\ dog'.resumed = dog.resumed
        /\ dog'.refused = dog.refused /\ dog'.after = dog.after /\ dog'.evidence = dog.evidence /\ dog'.error = "command"
        /\ dog'.out.type = dog.out.type /\ dog'.out.retained = dog.out.retained
    BY Shapes, <1>3 DEF Dogs
  <2>c. Fault /\ UNCHANGED worker
    BY <1>3
  <2>2. ToldInv'
    BY Shapes, MoreShapes, <1>1, <2>c, <2>1
       DEF ToldInv, LeaseIsTold, NotYetFailed, Outside, Before, Ending, DogHolds, WorkerHolds, Alive
  <2>3. ResultInv'
    BY <1>3, FaultForgives
  <2>4. QED
    BY <2>2, <2>3
<1>4. QED
  BY <1>2, <1>3 DEF CommandThrows, Throws

(* A command returns when its worker is gone.                               *)
LEMMA CommandReturnsTells ==
  ASSUME IInv, ToldInv, ResultInv, CommandReturns
  PROVE  ToldInv' /\ ResultInv'
<1>1. dog.pc = "command" /\ UNCHANGED <<run, log, lock, lease, drifted, ends>>
  BY DEF CommandReturns
<1>2. CASE /\ dog' = [dog EXCEPT !.pc = "settle", !.safe = TRUE]
          /\ ~Alive /\ worker' = NoWorker /\ UNCHANGED faults
  <2>1. /\ dog'.pc = "settle" /\ dog'.held = dog.held /\ dog'.releaseFailed = dog.releaseFailed /\ dog'.safe = TRUE /\ dog'.resumed = dog.resumed
        /\ dog'.refused = dog.refused /\ dog'.after = dog.after /\ dog'.evidence = dog.evidence /\ dog'.error = dog.error
        /\ dog'.out.type = dog.out.type /\ dog'.out.retained = dog.out.retained
    BY Shapes, <1>2 DEF Dogs
  <2>c. ~Alive /\ worker' = NoWorker /\ UNCHANGED faults
    BY <1>2
  <2>2. ToldInv'
    BY Shapes, MoreShapes, <1>1, <2>c, <2>1
       DEF ToldInv, LeaseIsTold, NotYetFailed, Outside, Before, Ending, DogHolds, WorkerHolds, Alive, NoWorker
  <2>3. ResultInv'
    <3>1. ASSUME faults = 0 PROVE OutcomeIsKept' /\ ResultWaits' /\ ChecksAreFinished'
      <4>1. OutcomeIsKept /\ ResultWaits /\ ChecksAreFinished
        BY <3>1 DEF ResultInv
      <4>2. OutcomeIsKept'
        BY <4>1, Shapes, MoreShapes, <1>1, <2>c, <2>1, TerminalsAre
           DEF OutcomeIsKept, OutcomeIsChosen, Answers, ResultWaits, NoWorker
      <4>3. ResultWaits'
        BY <4>1, Shapes, MoreShapes, <1>1, <2>c, <2>1, TerminalsAre
           DEF ResultWaits, OutcomeIsChosen, LaunchMayFollow, OutcomeIsKept, Answers, ChecksAreFinished, DogHolds, WorkerHolds, Alive, Ending, NoWorker
      <4>4. ChecksAreFinished'
        BY <4>1, Shapes, MoreShapes, <1>1, <2>c, <2>1, TerminalsAre
           DEF ChecksAreFinished, DogHolds, WorkerHolds, Alive, Before, Ending, NoWorker
      <4>5. QED
        BY <4>2, <4>3, <4>4
    <3>2. QED
      BY <3>1, <1>1, <1>2 DEF ResultInv
  <2>4. QED
    BY <2>2, <2>3
<1>3. CASE /\ dog' = [dog EXCEPT !.pc = "catch", !.safe = TRUE, !.error = "other"]
          /\ Fault /\ worker' = NoWorker
  <2>1. /\ dog'.pc = "catch" /\ dog'.held = dog.held /\ dog'.releaseFailed = dog.releaseFailed /\ dog'.safe = TRUE /\ dog'.resumed = dog.resumed
        /\ dog'.refused = dog.refused /\ dog'.after = dog.after /\ dog'.evidence = dog.evidence /\ dog'.error = "other"
        /\ dog'.out.type = dog.out.type /\ dog'.out.retained = dog.out.retained
    BY Shapes, <1>3 DEF Dogs
  <2>c. Fault /\ worker' = NoWorker
    BY <1>3
  <2>2. ToldInv'
    BY Shapes, MoreShapes, <1>1, <2>c, <2>1
       DEF ToldInv, LeaseIsTold, NotYetFailed, Outside, Before, Ending, DogHolds, WorkerHolds, Alive, NoWorker
  <2>3. ResultInv'
    BY <1>3, FaultForgives
  <2>4. QED
    BY <2>2, <2>3
<1>4. QED
  BY <1>2, <1>3 DEF CommandReturns

(* A check that nobody finished has no result, and a finished one that of its*)
(* pause.                                                                   *)
LEMMA SettleTells ==
  ASSUME IInv, ToldInv, ResultInv, Settle
  PROVE  ToldInv' /\ ResultInv'
<1>1. dog.pc = "settle" /\ UNCHANGED <<log, lock, lease, drifted, worker, ends>>
  BY DEF Settle
<1>2. CASE /\ dog' = [dog EXCEPT !.pc = "capture", !.out = Record("paused"), !.error = "none", !.wraps = "storage"]
          /\ run.at = "probing" /\ run' = [at |-> "preflight paused", pause |-> run.pause + 1] /\ UNCHANGED faults
  <2>1. /\ dog'.pc = "capture" /\ dog'.held = dog.held /\ dog'.releaseFailed = dog.releaseFailed /\ dog'.safe = dog.safe /\ dog'.resumed = dog.resumed
        /\ dog'.refused = dog.refused /\ dog'.after = dog.after /\ dog'.evidence = dog.evidence /\ dog'.error = "none"
        /\ dog'.out.type = "paused" /\ dog'.out.retained = FALSE
    BY Shapes, <1>2, RecordIs DEF Dogs
  <2>c. run.at = "probing" /\ run' = [at |-> "preflight paused", pause |-> run.pause + 1] /\ UNCHANGED faults
    BY <1>2
  <2>2. ToldInv'
    BY Shapes, MoreShapes, <1>1, <2>c, <2>1, RecordIs, PausedIs
       DEF ToldInv, LeaseIsTold, NotYetFailed, Outside, Before, Ending, DogHolds, WorkerHolds, Alive
  <2>3. ResultInv'
    <3>1. ASSUME faults = 0 PROVE OutcomeIsKept' /\ ResultWaits' /\ ChecksAreFinished'
      <4>1. OutcomeIsKept /\ ResultWaits /\ ChecksAreFinished
        BY <3>1 DEF ResultInv
      <4>2. OutcomeIsKept'
        BY <4>1, Shapes, MoreShapes, <1>1, <2>c, <2>1, RecordIs, PausedIs, TerminalsAre
           DEF OutcomeIsKept, OutcomeIsChosen, Answers, ResultWaits
      <4>3. ResultWaits'
        BY <4>1, Shapes, MoreShapes, <1>1, <2>c, <2>1, RecordIs, PausedIs, TerminalsAre
           DEF ResultWaits, OutcomeIsChosen, LaunchMayFollow, OutcomeIsKept, Answers, ChecksAreFinished, DogHolds, WorkerHolds, Alive, Ending
      <4>4. ChecksAreFinished'
        BY <4>1, Shapes, MoreShapes, <1>1, <2>c, <2>1, RecordIs, PausedIs, TerminalsAre
           DEF ChecksAreFinished, DogHolds, WorkerHolds, Alive, Before, Ending
      <4>5. QED
        BY <4>2, <4>3, <4>4
    <3>2. QED
      BY <3>1, <1>1, <1>2 DEF ResultInv
  <2>4. QED
    BY <2>2, <2>3
<1>3. CASE /\ dog' = [dog EXCEPT !.pc = "catch", !.error = "storage"]
          /\ Fault /\ run'.at # "none"
  <2>1. /\ dog'.pc = "catch" /\ dog'.held = dog.held /\ dog'.releaseFailed = dog.releaseFailed /\ dog'.safe = dog.safe /\ dog'.resumed = dog.resumed
        /\ dog'.refused = dog.refused /\ dog'.after = dog.after /\ dog'.evidence = dog.evidence /\ dog'.error = "storage"
        /\ dog'.out.type = dog.out.type /\ dog'.out.retained = dog.out.retained
    BY Shapes, <1>3 DEF Dogs
  <2>c. Fault /\ run'.at # "none"
    BY <1>3
  <2>2. ToldInv'
    BY Shapes, MoreShapes, <1>1, <2>c, <2>1
       DEF ToldInv, LeaseIsTold, NotYetFailed, Outside, Before, Ending, DogHolds, WorkerHolds, Alive
  <2>3. ResultInv'
    BY <1>3, FaultForgives
  <2>4. QED
    BY <2>2, <2>3
<1>4. CASE /\ dog' = [dog EXCEPT !.pc = "capture", !.out = Record("paused"), !.error = "none", !.wraps = "storage"]
          /\ run.at = "preflight paused" /\ UNCHANGED <<run, faults>>
  <2>1. /\ dog'.pc = "capture" /\ dog'.held = dog.held /\ dog'.releaseFailed = dog.releaseFailed /\ dog'.safe = dog.safe /\ dog'.resumed = dog.resumed
        /\ dog'.refused = dog.refused /\ dog'.after = dog.after /\ dog'.evidence = dog.evidence /\ dog'.error = "none"
        /\ dog'.out.type = "paused" /\ dog'.out.retained = FALSE
    BY Shapes, <1>4, RecordIs DEF Dogs
  <2>c. run.at = "preflight paused" /\ UNCHANGED <<run, faults>>
    BY <1>4
  <2>2. ToldInv'
    BY Shapes, MoreShapes, <1>1, <2>c, <2>1, RecordIs, PausedIs
       DEF ToldInv, LeaseIsTold, NotYetFailed, Outside, Before, Ending, DogHolds, WorkerHolds, Alive
  <2>3. ResultInv'
    <3>1. ASSUME faults = 0 PROVE OutcomeIsKept' /\ ResultWaits' /\ ChecksAreFinished'
      <4>1. OutcomeIsKept /\ ResultWaits /\ ChecksAreFinished
        BY <3>1 DEF ResultInv
      <4>2. OutcomeIsKept'
        BY <4>1, Shapes, MoreShapes, <1>1, <2>c, <2>1, RecordIs, PausedIs, TerminalsAre
           DEF OutcomeIsKept, OutcomeIsChosen, Answers, ResultWaits
      <4>3. ResultWaits'
        BY <4>1, Shapes, MoreShapes, <1>1, <2>c, <2>1, RecordIs, PausedIs, TerminalsAre
           DEF ResultWaits, OutcomeIsChosen, LaunchMayFollow, OutcomeIsKept, Answers, ChecksAreFinished, DogHolds, WorkerHolds, Alive, Ending
      <4>4. ChecksAreFinished'
        BY <4>1, Shapes, MoreShapes, <1>1, <2>c, <2>1, RecordIs, PausedIs, TerminalsAre
           DEF ChecksAreFinished, DogHolds, WorkerHolds, Alive, Before, Ending
      <4>5. QED
        BY <4>2, <4>3, <4>4
    <3>2. QED
      BY <3>1, <1>1, <1>4 DEF ResultInv
  <2>4. QED
    BY <2>2, <2>3
<1>5. CASE /\ dog' = [dog EXCEPT !.pc = IF dog.error = "command" THEN "catch" ELSE "judge"]
          /\ run.at \notin {"probing", "preflight paused", "unreadable"} /\ UNCHANGED <<run, faults>>
  <2>1. /\ dog'.pc = (IF dog.error = "command" THEN "catch" ELSE "judge") /\ dog'.held = dog.held /\ dog'.releaseFailed = dog.releaseFailed /\ dog'.safe = dog.safe /\ dog'.resumed = dog.resumed
        /\ dog'.refused = dog.refused /\ dog'.after = dog.after /\ dog'.evidence = dog.evidence /\ dog'.error = dog.error
        /\ dog'.out.type = dog.out.type /\ dog'.out.retained = dog.out.retained
    BY Shapes, <1>5 DEF Dogs
  <2>c. run.at \notin {"probing", "preflight paused", "unreadable"} /\ UNCHANGED <<run, faults>>
    BY <1>5
  <2>2. ToldInv'
    BY Shapes, MoreShapes, <1>1, <2>c, <2>1
       DEF ToldInv, LeaseIsTold, NotYetFailed, Outside, Before, Ending, DogHolds, WorkerHolds, Alive
  <2>3. ResultInv'
    <3>1. ASSUME faults = 0 PROVE OutcomeIsKept' /\ ResultWaits' /\ ChecksAreFinished'
      <4>1. OutcomeIsKept /\ ResultWaits /\ ChecksAreFinished
        BY <3>1 DEF ResultInv
      <4>2. OutcomeIsKept'
        BY <4>1, Shapes, MoreShapes, <1>1, <2>c, <2>1, TerminalsAre
           DEF OutcomeIsKept, OutcomeIsChosen, Answers, ResultWaits
      <4>3. ResultWaits'
        BY <4>1, Shapes, MoreShapes, <1>1, <2>c, <2>1, TerminalsAre
           DEF ResultWaits, OutcomeIsChosen, LaunchMayFollow, OutcomeIsKept, Answers, ChecksAreFinished, DogHolds, WorkerHolds, Alive, Ending
      <4>4. ChecksAreFinished'
        BY <4>1, Shapes, MoreShapes, <1>1, <2>c, <2>1, TerminalsAre
           DEF ChecksAreFinished, DogHolds, WorkerHolds, Alive, Before, Ending
      <4>5. QED
        BY <4>2, <4>3, <4>4
    <3>2. QED
      BY <3>1, <1>1, <1>5 DEF ResultInv
  <2>4. QED
    BY <2>2, <2>3
<1>6. CASE /\ dog' = [dog EXCEPT !.pc = "catch", !.error = "storage"]
          /\ run.at = "unreadable" /\ UNCHANGED <<run, faults>>
  <2>1. /\ dog'.pc = "catch" /\ dog'.held = dog.held /\ dog'.releaseFailed = dog.releaseFailed /\ dog'.safe = dog.safe /\ dog'.resumed = dog.resumed
        /\ dog'.refused = dog.refused /\ dog'.after = dog.after /\ dog'.evidence = dog.evidence /\ dog'.error = "storage"
        /\ dog'.out.type = dog.out.type /\ dog'.out.retained = dog.out.retained
    BY Shapes, <1>6 DEF Dogs
  <2>c. run.at = "unreadable" /\ UNCHANGED <<run, faults>>
    BY <1>6
  <2>2. ToldInv'
    BY Shapes, MoreShapes, <1>1, <2>c, <2>1
       DEF ToldInv, LeaseIsTold, NotYetFailed, Outside, Before, Ending, DogHolds, WorkerHolds, Alive
  <2>3. ResultInv'
    <3>1. ASSUME faults = 0 PROVE OutcomeIsKept' /\ ResultWaits' /\ ChecksAreFinished'
      <4>1. OutcomeIsKept /\ ResultWaits /\ ChecksAreFinished
        BY <3>1 DEF ResultInv
      <4>2. OutcomeIsKept'
        BY <4>1, Shapes, MoreShapes, <1>1, <2>c, <2>1, TerminalsAre
           DEF OutcomeIsKept, OutcomeIsChosen, Answers, ResultWaits
      <4>3. ResultWaits'
        BY <4>1, Shapes, MoreShapes, <1>1, <2>c, <2>1, TerminalsAre
           DEF ResultWaits, OutcomeIsChosen, LaunchMayFollow, OutcomeIsKept, Answers, ChecksAreFinished, DogHolds, WorkerHolds, Alive, Ending
      <4>4. ChecksAreFinished'
        BY <4>1, Shapes, MoreShapes, <1>1, <2>c, <2>1, TerminalsAre
           DEF ChecksAreFinished, DogHolds, WorkerHolds, Alive, Before, Ending
      <4>5. QED
        BY <4>2, <4>3, <4>4
    <3>2. QED
      BY <3>1, <1>1, <1>6 DEF ResultInv
  <2>4. QED
    BY <2>2, <2>3
<1>7. QED
  BY <1>2, <1>3, <1>4, <1>5, <1>6, InterruptedIs, Zenon DEF Settle, Goes, Throws

(* What was recorded is the outcome, whatever ended the worker; where nothing*)
(* was recorded there is nothing to lose.                                   *)
LEMMA JudgeTells ==
  ASSUME IInv, ToldInv, ResultInv, Judge
  PROVE  ToldInv' /\ ResultInv'
<1>1. dog.pc = "judge" /\ UNCHANGED <<run, lock, lease, drifted, worker, ends>>
  BY DEF Judge
<1>2. CASE /\ dog' = [dog EXCEPT !.pc = IF log.result = "pause" THEN "capture" ELSE "release", !.out = Record(TerminalOf(log.result)), !.after = "finish"]
          /\ log.result # "none" /\ UNCHANGED <<log, faults>>
  <2>1. /\ dog'.pc = (IF log.result = "pause" THEN "capture" ELSE "release") /\ dog'.held = dog.held /\ dog'.releaseFailed = dog.releaseFailed /\ dog'.safe = dog.safe /\ dog'.resumed = dog.resumed
        /\ dog'.refused = dog.refused /\ dog'.after = "finish" /\ dog'.evidence = dog.evidence /\ dog'.error = dog.error
        /\ dog'.out.type = TerminalOf(log.result) /\ dog'.out.retained = FALSE
    BY Shapes, <1>2, RecordIs DEF Dogs
  <2>c. log.result # "none" /\ UNCHANGED <<log, faults>>
    BY <1>2
  <2>2. ToldInv'
    BY Shapes, MoreShapes, <1>1, <2>c, <2>1, RecordIs
       DEF ToldInv, LeaseIsTold, NotYetFailed, Outside, Before, Ending, DogHolds, WorkerHolds, Alive
  <2>3. ResultInv'
    <3>1. ASSUME faults = 0 PROVE OutcomeIsKept' /\ ResultWaits' /\ ChecksAreFinished'
      <4>1. OutcomeIsKept /\ ResultWaits /\ ChecksAreFinished
        BY <3>1 DEF ResultInv
      <4>2. OutcomeIsKept'
        BY <4>1, Shapes, MoreShapes, <1>1, <2>c, <2>1, RecordIs, TerminalsAre
           DEF OutcomeIsKept, OutcomeIsChosen, Answers, ResultWaits
      <4>3. ResultWaits'
        BY <4>1, Shapes, MoreShapes, <1>1, <2>c, <2>1, RecordIs, TerminalsAre
           DEF ResultWaits, OutcomeIsChosen, LaunchMayFollow, OutcomeIsKept, Answers, ChecksAreFinished, DogHolds, WorkerHolds, Alive, Ending
      <4>4. ChecksAreFinished'
        BY <4>1, Shapes, MoreShapes, <1>1, <2>c, <2>1, RecordIs, TerminalsAre
           DEF ChecksAreFinished, DogHolds, WorkerHolds, Alive, Before, Ending
      <4>5. QED
        BY <4>2, <4>3, <4>4
    <3>2. QED
      BY <3>1, <1>1, <1>2 DEF ResultInv
  <2>4. QED
    BY <2>2, <2>3
<1>3. CASE /\ dog' = [dog EXCEPT !.pc = "release", !.out = Record(IF "stop" \in ends THEN "stopped" ELSE "timeout"), !.after = "finish"]
          /\ log.result = "none" /\ UNCHANGED <<log, faults>>
  <2>1. /\ dog'.pc = "release" /\ dog'.held = dog.held /\ dog'.releaseFailed = dog.releaseFailed /\ dog'.safe = dog.safe /\ dog'.resumed = dog.resumed
        /\ dog'.refused = dog.refused /\ dog'.after = "finish" /\ dog'.evidence = dog.evidence /\ dog'.error = dog.error
        /\ dog'.out.type = (IF "stop" \in ends THEN "stopped" ELSE "timeout") /\ dog'.out.retained = FALSE
    BY Shapes, <1>3, RecordIs DEF Dogs
  <2>c. log.result = "none" /\ UNCHANGED <<log, faults>>
    BY <1>3
  <2>2. ToldInv'
    BY Shapes, MoreShapes, <1>1, <2>c, <2>1
       DEF ToldInv, LeaseIsTold, NotYetFailed, Outside, Before, Ending, DogHolds, WorkerHolds, Alive
  <2>3. ResultInv'
    <3>1. ASSUME faults = 0 PROVE OutcomeIsKept' /\ ResultWaits' /\ ChecksAreFinished'
      <4>1. OutcomeIsKept /\ ResultWaits /\ ChecksAreFinished
        BY <3>1 DEF ResultInv
      <4>2. OutcomeIsKept'
        BY <4>1, Shapes, MoreShapes, <1>1, <2>c, <2>1, TerminalsAre
           DEF OutcomeIsKept, OutcomeIsChosen, Answers, ResultWaits
      <4>3. ResultWaits'
        BY <4>1, Shapes, MoreShapes, <1>1, <2>c, <2>1, TerminalsAre
           DEF ResultWaits, OutcomeIsChosen, LaunchMayFollow, OutcomeIsKept, Answers, ChecksAreFinished, DogHolds, WorkerHolds, Alive, Ending
      <4>4. ChecksAreFinished'
        BY <4>1, Shapes, MoreShapes, <1>1, <2>c, <2>1, TerminalsAre
           DEF ChecksAreFinished, DogHolds, WorkerHolds, Alive, Before, Ending
      <4>5. QED
        BY <4>2, <4>3, <4>4
    <3>2. QED
      BY <3>1, <1>1, <1>3 DEF ResultInv
  <2>4. QED
    BY <2>2, <2>3
<1>4. CASE /\ dog' = [dog EXCEPT !.pc = "release", !.out = Record("failed"), !.after = "finish"]
          /\ log.result = "none" /\ UNCHANGED faults /\ log' = Fold(log, Record("crashed"))
  <2>1. /\ dog'.pc = "release" /\ dog'.held = dog.held /\ dog'.releaseFailed = dog.releaseFailed /\ dog'.safe = dog.safe /\ dog'.resumed = dog.resumed
        /\ dog'.refused = dog.refused /\ dog'.after = "finish" /\ dog'.evidence = dog.evidence /\ dog'.error = dog.error
        /\ dog'.out.type = "failed" /\ dog'.out.retained = FALSE
    BY Shapes, <1>4, RecordIs DEF Dogs
  <2>c. log.result = "none" /\ UNCHANGED faults /\ log' = Fold(log, Record("crashed"))
    BY <1>4
  <2>2. ToldInv'
    BY Shapes, MoreShapes, <1>1, <2>c, <2>1, CrashIs
       DEF ToldInv, LeaseIsTold, NotYetFailed, Outside, Before, Ending, DogHolds, WorkerHolds, Alive
  <2>3. ResultInv'
    <3>1. ASSUME faults = 0 PROVE OutcomeIsKept' /\ ResultWaits' /\ ChecksAreFinished'
      <4>1. OutcomeIsKept /\ ResultWaits /\ ChecksAreFinished
        BY <3>1 DEF ResultInv
      <4>2. OutcomeIsKept'
        BY <4>1, Shapes, MoreShapes, <1>1, <2>c, <2>1, CrashIs, TerminalsAre
           DEF OutcomeIsKept, OutcomeIsChosen, Answers, ResultWaits
      <4>3. ResultWaits'
        BY <4>1, Shapes, MoreShapes, <1>1, <2>c, <2>1, CrashIs, TerminalsAre
           DEF ResultWaits, OutcomeIsChosen, LaunchMayFollow, OutcomeIsKept, Answers, ChecksAreFinished, DogHolds, WorkerHolds, Alive, Ending
      <4>4. ChecksAreFinished'
        BY <4>1, Shapes, MoreShapes, <1>1, <2>c, <2>1, CrashIs, TerminalsAre
           DEF ChecksAreFinished, DogHolds, WorkerHolds, Alive, Before, Ending
      <4>5. QED
        BY <4>2, <4>3, <4>4
    <3>2. QED
      BY <3>1, <1>1, <1>4 DEF ResultInv
  <2>4. QED
    BY <2>2, <2>3
<1>5. CASE /\ dog' = [dog EXCEPT !.pc = "restart"]
          /\ log.result = "none" /\ UNCHANGED faults /\ log' = Fold(log, Record("crashed"))
  <2>1. /\ dog'.pc = "restart" /\ dog'.held = dog.held /\ dog'.releaseFailed = dog.releaseFailed /\ dog'.safe = dog.safe /\ dog'.resumed = dog.resumed
        /\ dog'.refused = dog.refused /\ dog'.after = dog.after /\ dog'.evidence = dog.evidence /\ dog'.error = dog.error
        /\ dog'.out.type = dog.out.type /\ dog'.out.retained = dog.out.retained
    BY Shapes, <1>5 DEF Dogs
  <2>c. log.result = "none" /\ UNCHANGED faults /\ log' = Fold(log, Record("crashed"))
    BY <1>5
  <2>2. ToldInv'
    BY Shapes, MoreShapes, <1>1, <2>c, <2>1, CrashIs
       DEF ToldInv, LeaseIsTold, NotYetFailed, Outside, Before, Ending, DogHolds, WorkerHolds, Alive
  <2>3. ResultInv'
    <3>1. ASSUME faults = 0 PROVE OutcomeIsKept' /\ ResultWaits' /\ ChecksAreFinished'
      <4>1. OutcomeIsKept /\ ResultWaits /\ ChecksAreFinished
        BY <3>1 DEF ResultInv
      <4>2. OutcomeIsKept'
        BY <4>1, Shapes, MoreShapes, <1>1, <2>c, <2>1, CrashIs, TerminalsAre
           DEF OutcomeIsKept, OutcomeIsChosen, Answers, ResultWaits
      <4>3. ResultWaits'
        BY <4>1, Shapes, MoreShapes, <1>1, <2>c, <2>1, CrashIs, TerminalsAre
           DEF ResultWaits, OutcomeIsChosen, LaunchMayFollow, OutcomeIsKept, Answers, ChecksAreFinished, DogHolds, WorkerHolds, Alive, Ending
      <4>4. ChecksAreFinished'
        BY <4>1, Shapes, MoreShapes, <1>1, <2>c, <2>1, CrashIs, TerminalsAre
           DEF ChecksAreFinished, DogHolds, WorkerHolds, Alive, Before, Ending
      <4>5. QED
        BY <4>2, <4>3, <4>4
    <3>2. QED
      BY <3>1, <1>1, <1>5 DEF ResultInv
  <2>4. QED
    BY <2>2, <2>3
<1>6. CASE /\ dog' = [dog EXCEPT !.pc = "catch", !.error = "other"]
          /\ Fault /\ log' \in {log, Fold(log, Record("crashed"))}
  <2>1. /\ dog'.pc = "catch" /\ dog'.held = dog.held /\ dog'.releaseFailed = dog.releaseFailed /\ dog'.safe = dog.safe /\ dog'.resumed = dog.resumed
        /\ dog'.refused = dog.refused /\ dog'.after = dog.after /\ dog'.evidence = dog.evidence /\ dog'.error = "other"
        /\ dog'.out.type = dog.out.type /\ dog'.out.retained = dog.out.retained
    BY Shapes, <1>6 DEF Dogs
  <2>c. Fault /\ log' \in {log, Fold(log, Record("crashed"))}
    BY <1>6
  <2>2. ToldInv'
    BY Shapes, MoreShapes, <1>1, <2>c, <2>1, CrashIs
       DEF ToldInv, LeaseIsTold, NotYetFailed, Outside, Before, Ending, DogHolds, WorkerHolds, Alive
  <2>3. ResultInv'
    BY <1>6, FaultForgives
  <2>4. QED
    BY <2>2, <2>3
<1>7. QED
  BY <1>2, <1>3, <1>4, <1>5, <1>6 DEF Judge, Goes, Throws, Releases, Appended, NotTold

(* A restart keeps that nothing was recorded.                               *)
LEMMA RestartAnchorTells ==
  ASSUME IInv, ToldInv, ResultInv, RestartAnchor
  PROVE  ToldInv' /\ ResultInv'
<1>1. dog.pc = "restart" /\ UNCHANGED <<run, log, lock, lease, drifted, worker, ends>>
  BY DEF RestartAnchor
<1>2. CASE /\ dog' = [dog EXCEPT !.pc = "release", !.anchor = Captured, !.after = "backoff"]
          /\ UNCHANGED faults
  <2>1. /\ dog'.pc = "release" /\ dog'.held = dog.held /\ dog'.releaseFailed = dog.releaseFailed /\ dog'.safe = dog.safe /\ dog'.resumed = dog.resumed
        /\ dog'.refused = dog.refused /\ dog'.after = "backoff" /\ dog'.evidence = dog.evidence /\ dog'.error = dog.error
        /\ dog'.out.type = dog.out.type /\ dog'.out.retained = dog.out.retained
    BY Shapes, <1>2 DEF Dogs
  <2>c. UNCHANGED faults
    BY <1>2
  <2>2. ToldInv'
    BY Shapes, MoreShapes, <1>1, <2>c, <2>1
       DEF ToldInv, LeaseIsTold, NotYetFailed, Outside, Before, Ending, DogHolds, WorkerHolds, Alive
  <2>3. ResultInv'
    <3>1. ASSUME faults = 0 PROVE OutcomeIsKept' /\ ResultWaits' /\ ChecksAreFinished'
      <4>1. OutcomeIsKept /\ ResultWaits /\ ChecksAreFinished
        BY <3>1 DEF ResultInv
      <4>2. OutcomeIsKept'
        BY <4>1, Shapes, MoreShapes, <1>1, <2>c, <2>1, TerminalsAre
           DEF OutcomeIsKept, OutcomeIsChosen, Answers, ResultWaits
      <4>3. ResultWaits'
        BY <4>1, Shapes, MoreShapes, <1>1, <2>c, <2>1, TerminalsAre
           DEF ResultWaits, OutcomeIsChosen, LaunchMayFollow, OutcomeIsKept, Answers, ChecksAreFinished, DogHolds, WorkerHolds, Alive, Ending
      <4>4. ChecksAreFinished'
        BY <4>1, Shapes, MoreShapes, <1>1, <2>c, <2>1, TerminalsAre
           DEF ChecksAreFinished, DogHolds, WorkerHolds, Alive, Before, Ending
      <4>5. QED
        BY <4>2, <4>3, <4>4
    <3>2. QED
      BY <3>1, <1>1, <1>2 DEF ResultInv
  <2>4. QED
    BY <2>2, <2>3
<1>3. CASE /\ dog' = [dog EXCEPT !.pc = "catch", !.error = "other"]
          /\ Fault
  <2>1. /\ dog'.pc = "catch" /\ dog'.held = dog.held /\ dog'.releaseFailed = dog.releaseFailed /\ dog'.safe = dog.safe /\ dog'.resumed = dog.resumed
        /\ dog'.refused = dog.refused /\ dog'.after = dog.after /\ dog'.evidence = dog.evidence /\ dog'.error = "other"
        /\ dog'.out.type = dog.out.type /\ dog'.out.retained = dog.out.retained
    BY Shapes, <1>3 DEF Dogs
  <2>c. Fault
    BY <1>3
  <2>2. ToldInv'
    BY Shapes, MoreShapes, <1>1, <2>c, <2>1
       DEF ToldInv, LeaseIsTold, NotYetFailed, Outside, Before, Ending, DogHolds, WorkerHolds, Alive
  <2>3. ResultInv'
    BY <1>3, FaultForgives
  <2>4. QED
    BY <2>2, <2>3
<1>4. QED
  BY <1>2, <1>3 DEF RestartAnchor, Throws

(* A pause keeps its outcome while it is captured.                          *)
LEMMA CaptureTells ==
  ASSUME IInv, ToldInv, ResultInv, Capture
  PROVE  ToldInv' /\ ResultInv'
<1>1. dog.pc = "capture" /\ UNCHANGED <<run, log, lock, lease, drifted, worker, ends>>
  BY DEF Capture
<1>2. CASE /\ dog' = [dog EXCEPT !.pc = "write anchor", !.anchor = Captured, !.evidence = "pending", !.after = "release"]
          /\ UNCHANGED faults
  <2>1. /\ dog'.pc = "write anchor" /\ dog'.held = dog.held /\ dog'.releaseFailed = dog.releaseFailed /\ dog'.safe = dog.safe /\ dog'.resumed = dog.resumed
        /\ dog'.refused = dog.refused /\ dog'.after = "release" /\ dog'.evidence = "pending" /\ dog'.error = dog.error
        /\ dog'.out.type = dog.out.type /\ dog'.out.retained = dog.out.retained
    BY Shapes, <1>2 DEF Dogs
  <2>c. UNCHANGED faults
    BY <1>2
  <2>2. ToldInv'
    BY Shapes, MoreShapes, <1>1, <2>c, <2>1
       DEF ToldInv, LeaseIsTold, NotYetFailed, Outside, Before, Ending, DogHolds, WorkerHolds, Alive
  <2>3. ResultInv'
    <3>1. ASSUME faults = 0 PROVE OutcomeIsKept' /\ ResultWaits' /\ ChecksAreFinished'
      <4>1. OutcomeIsKept /\ ResultWaits /\ ChecksAreFinished
        BY <3>1 DEF ResultInv
      <4>2. OutcomeIsKept'
        BY <4>1, Shapes, MoreShapes, <1>1, <2>c, <2>1, TerminalsAre
           DEF OutcomeIsKept, OutcomeIsChosen, Answers, ResultWaits
      <4>3. ResultWaits'
        BY <4>1, Shapes, MoreShapes, <1>1, <2>c, <2>1, TerminalsAre
           DEF ResultWaits, OutcomeIsChosen, LaunchMayFollow, OutcomeIsKept, Answers, ChecksAreFinished, DogHolds, WorkerHolds, Alive, Ending
      <4>4. ChecksAreFinished'
        BY <4>1, Shapes, MoreShapes, <1>1, <2>c, <2>1, TerminalsAre
           DEF ChecksAreFinished, DogHolds, WorkerHolds, Alive, Before, Ending
      <4>5. QED
        BY <4>2, <4>3, <4>4
    <3>2. QED
      BY <3>1, <1>1, <1>2 DEF ResultInv
  <2>4. QED
    BY <2>2, <2>3
<1>3. CASE /\ dog' = [dog EXCEPT !.pc = "catch", !.error = "storage", !.evidence = "none"]
          /\ Fault
  <2>1. /\ dog'.pc = "catch" /\ dog'.held = dog.held /\ dog'.releaseFailed = dog.releaseFailed /\ dog'.safe = dog.safe /\ dog'.resumed = dog.resumed
        /\ dog'.refused = dog.refused /\ dog'.after = dog.after /\ dog'.evidence = "none" /\ dog'.error = "storage"
        /\ dog'.out.type = dog.out.type /\ dog'.out.retained = dog.out.retained
    BY Shapes, <1>3 DEF Dogs
  <2>c. Fault
    BY <1>3
  <2>2. ToldInv'
    BY Shapes, MoreShapes, <1>1, <2>c, <2>1
       DEF ToldInv, LeaseIsTold, NotYetFailed, Outside, Before, Ending, DogHolds, WorkerHolds, Alive
  <2>3. ResultInv'
    BY <1>3, FaultForgives
  <2>4. QED
    BY <2>2, <2>3
<1>4. QED
  BY <1>2, <1>3 DEF Capture

(* A pause keeps its outcome while its anchor is written.                   *)
LEMMA WriteAnchorTells ==
  ASSUME IInv, ToldInv, ResultInv, WriteAnchor
  PROVE  ToldInv' /\ ResultInv'
<1>1. dog.pc = "write anchor" /\ UNCHANGED <<run, log, lock, lease, drifted, worker, ends>>
  BY DEF WriteAnchor
<1>2. CASE /\ dog' = [dog EXCEPT !.pc = dog.after, !.evidence = "saved", !.after = "finish"]
          /\ UNCHANGED faults
  <2>1. /\ dog'.pc = dog.after /\ dog'.held = dog.held /\ dog'.releaseFailed = dog.releaseFailed /\ dog'.safe = dog.safe /\ dog'.resumed = dog.resumed
        /\ dog'.refused = dog.refused /\ dog'.after = "finish" /\ dog'.evidence = "saved" /\ dog'.error = dog.error
        /\ dog'.out.type = dog.out.type /\ dog'.out.retained = dog.out.retained
    BY Shapes, <1>2 DEF Dogs
  <2>c. UNCHANGED faults
    BY <1>2
  <2>2. ToldInv'
    BY Shapes, MoreShapes, <1>1, <2>c, <2>1
       DEF ToldInv, LeaseIsTold, NotYetFailed, Outside, Before, Ending, DogHolds, WorkerHolds, Alive
  <2>3. ResultInv'
    <3>1. ASSUME faults = 0 PROVE OutcomeIsKept' /\ ResultWaits' /\ ChecksAreFinished'
      <4>1. OutcomeIsKept /\ ResultWaits /\ ChecksAreFinished
        BY <3>1 DEF ResultInv
      <4>2. OutcomeIsKept'
        BY <4>1, Shapes, MoreShapes, <1>1, <2>c, <2>1, TerminalsAre
           DEF OutcomeIsKept, OutcomeIsChosen, Answers, ResultWaits
      <4>3. ResultWaits'
        BY <4>1, Shapes, MoreShapes, <1>1, <2>c, <2>1, TerminalsAre
           DEF ResultWaits, OutcomeIsChosen, LaunchMayFollow, OutcomeIsKept, Answers, ChecksAreFinished, DogHolds, WorkerHolds, Alive, Ending
      <4>4. ChecksAreFinished'
        BY <4>1, Shapes, MoreShapes, <1>1, <2>c, <2>1, TerminalsAre
           DEF ChecksAreFinished, DogHolds, WorkerHolds, Alive, Before, Ending
      <4>5. QED
        BY <4>2, <4>3, <4>4
    <3>2. QED
      BY <3>1, <1>1, <1>2 DEF ResultInv
  <2>4. QED
    BY <2>2, <2>3
<1>3. CASE /\ dog' = [dog EXCEPT !.pc = "catch", !.error = "storage", !.evidence = "pending"]
          /\ Fault
  <2>1. /\ dog'.pc = "catch" /\ dog'.held = dog.held /\ dog'.releaseFailed = dog.releaseFailed /\ dog'.safe = dog.safe /\ dog'.resumed = dog.resumed
        /\ dog'.refused = dog.refused /\ dog'.after = dog.after /\ dog'.evidence = "pending" /\ dog'.error = "storage"
        /\ dog'.out.type = dog.out.type /\ dog'.out.retained = dog.out.retained
    BY Shapes, <1>3 DEF Dogs
  <2>c. Fault
    BY <1>3
  <2>2. ToldInv'
    BY Shapes, MoreShapes, <1>1, <2>c, <2>1
       DEF ToldInv, LeaseIsTold, NotYetFailed, Outside, Before, Ending, DogHolds, WorkerHolds, Alive
  <2>3. ResultInv'
    BY <1>3, FaultForgives
  <2>4. QED
    BY <2>2, <2>3
<1>4. CASE /\ dog' = [dog EXCEPT !.pc = "catch", !.error = "storage", !.evidence = "saved"]
          /\ Fault
  <2>1. /\ dog'.pc = "catch" /\ dog'.held = dog.held /\ dog'.releaseFailed = dog.releaseFailed /\ dog'.safe = dog.safe /\ dog'.resumed = dog.resumed
        /\ dog'.refused = dog.refused /\ dog'.after = dog.after /\ dog'.evidence = "saved" /\ dog'.error = "storage"
        /\ dog'.out.type = dog.out.type /\ dog'.out.retained = dog.out.retained
    BY Shapes, <1>4 DEF Dogs
  <2>c. Fault
    BY <1>4
  <2>2. ToldInv'
    BY Shapes, MoreShapes, <1>1, <2>c, <2>1
       DEF ToldInv, LeaseIsTold, NotYetFailed, Outside, Before, Ending, DogHolds, WorkerHolds, Alive
  <2>3. ResultInv'
    BY <1>4, FaultForgives
  <2>4. QED
    BY <2>2, <2>3
<1>5. QED
  BY <1>2, <1>3, <1>4 DEF WriteAnchor

(* A release gives the lease back, or keeps it to be told of.               *)
LEMMA ReleaseTells ==
  ASSUME IInv, ToldInv, ResultInv, Release
  PROVE  ToldInv' /\ ResultInv'
<1>1. dog.pc = "release" /\ UNCHANGED <<run, log, lock, drifted, worker, ends>>
  BY DEF Release
<1>2. CASE /\ dog' = [dog EXCEPT !.pc = dog.after, !.held = FALSE]
          /\ UNCHANGED faults /\ lease' = Freed
  <2>1. /\ dog'.pc = dog.after /\ dog'.held = FALSE /\ dog'.releaseFailed = dog.releaseFailed /\ dog'.safe = dog.safe /\ dog'.resumed = dog.resumed
        /\ dog'.refused = dog.refused /\ dog'.after = dog.after /\ dog'.evidence = dog.evidence /\ dog'.error = dog.error
        /\ dog'.out.type = dog.out.type /\ dog'.out.retained = dog.out.retained
    BY Shapes, <1>2 DEF Dogs
  <2>c. UNCHANGED faults /\ lease' = Freed
    BY <1>2
  <2>2. ToldInv'
    BY Shapes, MoreShapes, <1>1, <2>c, <2>1
       DEF ToldInv, LeaseIsTold, NotYetFailed, Outside, Before, Ending, DogHolds, WorkerHolds, Alive, Freed
  <2>3. ResultInv'
    <3>1. ASSUME faults = 0 PROVE OutcomeIsKept' /\ ResultWaits' /\ ChecksAreFinished'
      <4>1. OutcomeIsKept /\ ResultWaits /\ ChecksAreFinished
        BY <3>1 DEF ResultInv
      <4>2. OutcomeIsKept'
        BY <4>1, Shapes, MoreShapes, <1>1, <2>c, <2>1, TerminalsAre
           DEF OutcomeIsKept, OutcomeIsChosen, Answers, ResultWaits, Freed
      <4>3. ResultWaits'
        BY <4>1, Shapes, MoreShapes, <1>1, <2>c, <2>1, TerminalsAre
           DEF ResultWaits, OutcomeIsChosen, LaunchMayFollow, OutcomeIsKept, Answers, ChecksAreFinished, DogHolds, WorkerHolds, Alive, Ending, Freed
      <4>4. ChecksAreFinished'
        BY <4>1, Shapes, MoreShapes, <1>1, <2>c, <2>1, TerminalsAre
           DEF ChecksAreFinished, DogHolds, WorkerHolds, Alive, Before, Ending, Freed
      <4>5. QED
        BY <4>2, <4>3, <4>4
    <3>2. QED
      BY <3>1, <1>1, <1>2 DEF ResultInv
  <2>4. QED
    BY <2>2, <2>3
<1>3. CASE /\ dog' = [dog EXCEPT !.pc = "catch", !.error = "other", !.releaseFailed = TRUE]
          /\ Fault /\ dog.held /\ lease' \in {"run", "free"}
  <2>1. /\ dog'.pc = "catch" /\ dog'.held = dog.held /\ dog'.releaseFailed = TRUE /\ dog'.safe = dog.safe /\ dog'.resumed = dog.resumed
        /\ dog'.refused = dog.refused /\ dog'.after = dog.after /\ dog'.evidence = dog.evidence /\ dog'.error = "other"
        /\ dog'.out.type = dog.out.type /\ dog'.out.retained = dog.out.retained
    BY Shapes, <1>3 DEF Dogs
  <2>c. Fault /\ dog.held /\ lease' \in {"run", "free"}
    BY <1>3
  <2>2. ToldInv'
    BY Shapes, MoreShapes, <1>1, <2>c, <2>1
       DEF ToldInv, LeaseIsTold, NotYetFailed, Outside, Before, Ending, DogHolds, WorkerHolds, Alive
  <2>3. ResultInv'
    BY <1>3, FaultForgives
  <2>4. QED
    BY <2>2, <2>3
<1>4. QED
  BY <1>2, <1>3 DEF Release

(* The outcome is recorded after the lease is given back.                   *)
LEMMA FinishTells ==
  ASSUME IInv, ToldInv, ResultInv, Finish
  PROVE  ToldInv' /\ ResultInv'
<1>1. dog.pc = "finish" /\ UNCHANGED <<run, lock, lease, drifted, worker, ends>>
  BY DEF Finish
<1>2. CASE /\ dog' = [dog EXCEPT !.pc = "finally"]
          /\ UNCHANGED faults /\ log' = Fold(log, Outcome)
  <2>1. /\ dog'.pc = "finally" /\ dog'.held = dog.held /\ dog'.releaseFailed = dog.releaseFailed /\ dog'.safe = dog.safe /\ dog'.resumed = dog.resumed
        /\ dog'.refused = dog.refused /\ dog'.after = dog.after /\ dog'.evidence = dog.evidence /\ dog'.error = dog.error
        /\ dog'.out.type = dog.out.type /\ dog'.out.retained = dog.out.retained
    BY Shapes, <1>2 DEF Dogs
  <2>c. UNCHANGED faults /\ log' = Fold(log, Outcome)
    BY <1>2
  <2>2. ToldInv'
    BY Shapes, MoreShapes, <1>1, <2>c, <2>1, OutcomeFolds
       DEF ToldInv, LeaseIsTold, NotYetFailed, Outside, Before, Ending, DogHolds, WorkerHolds, Alive
  <2>3. ResultInv'
    <3>1. ASSUME faults = 0 PROVE OutcomeIsKept' /\ ResultWaits' /\ ChecksAreFinished'
      <4>1. OutcomeIsKept /\ ResultWaits /\ ChecksAreFinished
        BY <3>1 DEF ResultInv
      <4>2. OutcomeIsKept'
        BY <4>1, Shapes, MoreShapes, <1>1, <2>c, <2>1, OutcomeFolds, TerminalsAre
           DEF OutcomeIsKept, OutcomeIsChosen, Answers, ResultWaits
      <4>3. ResultWaits'
        BY <4>1, Shapes, MoreShapes, <1>1, <2>c, <2>1, OutcomeFolds, TerminalsAre
           DEF ResultWaits, OutcomeIsChosen, LaunchMayFollow, OutcomeIsKept, Answers, ChecksAreFinished, DogHolds, WorkerHolds, Alive, Ending
      <4>4. ChecksAreFinished'
        BY <4>1, Shapes, MoreShapes, <1>1, <2>c, <2>1, OutcomeFolds, TerminalsAre
           DEF ChecksAreFinished, DogHolds, WorkerHolds, Alive, Before, Ending
      <4>5. QED
        BY <4>2, <4>3, <4>4
    <3>2. QED
      BY <3>1, <1>1, <1>2 DEF ResultInv
  <2>4. QED
    BY <2>2, <2>3
<1>3. CASE /\ dog' = [dog EXCEPT !.pc = "catch", !.error = dog.wraps]
          /\ Fault /\ log' \in {log, Fold(log, Outcome)}
  <2>1. /\ dog'.pc = "catch" /\ dog'.held = dog.held /\ dog'.releaseFailed = dog.releaseFailed /\ dog'.safe = dog.safe /\ dog'.resumed = dog.resumed
        /\ dog'.refused = dog.refused /\ dog'.after = dog.after /\ dog'.evidence = dog.evidence /\ dog'.error = dog.wraps
        /\ dog'.out.type = dog.out.type /\ dog'.out.retained = dog.out.retained
    BY Shapes, <1>3 DEF Dogs
  <2>c. Fault /\ log' \in {log, Fold(log, Outcome)}
    BY <1>3
  <2>2. ToldInv'
    BY Shapes, MoreShapes, <1>1, <2>c, <2>1, OutcomeFolds
       DEF ToldInv, LeaseIsTold, NotYetFailed, Outside, Before, Ending, DogHolds, WorkerHolds, Alive
  <2>3. ResultInv'
    BY <1>3, FaultForgives
  <2>4. QED
    BY <2>2, <2>3
<1>4. QED
  BY <1>2, <1>3 DEF Finish, Goes, Throws, Appended, NotTold

(* A restart takes the lease again with nothing recorded.                   *)
LEMMA BackoffTells ==
  ASSUME IInv, ToldInv, ResultInv, Backoff
  PROVE  ToldInv' /\ ResultInv'
<1>1. dog.pc = "backoff" /\ UNCHANGED <<run, log, lock, drifted, worker, ends>>
  BY DEF Backoff
<1>2. CASE /\ dog' = [dog EXCEPT !.pc = "top"]
          /\ ends # {} /\ UNCHANGED <<lease, faults>>
  <2>1. /\ dog'.pc = "top" /\ dog'.held = dog.held /\ dog'.releaseFailed = dog.releaseFailed /\ dog'.safe = dog.safe /\ dog'.resumed = dog.resumed
        /\ dog'.refused = dog.refused /\ dog'.after = dog.after /\ dog'.evidence = dog.evidence /\ dog'.error = dog.error
        /\ dog'.out.type = dog.out.type /\ dog'.out.retained = dog.out.retained
    BY Shapes, <1>2 DEF Dogs
  <2>c. ends # {} /\ UNCHANGED <<lease, faults>>
    BY <1>2
  <2>2. ToldInv'
    BY Shapes, MoreShapes, <1>1, <2>c, <2>1
       DEF ToldInv, LeaseIsTold, NotYetFailed, Outside, Before, Ending, DogHolds, WorkerHolds, Alive
  <2>3. ResultInv'
    <3>1. ASSUME faults = 0 PROVE OutcomeIsKept' /\ ResultWaits' /\ ChecksAreFinished'
      <4>1. OutcomeIsKept /\ ResultWaits /\ ChecksAreFinished
        BY <3>1 DEF ResultInv
      <4>2. OutcomeIsKept'
        BY <4>1, Shapes, MoreShapes, <1>1, <2>c, <2>1, TerminalsAre
           DEF OutcomeIsKept, OutcomeIsChosen, Answers, ResultWaits
      <4>3. ResultWaits'
        BY <4>1, Shapes, MoreShapes, <1>1, <2>c, <2>1, TerminalsAre
           DEF ResultWaits, OutcomeIsChosen, LaunchMayFollow, OutcomeIsKept, Answers, ChecksAreFinished, DogHolds, WorkerHolds, Alive, Ending
      <4>4. ChecksAreFinished'
        BY <4>1, Shapes, MoreShapes, <1>1, <2>c, <2>1, TerminalsAre
           DEF ChecksAreFinished, DogHolds, WorkerHolds, Alive, Before, Ending
      <4>5. QED
        BY <4>2, <4>3, <4>4
    <3>2. QED
      BY <3>1, <1>1, <1>2 DEF ResultInv
  <2>4. QED
    BY <2>2, <2>3
<1>3. CASE /\ dog' = [dog EXCEPT !.pc = "catch", !.error = "other"]
          /\ UNCHANGED <<lease, faults>>
  <2>1. /\ dog'.pc = "catch" /\ dog'.held = dog.held /\ dog'.releaseFailed = dog.releaseFailed /\ dog'.safe = dog.safe /\ dog'.resumed = dog.resumed
        /\ dog'.refused = dog.refused /\ dog'.after = dog.after /\ dog'.evidence = dog.evidence /\ dog'.error = "other"
        /\ dog'.out.type = dog.out.type /\ dog'.out.retained = dog.out.retained
    BY Shapes, <1>3 DEF Dogs
  <2>c. UNCHANGED <<lease, faults>>
    BY <1>3
  <2>2. ToldInv'
    BY Shapes, MoreShapes, <1>1, <2>c, <2>1
       DEF ToldInv, LeaseIsTold, NotYetFailed, Outside, Before, Ending, DogHolds, WorkerHolds, Alive
  <2>3. ResultInv'
    <3>1. ASSUME faults = 0 PROVE OutcomeIsKept' /\ ResultWaits' /\ ChecksAreFinished'
      <4>1. OutcomeIsKept /\ ResultWaits /\ ChecksAreFinished
        BY <3>1 DEF ResultInv
      <4>2. OutcomeIsKept'
        BY <4>1, Shapes, MoreShapes, <1>1, <2>c, <2>1, TerminalsAre
           DEF OutcomeIsKept, OutcomeIsChosen, Answers, ResultWaits
      <4>3. ResultWaits'
        BY <4>1, Shapes, MoreShapes, <1>1, <2>c, <2>1, TerminalsAre
           DEF ResultWaits, OutcomeIsChosen, LaunchMayFollow, OutcomeIsKept, Answers, ChecksAreFinished, DogHolds, WorkerHolds, Alive, Ending
      <4>4. ChecksAreFinished'
        BY <4>1, Shapes, MoreShapes, <1>1, <2>c, <2>1, TerminalsAre
           DEF ChecksAreFinished, DogHolds, WorkerHolds, Alive, Before, Ending
      <4>5. QED
        BY <4>2, <4>3, <4>4
    <3>2. QED
      BY <3>1, <1>1, <1>3 DEF ResultInv
  <2>4. QED
    BY <2>2, <2>3
<1>4. CASE /\ dog' = [dog EXCEPT !.pc = "catch", !.error = "other"]
          /\ Fault /\ UNCHANGED lease
  <2>1. /\ dog'.pc = "catch" /\ dog'.held = dog.held /\ dog'.releaseFailed = dog.releaseFailed /\ dog'.safe = dog.safe /\ dog'.resumed = dog.resumed
        /\ dog'.refused = dog.refused /\ dog'.after = dog.after /\ dog'.evidence = dog.evidence /\ dog'.error = "other"
        /\ dog'.out.type = dog.out.type /\ dog'.out.retained = dog.out.retained
    BY Shapes, <1>4 DEF Dogs
  <2>c. Fault /\ UNCHANGED lease
    BY <1>4
  <2>2. ToldInv'
    BY Shapes, MoreShapes, <1>1, <2>c, <2>1
       DEF ToldInv, LeaseIsTold, NotYetFailed, Outside, Before, Ending, DogHolds, WorkerHolds, Alive
  <2>3. ResultInv'
    BY <1>4, FaultForgives
  <2>4. QED
    BY <2>2, <2>3
<1>5. CASE /\ dog' = [dog EXCEPT !.held = TRUE, !.pc = "top", !.restarts = dog.restarts + 1]
          /\ lease = "free" /\ lease' = "run" /\ UNCHANGED faults
  <2>1. /\ dog'.pc = "top" /\ dog'.held = TRUE /\ dog'.releaseFailed = dog.releaseFailed /\ dog'.safe = dog.safe /\ dog'.resumed = dog.resumed
        /\ dog'.refused = dog.refused /\ dog'.after = dog.after /\ dog'.evidence = dog.evidence /\ dog'.error = dog.error
        /\ dog'.out.type = dog.out.type /\ dog'.out.retained = dog.out.retained
    BY Shapes, <1>5 DEF Dogs
  <2>c. lease = "free" /\ lease' = "run" /\ UNCHANGED faults
    BY <1>5
  <2>2. ToldInv'
    BY Shapes, MoreShapes, <1>1, <2>c, <2>1
       DEF ToldInv, LeaseIsTold, NotYetFailed, Outside, Before, Ending, DogHolds, WorkerHolds, Alive
  <2>3. ResultInv'
    <3>1. ASSUME faults = 0 PROVE OutcomeIsKept' /\ ResultWaits' /\ ChecksAreFinished'
      <4>1. OutcomeIsKept /\ ResultWaits /\ ChecksAreFinished
        BY <3>1 DEF ResultInv
      <4>2. OutcomeIsKept'
        BY <4>1, Shapes, MoreShapes, <1>1, <2>c, <2>1, TerminalsAre
           DEF OutcomeIsKept, OutcomeIsChosen, Answers, ResultWaits
      <4>3. ResultWaits'
        BY <4>1, Shapes, MoreShapes, <1>1, <2>c, <2>1, TerminalsAre
           DEF ResultWaits, OutcomeIsChosen, LaunchMayFollow, OutcomeIsKept, Answers, ChecksAreFinished, DogHolds, WorkerHolds, Alive, Ending
      <4>4. ChecksAreFinished'
        BY <4>1, Shapes, MoreShapes, <1>1, <2>c, <2>1, TerminalsAre
           DEF ChecksAreFinished, DogHolds, WorkerHolds, Alive, Before, Ending
      <4>5. QED
        BY <4>2, <4>3, <4>4
    <3>2. QED
      BY <3>1, <1>1, <1>5 DEF ResultInv
  <2>4. QED
    BY <2>2, <2>3
<1>6. CASE /\ dog' = [dog EXCEPT !.held = TRUE, !.pc = "write anchor", !.after = "release", !.evidence = "pending", !.out = Record("paused")]
          /\ lease = "free" /\ lease' = "run" /\ UNCHANGED faults
  <2>1. /\ dog'.pc = "write anchor" /\ dog'.held = TRUE /\ dog'.releaseFailed = dog.releaseFailed /\ dog'.safe = dog.safe /\ dog'.resumed = dog.resumed
        /\ dog'.refused = dog.refused /\ dog'.after = "release" /\ dog'.evidence = "pending" /\ dog'.error = dog.error
        /\ dog'.out.type = "paused" /\ dog'.out.retained = FALSE
    BY Shapes, <1>6, RecordIs DEF Dogs
  <2>c. lease = "free" /\ lease' = "run" /\ UNCHANGED faults
    BY <1>6
  <2>2. ToldInv'
    BY Shapes, MoreShapes, <1>1, <2>c, <2>1
       DEF ToldInv, LeaseIsTold, NotYetFailed, Outside, Before, Ending, DogHolds, WorkerHolds, Alive
  <2>3. ResultInv'
    <3>1. ASSUME faults = 0 PROVE OutcomeIsKept' /\ ResultWaits' /\ ChecksAreFinished'
      <4>1. OutcomeIsKept /\ ResultWaits /\ ChecksAreFinished
        BY <3>1 DEF ResultInv
      <4>2. OutcomeIsKept'
        BY <4>1, Shapes, MoreShapes, <1>1, <2>c, <2>1, TerminalsAre
           DEF OutcomeIsKept, OutcomeIsChosen, Answers, ResultWaits
      <4>3. ResultWaits'
        BY <4>1, Shapes, MoreShapes, <1>1, <2>c, <2>1, TerminalsAre
           DEF ResultWaits, OutcomeIsChosen, LaunchMayFollow, OutcomeIsKept, Answers, ChecksAreFinished, DogHolds, WorkerHolds, Alive, Ending
      <4>4. ChecksAreFinished'
        BY <4>1, Shapes, MoreShapes, <1>1, <2>c, <2>1, TerminalsAre
           DEF ChecksAreFinished, DogHolds, WorkerHolds, Alive, Before, Ending
      <4>5. QED
        BY <4>2, <4>3, <4>4
    <3>2. QED
      BY <3>1, <1>1, <1>6 DEF ResultInv
  <2>4. QED
    BY <2>2, <2>3
<1>7. CASE /\ dog' = [dog EXCEPT !.pc = "catch", !.error = "other"]
          /\ NotAcquired
  <2>1. /\ dog'.pc = "catch" /\ dog'.held = dog.held /\ dog'.releaseFailed = dog.releaseFailed /\ dog'.safe = dog.safe /\ dog'.resumed = dog.resumed
        /\ dog'.refused = dog.refused /\ dog'.after = dog.after /\ dog'.evidence = dog.evidence /\ dog'.error = "other"
        /\ dog'.out.type = dog.out.type /\ dog'.out.retained = dog.out.retained
    BY Shapes, <1>7 DEF Dogs
  <2>2. ToldInv'
    BY Shapes, MoreShapes, <1>1, <1>7, <2>1
       DEF NotAcquired, ToldInv, LeaseIsTold, NotYetFailed, Outside, Before, Ending, DogHolds, WorkerHolds, Alive
  <2>3. ResultInv'
    BY <1>7, FaultForgives DEF NotAcquired
  <2>4. QED
    BY <2>2, <2>3
<1>8. CASE /\ dog' = [dog EXCEPT !.held = TRUE, !.pc = "catch", !.error = "other"]
          /\ lease = "free" /\ lease' = "run" /\ Fault
  <2>1. /\ dog'.pc = "catch" /\ dog'.held = TRUE /\ dog'.releaseFailed = dog.releaseFailed /\ dog'.safe = dog.safe /\ dog'.resumed = dog.resumed
        /\ dog'.refused = dog.refused /\ dog'.after = dog.after /\ dog'.evidence = dog.evidence /\ dog'.error = "other"
        /\ dog'.out.type = dog.out.type /\ dog'.out.retained = dog.out.retained
    BY Shapes, <1>8 DEF Dogs
  <2>2. ToldInv'
    BY Shapes, MoreShapes, <1>1, <1>8, <2>1
       DEF NotAcquired, ToldInv, LeaseIsTold, NotYetFailed, Outside, Before, Ending, DogHolds, WorkerHolds, Alive
  <2>3. ResultInv'
    BY <1>8, FaultForgives DEF NotAcquired
  <2>4. QED
    BY <2>2, <2>3
<1>9. QED
  BY <1>2, <1>3, <1>4, <1>5, <1>6, <1>7, <1>8 DEF Backoff, Goes, Throws

(* A start is of a run that has no records.                                 *)
LEMMA StartTells ==
  ASSUME IInv, ToldInv, ResultInv, Start
  PROVE  ToldInv' /\ ResultInv'
<1>1. dog.pc = "off" /\ run.at = "none" /\ UNCHANGED <<run, log, lock, lease, worker, faults>>
  BY DEF Start
<1>2. CASE /\ dog' = [Idle EXCEPT !.pc = "lock", !.anchor = "ours"]
          /\ ends' = {}
  <2>1. /\ dog'.pc = "lock" /\ dog'.held = FALSE /\ dog'.releaseFailed = FALSE /\ dog'.safe = TRUE /\ dog'.resumed = FALSE
        /\ dog'.refused = FALSE /\ dog'.after = "finish" /\ dog'.evidence = "none" /\ dog'.error = "none"
        /\ dog'.out.type = "none" /\ dog'.out.retained = FALSE
    BY Shapes, <1>2, RecordIs DEF Dogs, Idle
  <2>c. ends' = {}
    BY <1>2
  <2>2. ToldInv'
    BY Shapes, MoreShapes, <1>1, <2>c, <2>1
       DEF ToldInv, LeaseIsTold, NotYetFailed, Outside, Before, Ending, DogHolds, WorkerHolds, Alive
  <2>3. ResultInv'
    <3>1. ASSUME faults = 0 PROVE OutcomeIsKept' /\ ResultWaits' /\ ChecksAreFinished'
      <4>1. OutcomeIsKept /\ ResultWaits /\ ChecksAreFinished
        BY <3>1 DEF ResultInv
      <4>2. OutcomeIsKept'
        BY <4>1, Shapes, MoreShapes, <1>1, <2>c, <2>1, TerminalsAre
           DEF OutcomeIsKept, OutcomeIsChosen, Answers, ResultWaits
      <4>3. ResultWaits'
        BY <4>1, Shapes, MoreShapes, <1>1, <2>c, <2>1, TerminalsAre
           DEF ResultWaits, OutcomeIsChosen, LaunchMayFollow, OutcomeIsKept, Answers, ChecksAreFinished, DogHolds, WorkerHolds, Alive, Ending
      <4>4. ChecksAreFinished'
        BY <4>1, Shapes, MoreShapes, <1>1, <2>c, <2>1, TerminalsAre
           DEF ChecksAreFinished, DogHolds, WorkerHolds, Alive, Before, Ending
      <4>5. QED
        BY <4>2, <4>3, <4>4
    <3>2. QED
      BY <3>1, <1>1, <1>2 DEF ResultInv
  <2>4. QED
    BY <2>2, <2>3
<1>3. QED
  BY <1>2 DEF Start

(* A resume has not looked at the records yet.                              *)
LEMMA ResumeTells ==
  ASSUME NEW target \in 1..MaxPauses, IInv, ToldInv, ResultInv, Resume(target)
  PROVE  ToldInv' /\ ResultInv'
<1>1. dog.pc = "off" /\ UNCHANGED <<run, log, lock, lease, drifted, worker, faults>>
  BY DEF Resume
<1>2. CASE /\ dog' = [Idle EXCEPT !.pc = "lock", !.target = target, !.resumed = TRUE]
          /\ ends' = {}
  <2>1. /\ dog'.pc = "lock" /\ dog'.held = FALSE /\ dog'.releaseFailed = FALSE /\ dog'.safe = TRUE /\ dog'.resumed = TRUE
        /\ dog'.refused = FALSE /\ dog'.after = "finish" /\ dog'.evidence = "none" /\ dog'.error = "none"
        /\ dog'.out.type = "none" /\ dog'.out.retained = FALSE
    BY Shapes, <1>2, RecordIs DEF Dogs, Idle
  <2>c. ends' = {}
    BY <1>2
  <2>2. ToldInv'
    BY Shapes, MoreShapes, <1>1, <2>c, <2>1
       DEF ToldInv, LeaseIsTold, NotYetFailed, Outside, Before, Ending, DogHolds, WorkerHolds, Alive
  <2>3. ResultInv'
    <3>1. ASSUME faults = 0 PROVE OutcomeIsKept' /\ ResultWaits' /\ ChecksAreFinished'
      <4>1. OutcomeIsKept /\ ResultWaits /\ ChecksAreFinished
        BY <3>1 DEF ResultInv
      <4>2. OutcomeIsKept'
        BY <4>1, Shapes, MoreShapes, <1>1, <2>c, <2>1, TerminalsAre
           DEF OutcomeIsKept, OutcomeIsChosen, Answers, ResultWaits
      <4>3. ResultWaits'
        BY <4>1, Shapes, MoreShapes, <1>1, <2>c, <2>1, TerminalsAre
           DEF ResultWaits, OutcomeIsChosen, LaunchMayFollow, OutcomeIsKept, Answers, ChecksAreFinished, DogHolds, WorkerHolds, Alive, Ending
      <4>4. ChecksAreFinished'
        BY <4>1, Shapes, MoreShapes, <1>1, <2>c, <2>1, TerminalsAre
           DEF ChecksAreFinished, DogHolds, WorkerHolds, Alive, Before, Ending
      <4>5. QED
        BY <4>2, <4>3, <4>4
    <3>2. QED
      BY <3>1, <1>1, <1>2 DEF ResultInv
  <2>4. QED
    BY <2>2, <2>3
<1>3. QED
  BY <1>2 DEF Resume

(* Where the lock was free nobody has the lease for this run.               *)
LEMMA LockTells ==
  ASSUME IInv, ToldInv, ResultInv, Lock
  PROVE  ToldInv' /\ ResultInv'
<1>1. dog.pc = "lock" /\ lock' /\ UNCHANGED <<run, log, lease, drifted, worker, ends, faults>>
  BY DEF Lock
<1>2. CASE /\ dog' = Idle
          /\ lock
  <2>1. /\ dog'.pc = "off" /\ dog'.held = FALSE /\ dog'.releaseFailed = FALSE /\ dog'.safe = TRUE /\ dog'.resumed = FALSE
        /\ dog'.refused = FALSE /\ dog'.after = "finish" /\ dog'.evidence = "none" /\ dog'.error = "none"
        /\ dog'.out.type = "none" /\ dog'.out.retained = FALSE
    BY Shapes, <1>2, RecordIs DEF Dogs, Idle
  <2>c. lock
    BY <1>2
  <2>2. ToldInv'
    BY Shapes, MoreShapes, <1>1, <2>c, <2>1
       DEF ToldInv, LeaseIsTold, NotYetFailed, Outside, Before, Ending, DogHolds, WorkerHolds, Alive
  <2>3. ResultInv'
    <3>1. ASSUME faults = 0 PROVE OutcomeIsKept' /\ ResultWaits' /\ ChecksAreFinished'
      <4>1. OutcomeIsKept /\ ResultWaits /\ ChecksAreFinished
        BY <3>1 DEF ResultInv
      <4>2. OutcomeIsKept'
        BY <4>1, Shapes, MoreShapes, <1>1, <2>c, <2>1, TerminalsAre
           DEF OutcomeIsKept, OutcomeIsChosen, Answers, ResultWaits
      <4>3. ResultWaits'
        BY <4>1, Shapes, MoreShapes, <1>1, <2>c, <2>1, TerminalsAre
           DEF ResultWaits, OutcomeIsChosen, LaunchMayFollow, OutcomeIsKept, Answers, ChecksAreFinished, DogHolds, WorkerHolds, Alive, Ending
      <4>4. ChecksAreFinished'
        BY <4>1, Shapes, MoreShapes, <1>1, <2>c, <2>1, TerminalsAre
           DEF ChecksAreFinished, DogHolds, WorkerHolds, Alive, Before, Ending
      <4>5. QED
        BY <4>2, <4>3, <4>4
    <3>2. QED
      BY <3>1, <1>1, <1>2 DEF ResultInv
  <2>4. QED
    BY <2>2, <2>3
<1>3. CASE /\ dog' = [dog EXCEPT !.pc = "check"]
          /\ ~lock /\ dog.resumed
  <2>1. /\ dog'.pc = "check" /\ dog'.held = dog.held /\ dog'.releaseFailed = dog.releaseFailed /\ dog'.safe = dog.safe /\ dog'.resumed = dog.resumed
        /\ dog'.refused = dog.refused /\ dog'.after = dog.after /\ dog'.evidence = dog.evidence /\ dog'.error = dog.error
        /\ dog'.out.type = dog.out.type /\ dog'.out.retained = dog.out.retained
    BY Shapes, <1>3 DEF Dogs
  <2>c. ~lock /\ dog.resumed
    BY <1>3
  <2>2. ToldInv'
    BY Shapes, MoreShapes, <1>1, <2>c, <2>1
       DEF ToldInv, LeaseIsTold, NotYetFailed, Outside, Before, Ending, DogHolds, WorkerHolds, Alive
  <2>3. ResultInv'
    <3>1. ASSUME faults = 0 PROVE OutcomeIsKept' /\ ResultWaits' /\ ChecksAreFinished'
      <4>1. OutcomeIsKept /\ ResultWaits /\ ChecksAreFinished
        BY <3>1 DEF ResultInv
      <4>2. OutcomeIsKept'
        BY <4>1, Shapes, MoreShapes, <1>1, <2>c, <2>1, TerminalsAre
           DEF OutcomeIsKept, OutcomeIsChosen, Answers, ResultWaits
      <4>3. ResultWaits'
        BY <4>1, Shapes, MoreShapes, <1>1, <2>c, <2>1, TerminalsAre
           DEF ResultWaits, OutcomeIsChosen, LaunchMayFollow, OutcomeIsKept, Answers, ChecksAreFinished, DogHolds, WorkerHolds, Alive, Ending
      <4>4. ChecksAreFinished'
        BY <4>1, Shapes, MoreShapes, <1>1, <2>c, <2>1, TerminalsAre
           DEF ChecksAreFinished, DogHolds, WorkerHolds, Alive, Before, Ending
      <4>5. QED
        BY <4>2, <4>3, <4>4
    <3>2. QED
      BY <3>1, <1>1, <1>3 DEF ResultInv
  <2>4. QED
    BY <2>2, <2>3
<1>4. CASE /\ dog' = [dog EXCEPT !.pc = "lease"]
          /\ ~lock /\ ~dog.resumed
  <2>1. /\ dog'.pc = "lease" /\ dog'.held = dog.held /\ dog'.releaseFailed = dog.releaseFailed /\ dog'.safe = dog.safe /\ dog'.resumed = dog.resumed
        /\ dog'.refused = dog.refused /\ dog'.after = dog.after /\ dog'.evidence = dog.evidence /\ dog'.error = dog.error
        /\ dog'.out.type = dog.out.type /\ dog'.out.retained = dog.out.retained
    BY Shapes, <1>4 DEF Dogs
  <2>c. ~lock /\ ~dog.resumed
    BY <1>4
  <2>2. ToldInv'
    BY Shapes, MoreShapes, <1>1, <2>c, <2>1, LockedIs
       DEF ToldInv, LeaseIsTold, NotYetFailed, Outside, Before, Ending, DogHolds, WorkerHolds, Alive
  <2>3. ResultInv'
    <3>1. ASSUME faults = 0 PROVE OutcomeIsKept' /\ ResultWaits' /\ ChecksAreFinished'
      <4>1. OutcomeIsKept /\ ResultWaits /\ ChecksAreFinished
        BY <3>1 DEF ResultInv
      <4>2. OutcomeIsKept'
        BY <4>1, Shapes, MoreShapes, <1>1, <2>c, <2>1, LockedIs, TerminalsAre
           DEF OutcomeIsKept, OutcomeIsChosen, Answers, ResultWaits
      <4>3. ResultWaits'
        BY <4>1, Shapes, MoreShapes, <1>1, <2>c, <2>1, LockedIs, TerminalsAre
           DEF ResultWaits, OutcomeIsChosen, LaunchMayFollow, OutcomeIsKept, Answers, ChecksAreFinished, DogHolds, WorkerHolds, Alive, Ending
      <4>4. ChecksAreFinished'
        BY <4>1, Shapes, MoreShapes, <1>1, <2>c, <2>1, LockedIs, TerminalsAre
           DEF ChecksAreFinished, DogHolds, WorkerHolds, Alive, Before, Ending
      <4>5. QED
        BY <4>2, <4>3, <4>4
    <3>2. QED
      BY <3>1, <1>1, <1>4 DEF ResultInv
  <2>4. QED
    BY <2>2, <2>3
<1>5. QED
  BY <1>2, <1>3, <1>4 DEF Lock, Goes

(* What is resumed is at a pause, and its last record says so.              *)
LEMMA CheckTells ==
  ASSUME IInv, ToldInv, ResultInv, Check
  PROVE  ToldInv' /\ ResultInv'
<1> DEFINE told == [dog EXCEPT !.restarts = RestartsSoFar, !.evidence = log.last.evidence]
<1>1. dog.pc = "check" /\ UNCHANGED <<run, log, lock, lease, drifted, worker, ends>>
  BY DEF Check
<1>2. CASE /\ dog' = [dog EXCEPT !.pc = "give up"]
          /\ UNCHANGED faults
  <2>1. /\ dog'.pc = "give up" /\ dog'.held = dog.held /\ dog'.releaseFailed = dog.releaseFailed /\ dog'.safe = dog.safe /\ dog'.resumed = dog.resumed
        /\ dog'.refused = dog.refused /\ dog'.after = dog.after /\ dog'.evidence = dog.evidence /\ dog'.error = dog.error
        /\ dog'.out.type = dog.out.type /\ dog'.out.retained = dog.out.retained
    BY Shapes, <1>2 DEF Dogs
  <2>c. UNCHANGED faults
    BY <1>2
  <2>2. ToldInv'
    BY Shapes, MoreShapes, <1>1, <2>c, <2>1
       DEF ToldInv, LeaseIsTold, NotYetFailed, Outside, Before, Ending, DogHolds, WorkerHolds, Alive
  <2>3. ResultInv'
    <3>1. ASSUME faults = 0 PROVE OutcomeIsKept' /\ ResultWaits' /\ ChecksAreFinished'
      <4>1. OutcomeIsKept /\ ResultWaits /\ ChecksAreFinished
        BY <3>1 DEF ResultInv
      <4>2. OutcomeIsKept'
        BY <4>1, Shapes, MoreShapes, <1>1, <2>c, <2>1, TerminalsAre
           DEF OutcomeIsKept, OutcomeIsChosen, Answers, ResultWaits
      <4>3. ResultWaits'
        BY <4>1, Shapes, MoreShapes, <1>1, <2>c, <2>1, TerminalsAre
           DEF ResultWaits, OutcomeIsChosen, LaunchMayFollow, OutcomeIsKept, Answers, ChecksAreFinished, DogHolds, WorkerHolds, Alive, Ending
      <4>4. ChecksAreFinished'
        BY <4>1, Shapes, MoreShapes, <1>1, <2>c, <2>1, TerminalsAre
           DEF ChecksAreFinished, DogHolds, WorkerHolds, Alive, Before, Ending
      <4>5. QED
        BY <4>2, <4>3, <4>4
    <3>2. QED
      BY <3>1, <1>1, <1>2 DEF ResultInv
  <2>4. QED
    BY <2>2, <2>3
<1>3. CASE /\ dog' = [told EXCEPT !.anchor = "ours", !.pc = "lease"]
          /\ log.last.type = "paused" /\ run.at \in {"paused", "preflight paused"} /\ UNCHANGED faults
  <2>1. /\ dog'.pc = "lease" /\ dog'.held = dog.held /\ dog'.releaseFailed = dog.releaseFailed /\ dog'.safe = dog.safe /\ dog'.resumed = dog.resumed
        /\ dog'.refused = dog.refused /\ dog'.after = dog.after /\ dog'.evidence = log.last.evidence /\ dog'.error = dog.error
        /\ dog'.out.type = dog.out.type /\ dog'.out.retained = dog.out.retained
    BY Shapes, <1>3 DEF Dogs
  <2>c. log.last.type = "paused" /\ run.at \in {"paused", "preflight paused"} /\ UNCHANGED faults
    BY <1>3
  <2>2. ToldInv'
    BY Shapes, MoreShapes, <1>1, <2>c, <2>1
       DEF ToldInv, LeaseIsTold, NotYetFailed, Outside, Before, Ending, DogHolds, WorkerHolds, Alive
  <2>3. ResultInv'
    <3>1. ASSUME faults = 0 PROVE OutcomeIsKept' /\ ResultWaits' /\ ChecksAreFinished'
      <4>1. OutcomeIsKept /\ ResultWaits /\ ChecksAreFinished
        BY <3>1 DEF ResultInv
      <4>2. OutcomeIsKept'
        BY <4>1, Shapes, MoreShapes, <1>1, <2>c, <2>1, TerminalsAre
           DEF OutcomeIsKept, OutcomeIsChosen, Answers, ResultWaits
      <4>3. ResultWaits'
        BY <4>1, Shapes, MoreShapes, <1>1, <2>c, <2>1, TerminalsAre
           DEF ResultWaits, OutcomeIsChosen, LaunchMayFollow, OutcomeIsKept, Answers, ChecksAreFinished, DogHolds, WorkerHolds, Alive, Ending
      <4>4. ChecksAreFinished'
        BY <4>1, Shapes, MoreShapes, <1>1, <2>c, <2>1, TerminalsAre
           DEF ChecksAreFinished, DogHolds, WorkerHolds, Alive, Before, Ending
      <4>5. QED
        BY <4>2, <4>3, <4>4
    <3>2. QED
      BY <3>1, <1>1, <1>3 DEF ResultInv
  <2>4. QED
    BY <2>2, <2>3
<1>4. CASE /\ dog' = [told EXCEPT !.refused = TRUE, !.pc = "top", !.out = Record("paused")]
          /\ log.last.type = "paused" /\ run.at \in {"paused", "preflight paused"} /\ UNCHANGED faults
  <2>1. /\ dog'.pc = "top" /\ dog'.held = dog.held /\ dog'.releaseFailed = dog.releaseFailed /\ dog'.safe = dog.safe /\ dog'.resumed = dog.resumed
        /\ dog'.refused = TRUE /\ dog'.after = dog.after /\ dog'.evidence = log.last.evidence /\ dog'.error = dog.error
        /\ dog'.out.type = "paused" /\ dog'.out.retained = FALSE
    BY Shapes, <1>4, RecordIs DEF Dogs
  <2>c. log.last.type = "paused" /\ run.at \in {"paused", "preflight paused"} /\ UNCHANGED faults
    BY <1>4
  <2>2. ToldInv'
    BY Shapes, MoreShapes, <1>1, <2>c, <2>1
       DEF ToldInv, LeaseIsTold, NotYetFailed, Outside, Before, Ending, DogHolds, WorkerHolds, Alive
  <2>3. ResultInv'
    <3>1. ASSUME faults = 0 PROVE OutcomeIsKept' /\ ResultWaits' /\ ChecksAreFinished'
      <4>1. OutcomeIsKept /\ ResultWaits /\ ChecksAreFinished
        BY <3>1 DEF ResultInv
      <4>2. OutcomeIsKept'
        BY <4>1, Shapes, MoreShapes, <1>1, <2>c, <2>1, TerminalsAre
           DEF OutcomeIsKept, OutcomeIsChosen, Answers, ResultWaits
      <4>3. ResultWaits'
        BY <4>1, Shapes, MoreShapes, <1>1, <2>c, <2>1, TerminalsAre
           DEF ResultWaits, OutcomeIsChosen, LaunchMayFollow, OutcomeIsKept, Answers, ChecksAreFinished, DogHolds, WorkerHolds, Alive, Ending
      <4>4. ChecksAreFinished'
        BY <4>1, Shapes, MoreShapes, <1>1, <2>c, <2>1, TerminalsAre
           DEF ChecksAreFinished, DogHolds, WorkerHolds, Alive, Before, Ending
      <4>5. QED
        BY <4>2, <4>3, <4>4
    <3>2. QED
      BY <3>1, <1>1, <1>4 DEF ResultInv
  <2>4. QED
    BY <2>2, <2>3
<1>5. CASE /\ dog' = [told EXCEPT !.refused = TRUE, !.pc = "top", !.out = Record("paused")]
          /\ Fault /\ log.last.type = "paused" /\ run.at \in {"paused", "preflight paused"}
  <2>1. /\ dog'.pc = "top" /\ dog'.held = dog.held /\ dog'.releaseFailed = dog.releaseFailed /\ dog'.safe = dog.safe /\ dog'.resumed = dog.resumed
        /\ dog'.refused = TRUE /\ dog'.after = dog.after /\ dog'.evidence = log.last.evidence /\ dog'.error = dog.error
        /\ dog'.out.type = "paused" /\ dog'.out.retained = FALSE
    BY Shapes, <1>5, RecordIs DEF Dogs
  <2>c. Fault /\ log.last.type = "paused" /\ run.at \in {"paused", "preflight paused"}
    BY <1>5
  <2>2. ToldInv'
    BY Shapes, MoreShapes, <1>1, <2>c, <2>1
       DEF ToldInv, LeaseIsTold, NotYetFailed, Outside, Before, Ending, DogHolds, WorkerHolds, Alive
  <2>3. ResultInv'
    BY <1>5, FaultForgives
  <2>4. QED
    BY <2>2, <2>3
<1>6. told.evidence \in {"none", "pending", "saved"}
  BY Shapes DEF Dogs, Evidence
<1>7. CASE ~Resumable
  BY <1>2, <1>7 DEF Check
<1>8. CASE Resumable
  <2>1. log.last.type = "paused" /\ run.at \in {"paused", "preflight paused"}
    BY <1>8 DEF Resumable, Paused
  <2>2. /\ (UNCHANGED faults \/ Fault)
        /\ \/ dog' = [told EXCEPT !.refused = TRUE, !.pc = "top", !.out = Record("paused")]
           \/ UNCHANGED faults /\ dog' = [told EXCEPT !.anchor = "ours", !.pc = "lease"]
    BY <1>6, <1>8 DEF Check
  <2>3. QED
    BY <1>3, <1>4, <1>5, <2>1, <2>2
<1>9. QED
  BY <1>7, <1>8

(* The lease is taken with the records as they were read.                   *)
LEMMA LeaseTells ==
  ASSUME IInv, ToldInv, ResultInv, Lease
  PROVE  ToldInv' /\ ResultInv'
<1>1. dog.pc = "lease" /\ UNCHANGED <<run, log, lock, drifted, worker, ends>>
  BY DEF Lease
<1>2. CASE /\ dog' = [dog EXCEPT !.pc = "give up"]
          /\ lease # "free" /\ UNCHANGED <<lease, faults>>
  <2>1. /\ dog'.pc = "give up" /\ dog'.held = dog.held /\ dog'.releaseFailed = dog.releaseFailed /\ dog'.safe = dog.safe /\ dog'.resumed = dog.resumed
        /\ dog'.refused = dog.refused /\ dog'.after = dog.after /\ dog'.evidence = dog.evidence /\ dog'.error = dog.error
        /\ dog'.out.type = dog.out.type /\ dog'.out.retained = dog.out.retained
    BY Shapes, <1>2 DEF Dogs
  <2>c. lease # "free" /\ UNCHANGED <<lease, faults>>
    BY <1>2
  <2>2. ToldInv'
    BY Shapes, MoreShapes, <1>1, <2>c, <2>1
       DEF ToldInv, LeaseIsTold, NotYetFailed, Outside, Before, Ending, DogHolds, WorkerHolds, Alive
  <2>3. ResultInv'
    <3>1. ASSUME faults = 0 PROVE OutcomeIsKept' /\ ResultWaits' /\ ChecksAreFinished'
      <4>1. OutcomeIsKept /\ ResultWaits /\ ChecksAreFinished
        BY <3>1 DEF ResultInv
      <4>2. OutcomeIsKept'
        BY <4>1, Shapes, MoreShapes, <1>1, <2>c, <2>1, TerminalsAre
           DEF OutcomeIsKept, OutcomeIsChosen, Answers, ResultWaits
      <4>3. ResultWaits'
        BY <4>1, Shapes, MoreShapes, <1>1, <2>c, <2>1, TerminalsAre
           DEF ResultWaits, OutcomeIsChosen, LaunchMayFollow, OutcomeIsKept, Answers, ChecksAreFinished, DogHolds, WorkerHolds, Alive, Ending
      <4>4. ChecksAreFinished'
        BY <4>1, Shapes, MoreShapes, <1>1, <2>c, <2>1, TerminalsAre
           DEF ChecksAreFinished, DogHolds, WorkerHolds, Alive, Before, Ending
      <4>5. QED
        BY <4>2, <4>3, <4>4
    <3>2. QED
      BY <3>1, <1>1, <1>2 DEF ResultInv
  <2>4. QED
    BY <2>2, <2>3
<1>3. CASE /\ dog' = [dog EXCEPT !.pc = "give up"]
          /\ NotAcquired
  <2>1. /\ dog'.pc = "give up" /\ dog'.held = dog.held /\ dog'.releaseFailed = dog.releaseFailed /\ dog'.safe = dog.safe /\ dog'.resumed = dog.resumed
        /\ dog'.refused = dog.refused /\ dog'.after = dog.after /\ dog'.evidence = dog.evidence /\ dog'.error = dog.error
        /\ dog'.out.type = dog.out.type /\ dog'.out.retained = dog.out.retained
    BY Shapes, <1>3 DEF Dogs
  <2>2. ToldInv'
    BY Shapes, MoreShapes, <1>1, <1>3, <2>1
       DEF NotAcquired, ToldInv, LeaseIsTold, NotYetFailed, Outside, Before, Ending, DogHolds, WorkerHolds, Alive
  <2>3. ResultInv'
    BY <1>3, FaultForgives DEF NotAcquired
  <2>4. QED
    BY <2>2, <2>3
<1>4. CASE /\ dog' = [dog EXCEPT !.held = TRUE, !.pc = IF dog.resumed THEN "top" ELSE "store"]
          /\ lease' = "run" /\ UNCHANGED faults
  <2>1. /\ dog'.pc = (IF dog.resumed THEN "top" ELSE "store") /\ dog'.held = TRUE /\ dog'.releaseFailed = dog.releaseFailed /\ dog'.safe = dog.safe /\ dog'.resumed = dog.resumed
        /\ dog'.refused = dog.refused /\ dog'.after = dog.after /\ dog'.evidence = dog.evidence /\ dog'.error = dog.error
        /\ dog'.out.type = dog.out.type /\ dog'.out.retained = dog.out.retained
    BY Shapes, <1>4 DEF Dogs
  <2>c. lease' = "run" /\ UNCHANGED faults
    BY <1>4
  <2>2. ToldInv'
    BY Shapes, MoreShapes, <1>1, <2>c, <2>1
       DEF ToldInv, LeaseIsTold, NotYetFailed, Outside, Before, Ending, DogHolds, WorkerHolds, Alive
  <2>3. ResultInv'
    <3>1. ASSUME faults = 0 PROVE OutcomeIsKept' /\ ResultWaits' /\ ChecksAreFinished'
      <4>1. OutcomeIsKept /\ ResultWaits /\ ChecksAreFinished
        BY <3>1 DEF ResultInv
      <4>2. OutcomeIsKept'
        BY <4>1, Shapes, MoreShapes, <1>1, <2>c, <2>1, TerminalsAre
           DEF OutcomeIsKept, OutcomeIsChosen, Answers, ResultWaits
      <4>3. ResultWaits'
        BY <4>1, Shapes, MoreShapes, <1>1, <2>c, <2>1, TerminalsAre
           DEF ResultWaits, OutcomeIsChosen, LaunchMayFollow, OutcomeIsKept, Answers, ChecksAreFinished, DogHolds, WorkerHolds, Alive, Ending
      <4>4. ChecksAreFinished'
        BY <4>1, Shapes, MoreShapes, <1>1, <2>c, <2>1, TerminalsAre
           DEF ChecksAreFinished, DogHolds, WorkerHolds, Alive, Before, Ending
      <4>5. QED
        BY <4>2, <4>3, <4>4
    <3>2. QED
      BY <3>1, <1>1, <1>4 DEF ResultInv
  <2>4. QED
    BY <2>2, <2>3
<1>5. CASE /\ dog' = [dog EXCEPT !.held = TRUE, !.refused = TRUE, !.pc = "top", !.out = Record("paused")]
          /\ lease' = "run" /\ dog.resumed /\ UNCHANGED faults
  <2>1. /\ dog'.pc = "top" /\ dog'.held = TRUE /\ dog'.releaseFailed = dog.releaseFailed /\ dog'.safe = dog.safe /\ dog'.resumed = dog.resumed
        /\ dog'.refused = TRUE /\ dog'.after = dog.after /\ dog'.evidence = dog.evidence /\ dog'.error = dog.error
        /\ dog'.out.type = "paused" /\ dog'.out.retained = FALSE
    BY Shapes, <1>5, RecordIs DEF Dogs
  <2>c. lease' = "run" /\ dog.resumed /\ UNCHANGED faults
    BY <1>5
  <2>2. ToldInv'
    BY Shapes, MoreShapes, <1>1, <2>c, <2>1
       DEF ToldInv, LeaseIsTold, NotYetFailed, Outside, Before, Ending, DogHolds, WorkerHolds, Alive
  <2>3. ResultInv'
    <3>1. ASSUME faults = 0 PROVE OutcomeIsKept' /\ ResultWaits' /\ ChecksAreFinished'
      <4>1. OutcomeIsKept /\ ResultWaits /\ ChecksAreFinished
        BY <3>1 DEF ResultInv
      <4>2. OutcomeIsKept'
        BY <4>1, Shapes, MoreShapes, <1>1, <2>c, <2>1, TerminalsAre
           DEF OutcomeIsKept, OutcomeIsChosen, Answers, ResultWaits
      <4>3. ResultWaits'
        BY <4>1, Shapes, MoreShapes, <1>1, <2>c, <2>1, TerminalsAre
           DEF ResultWaits, OutcomeIsChosen, LaunchMayFollow, OutcomeIsKept, Answers, ChecksAreFinished, DogHolds, WorkerHolds, Alive, Ending
      <4>4. ChecksAreFinished'
        BY <4>1, Shapes, MoreShapes, <1>1, <2>c, <2>1, TerminalsAre
           DEF ChecksAreFinished, DogHolds, WorkerHolds, Alive, Before, Ending
      <4>5. QED
        BY <4>2, <4>3, <4>4
    <3>2. QED
      BY <3>1, <1>1, <1>5 DEF ResultInv
  <2>4. QED
    BY <2>2, <2>3
<1>6. CASE /\ dog' = [dog EXCEPT !.held = TRUE, !.pc = "give up"]
          /\ lease' = "run" /\ UNCHANGED faults
  <2>1. /\ dog'.pc = "give up" /\ dog'.held = TRUE /\ dog'.releaseFailed = dog.releaseFailed /\ dog'.safe = dog.safe /\ dog'.resumed = dog.resumed
        /\ dog'.refused = dog.refused /\ dog'.after = dog.after /\ dog'.evidence = dog.evidence /\ dog'.error = dog.error
        /\ dog'.out.type = dog.out.type /\ dog'.out.retained = dog.out.retained
    BY Shapes, <1>6 DEF Dogs
  <2>c. lease' = "run" /\ UNCHANGED faults
    BY <1>6
  <2>2. ToldInv'
    BY Shapes, MoreShapes, <1>1, <2>c, <2>1
       DEF ToldInv, LeaseIsTold, NotYetFailed, Outside, Before, Ending, DogHolds, WorkerHolds, Alive
  <2>3. ResultInv'
    <3>1. ASSUME faults = 0 PROVE OutcomeIsKept' /\ ResultWaits' /\ ChecksAreFinished'
      <4>1. OutcomeIsKept /\ ResultWaits /\ ChecksAreFinished
        BY <3>1 DEF ResultInv
      <4>2. OutcomeIsKept'
        BY <4>1, Shapes, MoreShapes, <1>1, <2>c, <2>1, TerminalsAre
           DEF OutcomeIsKept, OutcomeIsChosen, Answers, ResultWaits
      <4>3. ResultWaits'
        BY <4>1, Shapes, MoreShapes, <1>1, <2>c, <2>1, TerminalsAre
           DEF ResultWaits, OutcomeIsChosen, LaunchMayFollow, OutcomeIsKept, Answers, ChecksAreFinished, DogHolds, WorkerHolds, Alive, Ending
      <4>4. ChecksAreFinished'
        BY <4>1, Shapes, MoreShapes, <1>1, <2>c, <2>1, TerminalsAre
           DEF ChecksAreFinished, DogHolds, WorkerHolds, Alive, Before, Ending
      <4>5. QED
        BY <4>2, <4>3, <4>4
    <3>2. QED
      BY <3>1, <1>1, <1>6 DEF ResultInv
  <2>4. QED
    BY <2>2, <2>3
<1>7. CASE /\ dog' = [dog EXCEPT !.held = TRUE, !.pc = "give up"]
          /\ lease' = "run" /\ Fault
  <2>1. /\ dog'.pc = "give up" /\ dog'.held = TRUE /\ dog'.releaseFailed = dog.releaseFailed /\ dog'.safe = dog.safe /\ dog'.resumed = dog.resumed
        /\ dog'.refused = dog.refused /\ dog'.after = dog.after /\ dog'.evidence = dog.evidence /\ dog'.error = dog.error
        /\ dog'.out.type = dog.out.type /\ dog'.out.retained = dog.out.retained
    BY Shapes, <1>7 DEF Dogs
  <2>2. ToldInv'
    BY Shapes, MoreShapes, <1>1, <1>7, <2>1
       DEF NotAcquired, ToldInv, LeaseIsTold, NotYetFailed, Outside, Before, Ending, DogHolds, WorkerHolds, Alive
  <2>3. ResultInv'
    BY <1>7, FaultForgives DEF NotAcquired
  <2>4. QED
    BY <2>2, <2>3
<1>8. QED
  BY <1>2, <1>3, <1>4, <1>5, <1>6, <1>7 DEF Lease, Goes

(* A stored run has no records yet.                                         *)
LEMMA StoreTells ==
  ASSUME IInv, ToldInv, ResultInv, Store
  PROVE  ToldInv' /\ ResultInv'
<1>1. dog.pc = "store" /\ UNCHANGED <<log, lock, lease, drifted, worker, ends>>
  BY DEF Store
<1>a. log.result = "none"
  BY <1>1 DEF ToldInv, NotYetFailed
<1>2. CASE /\ dog' = [dog EXCEPT !.pc = "top"]
          /\ run'.at \in {"unchecked", "open"} /\ UNCHANGED faults
  <2>1. /\ dog'.pc = "top" /\ dog'.held = dog.held /\ dog'.releaseFailed = dog.releaseFailed /\ dog'.safe = dog.safe /\ dog'.resumed = dog.resumed
        /\ dog'.refused = dog.refused /\ dog'.after = dog.after /\ dog'.evidence = dog.evidence /\ dog'.error = dog.error
        /\ dog'.out.type = dog.out.type /\ dog'.out.retained = dog.out.retained
    BY Shapes, <1>2 DEF Dogs
  <2>c. run'.at \in {"unchecked", "open"} /\ UNCHANGED faults
    BY <1>2
  <2>2. ToldInv'
    BY Shapes, MoreShapes, <1>1, <2>c, <2>1
       DEF ToldInv, LeaseIsTold, NotYetFailed, Outside, Before, Ending, DogHolds, WorkerHolds, Alive
  <2>3. ResultInv'
    <3>1. ASSUME faults = 0 PROVE OutcomeIsKept' /\ ResultWaits' /\ ChecksAreFinished'
      <4>1. OutcomeIsKept /\ ResultWaits /\ ChecksAreFinished
        BY <3>1 DEF ResultInv
      <4>2. OutcomeIsKept'
        BY <4>1, <1>1, <1>a DEF OutcomeIsKept
      <4>3. ResultWaits'
        BY <4>1, Shapes, MoreShapes, <1>1, <2>c, <2>1, TerminalsAre
           DEF ResultWaits, OutcomeIsChosen, LaunchMayFollow, OutcomeIsKept, Answers, ChecksAreFinished, DogHolds, WorkerHolds, Alive, Ending
      <4>4. ChecksAreFinished'
        BY <4>1, Shapes, MoreShapes, <1>1, <2>c, <2>1, TerminalsAre
           DEF ChecksAreFinished, DogHolds, WorkerHolds, Alive, Before, Ending
      <4>5. QED
        BY <4>2, <4>3, <4>4
    <3>2. QED
      BY <3>1, <1>1, <1>2 DEF ResultInv
  <2>4. QED
    BY <2>2, <2>3
<1>3. CASE /\ dog' = [dog EXCEPT !.pc = "give up"]
          /\ Fault /\ (UNCHANGED run \/ run'.at \in {"unchecked", "open"})
  <2>1. /\ dog'.pc = "give up" /\ dog'.held = dog.held /\ dog'.releaseFailed = dog.releaseFailed /\ dog'.safe = dog.safe /\ dog'.resumed = dog.resumed
        /\ dog'.refused = dog.refused /\ dog'.after = dog.after /\ dog'.evidence = dog.evidence /\ dog'.error = dog.error
        /\ dog'.out.type = dog.out.type /\ dog'.out.retained = dog.out.retained
    BY Shapes, <1>3 DEF Dogs
  <2>c. Fault /\ (UNCHANGED run \/ run'.at \in {"unchecked", "open"})
    BY <1>3
  <2>2. ToldInv'
    BY Shapes, MoreShapes, <1>1, <2>c, <2>1
       DEF ToldInv, LeaseIsTold, NotYetFailed, Outside, Before, Ending, DogHolds, WorkerHolds, Alive
  <2>3. ResultInv'
    BY <1>3, FaultForgives
  <2>4. QED
    BY <2>2, <2>3
<1>4. ASSUME NEW r, r = [run EXCEPT !.at = IF HasPreflight THEN "unchecked" ELSE "open"]
      PROVE  r.at \in {"unchecked", "open"}
  BY <1>4, MoreShapes DEF Runs
<1>5. QED
  BY <1>2, <1>3, <1>4 DEF Store, Goes

(* A lease that could not be given back keeps the lock, and no failure was  *)
(* recorded yet.                                                            *)
LEMMA GiveUpTells ==
  ASSUME IInv, ToldInv, ResultInv, GiveUp
  PROVE  ToldInv' /\ ResultInv'
<1>1. dog.pc = "give up" /\ UNCHANGED <<run, log, drifted, worker, ends>>
  BY DEF GiveUp
<1>2. CASE /\ dog' = Idle
          /\ lease' = (IF dog.held THEN "free" ELSE lease) /\ UNCHANGED faults
  <2>1. /\ dog'.pc = "off" /\ dog'.held = FALSE /\ dog'.releaseFailed = FALSE /\ dog'.safe = TRUE /\ dog'.resumed = FALSE
        /\ dog'.refused = FALSE /\ dog'.after = "finish" /\ dog'.evidence = "none" /\ dog'.error = "none"
        /\ dog'.out.type = "none" /\ dog'.out.retained = FALSE
    BY Shapes, <1>2, RecordIs DEF Dogs, Idle
  <2>c. lease' = (IF dog.held THEN "free" ELSE lease) /\ UNCHANGED faults
    BY <1>2
  <2>2. ToldInv'
    BY Shapes, MoreShapes, <1>1, <2>c, <2>1
       DEF ToldInv, LeaseIsTold, NotYetFailed, Outside, Before, Ending, DogHolds, WorkerHolds, Alive
  <2>3. ResultInv'
    <3>1. ASSUME faults = 0 PROVE OutcomeIsKept' /\ ResultWaits' /\ ChecksAreFinished'
      <4>1. OutcomeIsKept /\ ResultWaits /\ ChecksAreFinished
        BY <3>1 DEF ResultInv
      <4>2. OutcomeIsKept'
        BY <4>1, Shapes, MoreShapes, <1>1, <2>c, <2>1, TerminalsAre
           DEF OutcomeIsKept, OutcomeIsChosen, Answers, ResultWaits
      <4>3. ResultWaits'
        BY <4>1, Shapes, MoreShapes, <1>1, <2>c, <2>1, TerminalsAre
           DEF ResultWaits, OutcomeIsChosen, LaunchMayFollow, OutcomeIsKept, Answers, ChecksAreFinished, DogHolds, WorkerHolds, Alive, Ending
      <4>4. ChecksAreFinished'
        BY <4>1, Shapes, MoreShapes, <1>1, <2>c, <2>1, TerminalsAre
           DEF ChecksAreFinished, DogHolds, WorkerHolds, Alive, Before, Ending
      <4>5. QED
        BY <4>2, <4>3, <4>4
    <3>2. QED
      BY <3>1, <1>1, <1>2 DEF ResultInv
  <2>4. QED
    BY <2>2, <2>3
<1>3. CASE /\ dog' = Idle
          /\ Fault /\ dog.held /\ lease' \in {"run", "free"} /\ UNCHANGED lock
  <2>1. /\ dog'.pc = "off" /\ dog'.held = FALSE /\ dog'.releaseFailed = FALSE /\ dog'.safe = TRUE /\ dog'.resumed = FALSE
        /\ dog'.refused = FALSE /\ dog'.after = "finish" /\ dog'.evidence = "none" /\ dog'.error = "none"
        /\ dog'.out.type = "none" /\ dog'.out.retained = FALSE
    BY Shapes, <1>3, RecordIs DEF Dogs, Idle
  <2>c. Fault /\ dog.held /\ lease' \in {"run", "free"} /\ UNCHANGED lock
    BY <1>3
  <2>2. ToldInv'
    BY Shapes, MoreShapes, <1>1, <2>c, <2>1
       DEF ToldInv, LeaseIsTold, NotYetFailed, Outside, Before, Ending, DogHolds, WorkerHolds, Alive
  <2>3. ResultInv'
    BY <1>3, FaultForgives
  <2>4. QED
    BY <2>2, <2>3
<1>4. QED
  BY <1>2, <1>3 DEF GiveUp

(* The lock stays with a lease that stays.                                  *)
LEMMA FinallyTells ==
  ASSUME IInv, ToldInv, ResultInv, Finally
  PROVE  ToldInv' /\ ResultInv'
<1>1. dog.pc = "finally" /\ UNCHANGED <<run, log, lease, drifted, worker, ends, faults>>
  BY DEF Finally
<1>2. CASE /\ dog' = Idle
          /\ lock' = ~(dog.safe /\ ~dog.releaseFailed)
  <2>1. /\ dog'.pc = "off" /\ dog'.held = FALSE /\ dog'.releaseFailed = FALSE /\ dog'.safe = TRUE /\ dog'.resumed = FALSE
        /\ dog'.refused = FALSE /\ dog'.after = "finish" /\ dog'.evidence = "none" /\ dog'.error = "none"
        /\ dog'.out.type = "none" /\ dog'.out.retained = FALSE
    BY Shapes, <1>2, RecordIs DEF Dogs, Idle
  <2>c. lock' = ~(dog.safe /\ ~dog.releaseFailed)
    BY <1>2
  <2>2. ToldInv'
    BY Shapes, MoreShapes, <1>1, <2>c, <2>1
       DEF ToldInv, LeaseIsTold, NotYetFailed, Outside, Before, Ending, DogHolds, WorkerHolds, Alive
  <2>3. ResultInv'
    <3>1. ASSUME faults = 0 PROVE OutcomeIsKept' /\ ResultWaits' /\ ChecksAreFinished'
      <4>1. OutcomeIsKept /\ ResultWaits /\ ChecksAreFinished
        BY <3>1 DEF ResultInv
      <4>2. OutcomeIsKept'
        BY <4>1, Shapes, MoreShapes, <1>1, <2>c, <2>1, TerminalsAre
           DEF OutcomeIsKept, OutcomeIsChosen, Answers, ResultWaits
      <4>3. ResultWaits'
        BY <4>1, Shapes, MoreShapes, <1>1, <2>c, <2>1, TerminalsAre
           DEF ResultWaits, OutcomeIsChosen, LaunchMayFollow, OutcomeIsKept, Answers, ChecksAreFinished, DogHolds, WorkerHolds, Alive, Ending
      <4>4. ChecksAreFinished'
        BY <4>1, Shapes, MoreShapes, <1>1, <2>c, <2>1, TerminalsAre
           DEF ChecksAreFinished, DogHolds, WorkerHolds, Alive, Before, Ending
      <4>5. QED
        BY <4>2, <4>3, <4>4
    <3>2. QED
      BY <3>1, <1>1, <1>2 DEF ResultInv
  <2>4. QED
    BY <2>2, <2>3
<1>3. QED
  BY <1>2 DEF Finally

(* A watchdog that dies says nothing.                                       *)
LEMMA DieTells ==
  ASSUME IInv, ToldInv, ResultInv, Die
  PROVE  ToldInv' /\ ResultInv'
<1>1. dog.pc \notin {"off", "dead"} /\ UNCHANGED <<run, log, lock, lease, drifted, worker, ends, faults>>
  BY DEF Die
<1>2. CASE /\ dog' = [Idle EXCEPT !.pc = "dead"]
          /\ UNCHANGED faults
  <2>1. /\ dog'.pc = "dead" /\ dog'.held = FALSE /\ dog'.releaseFailed = FALSE /\ dog'.safe = TRUE /\ dog'.resumed = FALSE
        /\ dog'.refused = FALSE /\ dog'.after = "finish" /\ dog'.evidence = "none" /\ dog'.error = "none"
        /\ dog'.out.type = "none" /\ dog'.out.retained = FALSE
    BY Shapes, <1>2, RecordIs DEF Dogs, Idle
  <2>c. UNCHANGED faults
    BY <1>2
  <2>2. ToldInv'
    BY Shapes, MoreShapes, <1>1, <2>c, <2>1
       DEF ToldInv, LeaseIsTold, NotYetFailed, Outside, Before, Ending, DogHolds, WorkerHolds, Alive
  <2>3. ResultInv'
    <3>1. ASSUME faults = 0 PROVE OutcomeIsKept' /\ ResultWaits' /\ ChecksAreFinished'
      <4>1. OutcomeIsKept /\ ResultWaits /\ ChecksAreFinished
        BY <3>1 DEF ResultInv
      <4>2. OutcomeIsKept'
        BY <4>1, Shapes, MoreShapes, <1>1, <2>c, <2>1, TerminalsAre
           DEF OutcomeIsKept, OutcomeIsChosen, Answers, ResultWaits
      <4>3. ResultWaits'
        BY <4>1, Shapes, MoreShapes, <1>1, <2>c, <2>1, TerminalsAre
           DEF ResultWaits, OutcomeIsChosen, LaunchMayFollow, OutcomeIsKept, Answers, ChecksAreFinished, DogHolds, WorkerHolds, Alive, Ending
      <4>4. ChecksAreFinished'
        BY <4>1, Shapes, MoreShapes, <1>1, <2>c, <2>1, TerminalsAre
           DEF ChecksAreFinished, DogHolds, WorkerHolds, Alive, Before, Ending
      <4>5. QED
        BY <4>2, <4>3, <4>4
    <3>2. QED
      BY <3>1, <1>1, <1>2 DEF ResultInv
  <2>4. QED
    BY <2>2, <2>3
<1>3. QED
  BY <1>2 DEF Die

(* The record of a failure says that the lease is retained when it is.      *)
LEMMA EndFailedTells ==
  ASSUME IInv, ToldInv, ResultInv, EndFailed
  PROVE  ToldInv' /\ ResultInv'
<1>1. dog.pc = "end failed" /\ UNCHANGED <<run, lock, lease, drifted, worker, ends>>
  BY DEF EndFailed
<1>2. CASE /\ dog' = [dog EXCEPT !.pc = "finally"]
          /\ UNCHANGED faults /\ log' = Fold(log, dog.out)
  <2>1. /\ dog'.pc = "finally" /\ dog'.held = dog.held /\ dog'.releaseFailed = dog.releaseFailed /\ dog'.safe = dog.safe /\ dog'.resumed = dog.resumed
        /\ dog'.refused = dog.refused /\ dog'.after = dog.after /\ dog'.evidence = dog.evidence /\ dog'.error = dog.error
        /\ dog'.out.type = dog.out.type /\ dog'.out.retained = dog.out.retained
    BY Shapes, <1>2 DEF Dogs
  <2>c. UNCHANGED faults /\ log' = Fold(log, dog.out)
    BY <1>2
  <2>2. ToldInv'
    BY Shapes, MoreShapes, <1>1, <2>c, <2>1, OutFolds
       DEF ToldInv, LeaseIsTold, NotYetFailed, Outside, Before, Ending, DogHolds, WorkerHolds, Alive
  <2>3. ResultInv'
    <3>1. ASSUME faults = 0 PROVE OutcomeIsKept' /\ ResultWaits' /\ ChecksAreFinished'
      <4>1. OutcomeIsKept /\ ResultWaits /\ ChecksAreFinished
        BY <3>1 DEF ResultInv
      <4>2. OutcomeIsKept'
        BY <4>1, Shapes, MoreShapes, <1>1, <2>c, <2>1, OutFolds, TerminalsAre, PausedIs
           DEF OutcomeIsKept, OutcomeIsChosen, Answers, ResultWaits
      <4>3. ResultWaits'
        BY <4>1, Shapes, MoreShapes, <1>1, <2>c, <2>1, OutFolds, TerminalsAre
           DEF ResultWaits, OutcomeIsChosen, LaunchMayFollow, OutcomeIsKept, Answers, ChecksAreFinished, DogHolds, WorkerHolds, Alive, Ending
      <4>4. ChecksAreFinished'
        BY <4>1, Shapes, MoreShapes, <1>1, <2>c, <2>1, OutFolds, TerminalsAre
           DEF ChecksAreFinished, DogHolds, WorkerHolds, Alive, Before, Ending
      <4>5. QED
        BY <4>2, <4>3, <4>4
    <3>2. QED
      BY <3>1, <1>1, <1>2 DEF ResultInv
  <2>4. QED
    BY <2>2, <2>3
<1>3. CASE /\ dog' = [dog EXCEPT !.pc = "finally"]
          /\ Fault /\ log' \in {log, Fold(log, dog.out)}
  <2>1. /\ dog'.pc = "finally" /\ dog'.held = dog.held /\ dog'.releaseFailed = dog.releaseFailed /\ dog'.safe = dog.safe /\ dog'.resumed = dog.resumed
        /\ dog'.refused = dog.refused /\ dog'.after = dog.after /\ dog'.evidence = dog.evidence /\ dog'.error = dog.error
        /\ dog'.out.type = dog.out.type /\ dog'.out.retained = dog.out.retained
    BY Shapes, <1>3 DEF Dogs
  <2>c. Fault /\ log' \in {log, Fold(log, dog.out)}
    BY <1>3
  <2>2. ToldInv'
    BY Shapes, MoreShapes, <1>1, <2>c, <2>1, OutFolds
       DEF ToldInv, LeaseIsTold, NotYetFailed, Outside, Before, Ending, DogHolds, WorkerHolds, Alive
  <2>3. ResultInv'
    BY <1>3, FaultForgives
  <2>4. QED
    BY <2>2, <2>3
<1>4. QED
  BY <1>2, <1>3 DEF EndFailed, Goes, Appended, NotTold


(* The record of a failure says that the lease is retained when it is.      *)
LEMMA CatchTells ==
  ASSUME IInv, ToldInv, ResultInv, Catch
  PROVE  ToldInv' /\ ResultInv'
<1> DEFINE told(after) ==
        IF after.safe /\ ~after.releaseFailed /\ after.error = "storage" /\ after.evidence # "none"
          THEN [Record("paused") EXCEPT !.evidence = after.evidence]
          ELSE [Record("failed") EXCEPT !.safe = after.safe, !.retained = after.held]
<1>1. dog.pc = "catch" /\ UNCHANGED <<run, log, lock, drifted, worker, ends>>
  BY DEF Catch
<1>2. ASSUME NEW after \in Dogs
      PROVE  /\ told(after).type \in {"paused", "failed"}
             /\ (~after.safe \/ after.releaseFailed) => told(after).type = "failed" /\ told(after).retained = after.held
             /\ \/ told(after).type = "paused" /\ after.safe /\ ~after.releaseFailed
                \/ told(after).type = "failed" /\ told(after).safe = after.safe
             /\ after.error # "storage" \/ after.evidence = "none" => told(after).type = "failed"
  <2>1. /\ [Record("paused") EXCEPT !.evidence = after.evidence].type = "paused"
        /\ [Record("failed") EXCEPT !.safe = after.safe, !.retained = after.held].type = "failed"
        /\ [Record("failed") EXCEPT !.safe = after.safe, !.retained = after.held].retained = after.held
        /\ [Record("failed") EXCEPT !.safe = after.safe, !.retained = after.held].safe = after.safe
    BY DEF Record
  <2>2. QED
    BY <2>1
<1> HIDE DEF told
<1>3. ASSUME NEW after \in Dogs, after.pc = "catch", after.held => dog.held, after.safe = dog.safe,
             lease' = "run" => after.held /\ (~after.safe \/ after.releaseFailed),
             lease' = "run" => lease = "run",
             UNCHANGED faults \/ Fault,
             after.error = dog.error, after.evidence = dog.evidence,
             dog' = [after EXCEPT !.pc = "end failed", !.out = told(after)]
      PROVE  ToldInv' /\ ResultInv'
  <2>1. /\ dog'.pc = "end failed" /\ dog'.held = after.held /\ dog'.safe = after.safe
        /\ dog'.releaseFailed = after.releaseFailed
        /\ dog'.out.type \in {"paused", "failed"}
        /\ lease' = "run" => dog'.out.retained
        /\ \/ dog'.out.type = "paused" /\ after.safe /\ ~after.releaseFailed
           \/ dog'.out.type = "failed" /\ dog'.out.safe = after.safe
        /\ after.error # "storage" \/ after.evidence = "none" => dog'.out.type = "failed"
    BY <1>2, <1>3, Zenon DEF Dogs
  <2>2. ToldInv'
    BY Shapes, MoreShapes, <1>1, <1>3, <2>1
       DEF ToldInv, LeaseIsTold, NotYetFailed, Outside, Before, Ending, DogHolds, WorkerHolds, Alive
  <2>3. ASSUME UNCHANGED faults PROVE ResultInv'
    <3>1. ASSUME faults = 0 PROVE OutcomeIsKept' /\ ResultWaits' /\ ChecksAreFinished'
      <4>1. OutcomeIsKept /\ ResultWaits /\ ChecksAreFinished
        BY <3>1 DEF ResultInv
      <4>2. OutcomeIsKept'
        BY <4>1, <1>1 DEF OutcomeIsKept, Answers
      <4>3. ResultWaits'
        BY <4>1, <1>1, <1>3, <2>1, TerminalsAre DEF ResultWaits, OutcomeIsChosen, Answers, LaunchMayFollow, Ending
      <4>4. ChecksAreFinished'
        BY <4>1, <1>1, <2>1 DEF ChecksAreFinished, Alive
      <4>5. QED
        BY <4>2, <4>3, <4>4
    <3>2. QED
      BY <3>1, <2>3 DEF ResultInv
  <2>4. QED
    BY <1>3, <2>2, <2>3, FaultForgives
<1>4. dog.held \/ lease # "run"
  BY <1>1 DEF ToldInv, LeaseIsTold, Before
<1>5. CASE dog.safe /\ ~dog.releaseFailed /\ lease' = Freed /\ UNCHANGED faults
           /\ dog' = [[dog EXCEPT !.held = FALSE] EXCEPT !.pc = "end failed", !.out = told([dog EXCEPT !.held = FALSE])]
  <2> DEFINE after == [dog EXCEPT !.held = FALSE]
  <2>1. /\ after \in Dogs /\ after.pc = "catch" /\ ~after.held /\ after.safe = dog.safe
        /\ after.error = dog.error /\ after.evidence = dog.evidence
    BY Shapes, <1>1 DEF Dogs
  <2>2. dog' = [after EXCEPT !.pc = "end failed", !.out = told(after)]
    BY <1>5
  <2>3. lease' # "run"
    BY <1>4, <1>5 DEF Freed
  <2> HIDE DEF after
  <2>4. QED
    BY <1>3, <1>5, <2>1, <2>2, <2>3
<1>6. CASE dog.safe /\ ~dog.releaseFailed /\ dog.held /\ Fault
           /\ dog' = [[dog EXCEPT !.releaseFailed = TRUE] EXCEPT !.pc = "end failed", !.out = told([dog EXCEPT !.releaseFailed = TRUE])]
  <2> DEFINE after == [dog EXCEPT !.releaseFailed = TRUE]
  <2>1. /\ after \in Dogs /\ after.pc = "catch" /\ after.held = dog.held /\ after.safe = dog.safe
        /\ after.releaseFailed /\ after.error = dog.error /\ after.evidence = dog.evidence
    BY Shapes, <1>1 DEF Dogs
  <2>2. dog' = [after EXCEPT !.pc = "end failed", !.out = told(after)]
    BY <1>6
  <2>3. lease = "run"
    BY Shapes, <1>6 DEF DogHolds
  <2> HIDE DEF after
  <2>4. QED
    BY <1>3, <1>6, <2>1, <2>2, <2>3
<1>7. CASE ~(dog.safe /\ ~dog.releaseFailed) /\ UNCHANGED <<lease, faults>>
           /\ dog' = [dog EXCEPT !.pc = "end failed", !.out = told(dog)]
  <2>1. lease' = "run" => dog.held /\ (~dog.safe \/ dog.releaseFailed)
    BY Shapes, <1>4, <1>7 DEF Dogs
  <2>2. QED
    BY Shapes, <1>1, <1>3, <1>7, <2>1
<1>8. QED
  BY <1>5, <1>6, <1>7 DEF Catch, told

-----------------------------------------------------------------------------
(* The worker, and everybody else.                                          *)

(* A step of a worker that records nothing leaves what is told.             *)
LEMMA WorkerKeepsTold ==
  ASSUME ToldInv, Alive, UNCHANGED <<log, lock, lease, dog>>, run'.at # "none"
  PROVE  ToldInv'
<1>1. LeaseIsTold'
  BY DEF ToldInv, LeaseIsTold
<1>2. NotYetFailed'
  BY DEF ToldInv, NotYetFailed, Outside, Before, Ending, Alive
<1>3. QED
  BY <1>1, <1>2 DEF ToldInv

(* A worker that works, or has something to report that fits the run, has   *)
(* recorded nothing.                                                        *)
LEMMA WorkerKeepsResult ==
  ASSUME ResultInv, Alive, UNCHANGED <<log, dog, ends, faults>>,
         faults = 0 =>
           \/ worker'.pc = "binding" /\ run'.at # "probing"
           \/ worker'.pc = "working" /\ run'.at \in {"unchecked", "probing", "open"}
           \/ /\ worker'.pc = "reporting" /\ worker'.result \in Results /\ run'.at # "probing"
              /\ run'.at = "preflight paused" => worker'.result \in {"pause", "fail"}
              /\ run'.at = "unreadable" => worker'.result = "fail"
  PROVE  ResultInv'
<1>1. ASSUME faults = 0 PROVE OutcomeIsKept' /\ ResultWaits' /\ ChecksAreFinished'
  <2>1. OutcomeIsKept /\ ResultWaits /\ ChecksAreFinished
    BY <1>1 DEF ResultInv
  <2>2. log.end = "none" /\ log.result = "none" /\ dog.pc \in {"command", "dead"}
    BY <2>1 DEF ChecksAreFinished
  <2>3. OutcomeIsKept'
    BY <2>1, <2>2 DEF OutcomeIsKept
  <2>4. ResultWaits'
    BY <2>1, <2>2 DEF ResultWaits, OutcomeIsChosen, LaunchMayFollow
  <2>5. ChecksAreFinished'
    BY <1>1, <2>1, <2>2 DEF ChecksAreFinished, Alive
  <2>6. QED
    BY <2>3, <2>4, <2>5
<1>2. QED
  BY <1>1 DEF ResultInv

(* The worker's run was stored.                                             *)
LEMMA WorkerHasRun == ToldInv /\ Alive => run.at # "none"
BY DEF ToldInv, NotYetFailed

(* A report that is begun, of a run that is not at a check.                 *)
LEMMA ReportsIs ==
  ASSUME IInv, NEW result, Reports(result)
  PROVE  worker'.pc = "reporting" /\ worker'.result = result
BY MoreShapes DEF Reports, Workers

(* A worker begins where no check is left unfinished, unless a call failed. *)
LEMMA BeginTells ==
  ASSUME IInv, ToldInv, ResultInv, Begin
  PROVE  ToldInv' /\ ResultInv'
<1>1. worker.pc = "up" /\ UNCHANGED <<run, log, lock, lease, drifted, dog, ends>>
  BY DEF Begin
<1>2. Alive /\ run.at # "none"
  BY <1>1, WorkerHasRun DEF Alive
<1>3. faults = 0 => run.at # "probing"
  BY <1>1 DEF ResultInv, ChecksAreFinished
<1>4. CASE UNCHANGED faults
  <2>1. CASE Reports("pause") /\ run.at \in {"paused", "preflight paused"}
    BY <1>1, <1>2, <1>3, <1>4, <2>1, ReportsIs, WorkerKeepsTold, WorkerKeepsResult DEF Results
  <2>2. CASE Reports("fail")
    BY <1>1, <1>2, <1>3, <1>4, <2>2, ReportsIs, WorkerKeepsTold, WorkerKeepsResult DEF Results
  <2>3. CASE worker' = [worker EXCEPT !.pc = "binding"]
    <3>1. worker'.pc = "binding"
      BY <2>3, MoreShapes DEF Workers
    <3>2. QED
      BY <1>1, <1>2, <1>3, <1>4, <3>1, WorkerKeepsTold, WorkerKeepsResult
  <2>4. CASE Fault
    BY <1>1, <1>2, <2>4, WorkerKeepsTold, FaultForgives
  <2>5. QED
    BY <2>1, <2>2, <2>3, <2>4 DEF Begin
<1>5. CASE Fault
  BY <1>1, <1>2, <1>5, WorkerKeepsTold, FaultForgives
<1>6. QED
  BY <1>4, <1>5 DEF Begin

(* A worker that binds its host module takes up a run in which no check is  *)
(* left unfinished, or reports what it is at, or that it failed.            *)
LEMMA BindTells ==
  ASSUME IInv, ToldInv, ResultInv, Bind
  PROVE  ToldInv' /\ ResultInv'
<1>1. worker.pc = "binding" /\ UNCHANGED <<log, lock, lease, drifted, dog, ends, faults>>
  BY DEF Bind
<1>2. Alive /\ run.at # "none"
  BY <1>1, WorkerHasRun DEF Alive
<1>3. faults = 0 => run.at # "probing"
  BY <1>1 DEF ResultInv, ChecksAreFinished
<1>4. CASE run.at \in {"unchecked", "open"} /\ worker' = [worker EXCEPT !.pc = "working"] /\ UNCHANGED run
  <2>1. worker'.pc = "working"
    BY <1>4, MoreShapes DEF Workers
  <2>2. QED
    BY <1>1, <1>2, <1>4, <2>1, WorkerKeepsTold, WorkerKeepsResult
<1>5. CASE Reports("fail") /\ UNCHANGED run
  BY <1>1, <1>2, <1>3, <1>5, ReportsIs, WorkerKeepsTold, WorkerKeepsResult DEF Results
<1>6. CASE run.at = "complete" /\ Reports("complete") /\ UNCHANGED run
  BY <1>1, <1>2, <1>3, <1>6, ReportsIs, WorkerKeepsTold, WorkerKeepsResult DEF Results
<1>7. CASE Paused /\ Reports("pause") /\ UNCHANGED run
  BY <1>1, <1>2, <1>3, <1>7, ReportsIs, WorkerKeepsTold, WorkerKeepsResult DEF Results, Paused
<1>8. CASE run' = [run EXCEPT !.at = IF @ = "paused" THEN "open" ELSE "unchecked"]
           /\ worker' = [worker EXCEPT !.pc = "working"]
  <2>1. worker'.pc = "working"
    BY <1>8, MoreShapes DEF Workers
  <2>2. run'.at \in {"unchecked", "open"}
    BY <1>8, MoreShapes DEF Runs
  <2>3. QED
    BY <1>1, <1>2, <2>1, <2>2, WorkerKeepsTold, WorkerKeepsResult
<1>9. QED
  BY <1>4, <1>5, <1>6, <1>7, <1>8 DEF Bind

(* A worker reports what its run is at.                                     *)
LEMMA WorkTells ==
  ASSUME IInv, ToldInv, ResultInv, Work
  PROVE  ToldInv' /\ ResultInv'
<1>1. worker.pc = "working" /\ UNCHANGED <<log, lock, lease, drifted, dog, ends, faults>>
  BY DEF Work
<1>2. Alive
  BY <1>1 DEF Alive
<1>3. ASSUME NEW at, run' = [run EXCEPT !.at = at] PROVE run'.at = at
  BY <1>3, MoreShapes DEF Runs
<1>4. ASSUME NEW at \in {"probing", "open"}, run' = [run EXCEPT !.at = at], UNCHANGED worker
      PROVE  ToldInv' /\ ResultInv'
  BY <1>1, <1>2, <1>3, <1>4, WorkerKeepsTold, WorkerKeepsResult
<1>5. ASSUME NEW at \in {"preflight paused", "paused"}, Pauses(at)
      PROVE  ToldInv' /\ ResultInv'
  <2>1. run' = [at |-> at, pause |-> run.pause + 1] /\ Reports("pause")
    BY <1>5 DEF Pauses
  <2>2. run'.at = at
    BY <2>1
  <2>3. worker'.pc = "reporting" /\ worker'.result = "pause"
    BY <2>1, ReportsIs
  <2>4. QED
    BY <1>1, <1>2, <2>2, <2>3, WorkerKeepsTold, WorkerKeepsResult DEF Results
<1>6. ASSUME NEW at \in {"complete", "failed", "unreadable"}, NEW result \in {"complete", "fail"},
             at = "unreadable" => result = "fail", Settles(at, result)
      PROVE  ToldInv' /\ ResultInv'
  <2>1. run'.at = at
    BY <1>3, <1>6 DEF Settles
  <2>2. worker'.pc = "reporting" /\ worker'.result = result
    BY <1>6, ReportsIs DEF Settles
  <2>3. QED
    BY <1>1, <1>2, <1>6, <2>1, <2>2, WorkerKeepsTold, WorkerKeepsResult DEF Results
<1>7. CASE \E at \in {"failed", "unreadable"} : Settles(at, "fail")
  BY <1>6, <1>7
<1>8. CASE Settles("complete", "complete") \/ Settles("failed", "fail")
  BY <1>6, <1>8
<1>9. QED
  BY <1>4, <1>5, <1>7, <1>8 DEF Work

(* An executor that throws is not in a check, unless a call failed.         *)
LEMMA WorkerThrowsTells ==
  ASSUME IInv, ToldInv, ResultInv, WorkerThrows
  PROVE  ToldInv' /\ ResultInv'
<1>1. worker.pc = "working" /\ UNCHANGED <<run, log, lock, lease, drifted, dog, ends>> /\ Reports("fail")
  BY DEF WorkerThrows
<1>2. Alive /\ run.at # "none"
  BY <1>1, WorkerHasRun DEF Alive
<1>3. ToldInv'
  BY <1>1, <1>2, WorkerKeepsTold
<1>4. CASE run.at = "probing"
  BY <1>3, <1>4, FaultForgives DEF WorkerThrows
<1>5. CASE run.at # "probing"
  <2>1. UNCHANGED faults
    BY <1>5 DEF WorkerThrows
  <2>2. worker'.pc = "reporting" /\ worker'.result = "fail"
    BY <1>1, ReportsIs
  <2>3. faults = 0 => run.at # "preflight paused"
    BY <1>1 DEF ResultInv, ChecksAreFinished
  <2>4. QED
    BY <1>1, <1>2, <1>3, <1>5, <2>1, <2>2, <2>3, WorkerKeepsResult DEF Results
<1>6. QED
  BY <1>4, <1>5

(* A report is the first result since the launch.                           *)
LEMMA ReportTells ==
  ASSUME IInv, ToldInv, ResultInv, Report
  PROVE  ToldInv' /\ ResultInv'
<1>1. /\ worker.pc = "reporting" /\ UNCHANGED <<run, lock, lease, drifted, dog, ends>>
      /\ worker'.pc = "none"
  BY DEF Report, NoWorker
<1>2. Alive /\ run.at # "none"
  BY <1>1, WorkerHasRun DEF Alive
<1>3. PICK type \in Results \cup {"none"} :
        /\ log' = Fold(log, Record(type))
        /\ (type = worker.result /\ UNCHANGED faults) \/ Fault
  BY MoreShapes DEF Report, Appended, Workers, Results
<1>4. /\ log'.last.type = type
      /\ log'.result = IF type \in Results THEN type ELSE log.result
      /\ log'.end = log.end
  <2>1. Record(type).type = type
    BY RecordIs
  <2>2. type \notin Terminals
    BY TerminalsAre
  <2>3. QED
    BY <1>3, <2>1, <2>2, FoldIs
<1>5. ToldInv'
  <2>1. type # "failed"
    BY DEF Results
  <2>2. LeaseIsTold'
    BY <1>1, <1>4, <2>1 DEF ToldInv, LeaseIsTold
  <2>3. NotYetFailed'
    BY <1>1, <1>2, <1>4, <2>1, Shapes DEF ToldInv, NotYetFailed, Outside, Before, Ending, Alive, WorkerHolds
  <2>4. QED
    BY <2>2, <2>3 DEF ToldInv
<1>6. CASE type = worker.result /\ UNCHANGED faults
  <2>1. ASSUME faults = 0 PROVE OutcomeIsKept' /\ ResultWaits' /\ ChecksAreFinished'
    <3>1. OutcomeIsKept /\ ResultWaits /\ ChecksAreFinished
      BY <2>1 DEF ResultInv
    <3>2. /\ log.end = "none" /\ dog.pc \in {"command", "dead"}
          /\ run.at # "probing" /\ (run.at = "preflight paused" => type \in {"pause", "fail"})
          /\ (run.at = "unreadable" => type = "fail")
          /\ type \in Results
      BY <1>1, <1>2, <1>6, <3>1 DEF ChecksAreFinished
    <3>3. OutcomeIsKept'
      BY <1>4, <3>2, TerminalsAre DEF OutcomeIsKept, Answers
    <3>4. ResultWaits'
      BY <1>1, <1>4, <3>1, <3>2 DEF ResultWaits, OutcomeIsChosen, Answers, LaunchMayFollow
    <3>5. ChecksAreFinished'
      BY <1>1, <1>4, <3>2 DEF ChecksAreFinished, Alive
    <3>6. QED
      BY <3>3, <3>4, <3>5
  <2>2. QED
    BY <1>5, <1>6, <2>1 DEF ResultInv
<1>7. QED
  BY <1>3, <1>5, <1>6, FaultForgives

(* A worker that dies has recorded nothing.                                 *)
LEMMA WorkerDiesTells ==
  ASSUME IInv, ToldInv, ResultInv, WorkerDies
  PROVE  ToldInv' /\ ResultInv'
<1>1. Alive /\ UNCHANGED <<run, log, lock, lease, drifted, dog, ends, faults>> /\ worker'.pc = "none"
  BY DEF WorkerDies, NoWorker
<1>2. ToldInv'
  BY <1>1, WorkerHasRun, WorkerKeepsTold
<1>3. ASSUME faults = 0 PROVE OutcomeIsKept' /\ ResultWaits' /\ ChecksAreFinished'
  <2>1. OutcomeIsKept /\ ResultWaits /\ ChecksAreFinished
    BY <1>3 DEF ResultInv
  <2>2. OutcomeIsKept'
    BY <1>1, <2>1 DEF OutcomeIsKept, Answers
  <2>3. ResultWaits'
    BY <1>1, <2>1 DEF ResultWaits, OutcomeIsChosen, Answers, LaunchMayFollow
  <2>4. ChecksAreFinished'
    BY <1>1, <2>1 DEF ChecksAreFinished, Alive
  <2>5. QED
    BY <2>2, <2>3, <2>4
<1>4. QED
  BY <1>1, <1>2, <1>3 DEF ResultInv

(* What neither the watchdog nor the worker does, and a step in which       *)
(* nothing happens.                                                         *)
LEMMA OthersTell ==
  ASSUME IInv, ToldInv, ResultInv, UNCHANGED <<run, log, lock, dog, worker, faults>>,
         lease' = "run" => lease = "run", ends' = {} => ends = {}
  PROVE  ToldInv' /\ ResultInv'
<1>1. ToldInv'
  BY DEF ToldInv, LeaseIsTold, NotYetFailed, Alive
<1>2. ASSUME faults = 0 PROVE OutcomeIsKept' /\ ResultWaits' /\ ChecksAreFinished'
  <2>1. OutcomeIsKept /\ ResultWaits /\ ChecksAreFinished
    BY <1>2 DEF ResultInv
  <2>2. OutcomeIsKept'
    BY <2>1 DEF OutcomeIsKept, Answers
  <2>3. ResultWaits'
    BY <2>1 DEF ResultWaits, OutcomeIsChosen, Answers, LaunchMayFollow
  <2>4. ChecksAreFinished'
    BY <2>1 DEF ChecksAreFinished, Alive
  <2>5. QED
    BY <2>2, <2>3, <2>4
<1>3. QED
  BY <1>1, <1>2 DEF ResultInv

-----------------------------------------------------------------------------
(* The two invariants hold.                                                 *)

(* What is told and what is recorded hold in every state.                   *)
THEOREM RecordsHold == Spec => [](IInv /\ ToldInv /\ ResultInv)
<1>1. Init => ToldInv /\ ResultInv
  <2> SUFFICES ASSUME Init PROVE ToldInv /\ ResultInv
    OBVIOUS
  <2>1. /\ log.last.type = "none" /\ log.result = "none" /\ log.end = "none" /\ faults = 0
        /\ dog.pc = "off" /\ lease = "free" /\ ends = {} /\ worker.pc = "none"
        /\ run.at = "none" /\ run.pause = 0 /\ dog.out.type = "none" /\ dog.error = "none"
    BY RecordIs DEF Init, NoLog, Idle, NoWorker
  <2>2. ToldInv
    BY <2>1 DEF ToldInv, LeaseIsTold, NotYetFailed, Outside, Before, Ending, Alive
  <2>3. ResultInv
    BY <2>1, TerminalsAre
       DEF ResultInv, OutcomeIsKept, ResultWaits, ChecksAreFinished, OutcomeIsChosen, LaunchMayFollow, Alive
  <2>4. QED
    BY <2>2, <2>3
<1>2. IInv /\ (ToldInv /\ ResultInv) /\ [Next]_vars => (ToldInv /\ ResultInv)'
  <2> SUFFICES ASSUME IInv, ToldInv, ResultInv, [Next]_vars PROVE ToldInv' /\ ResultInv'
    OBVIOUS
  <2>1. CASE Watchdog
    BY <2>1, LockTells, CheckTells, LeaseTells, StoreTells, GiveUpTells, TopTells, LaunchTells, KillTells,
       CommandThrowsTells, CommandReturnsTells, SettleTells, JudgeTells, RestartAnchorTells, CaptureTells,
       WriteAnchorTells, ReleaseTells, FinishTells, BackoffTells, CatchTells, EndFailedTells, FinallyTells
       DEF Watchdog
  <2>2. CASE Worker
    BY <2>2, BeginTells, BindTells, WorkTells, WorkerThrowsTells, ReportTells, WorkerDiesTells DEF Worker
  <2>3. CASE Start \/ (\E target \in 1..MaxPauses : Resume(target)) \/ Die
    BY <2>3, StartTells, ResumeTells, DieTells
  <2>4. CASE Stop \/ Deadline \/ Others \/ UNCHANGED vars
    <3>1. /\ UNCHANGED <<run, log, lock, dog, worker, faults>>
          /\ lease' = "run" => lease = "run"
          /\ ends' = {} => ends = {}
      BY <2>4 DEF Stop, Deadline, Others, TakeLease, Edit, ReturnLease, vars
    <3>2. QED
      BY <3>1, OthersTell
  <2>5. QED
    BY <2>1, <2>2, <2>3, <2>4 DEF Next
<1>3. QED
  BY <1>1, <1>2, InvariantHolds, PTL DEF Spec

(* "When the worker has recorded a result ... the watchdog returns that     *)
(* result even if a stop or timeout arrives": as long as no call fails, the *)
(* record that ends its work is of the result, unless the worker failed     *)
(* with the run at a pause of its preflight, which is then told; and no     *)
(* worker is launched over a result.                                        *)
THEOREM ResultAlwaysReturned == Spec => []ResultIsReturned
<1>1. QED
  BY RecordsHold, ResultImplies, PTL

(* A lease that stays when nobody is left to watch it has its lock with it, *)
(* and where a failure is the last record it says so, whatever failed.      *)
THEOREM RetentionAlwaysTold == Spec => []RetainedIsTold
<1>1. QED
  BY RecordsHold, ToldImplies, PTL

(* What is recorded as the end of a watchdog's work is true of the          *)
(* workspace and of the worker, whatever failed: a run that is told paused, *)
(* completed, stopped or timed out has its lease released and no worker,    *)
(* and a failure tells of a lease that is retained and of a worker that may *)
(* be left.                                                                 *)
THEOREM EndsAlwaysClean == Spec => EndsAreClean
<1> DEFINE Clean == log' # log =>
      /\ log'.last.type \in {"paused", "completed", "stopped", "timeout"} =>
           lease' # "run" /\ ~Alive'
      /\ log'.last.type = "failed" =>
           (lease' = "run" => log'.last.retained) /\ (Alive' => ~log'.last.safe)
<1>1. IInv /\ ToldInv /\ [Next]_vars => Clean
  <2> SUFFICES ASSUME IInv, ToldInv, [Next]_vars, log' # log PROVE Clean
    OBVIOUS
  <2>1. \/ Launch \/ Judge \/ Report
        \/ Finish \/ EndFailed
    <3>1. CASE Watchdog
      BY <3>1 DEF Watchdog, Lock, Check, Lease, Store, GiveUp, Top, Kill, CommandThrows, CommandReturns, Settle,
                  RestartAnchor, Capture, WriteAnchor, Release, Backoff, Catch, Finally
    <3>2. CASE Worker
      BY <3>2 DEF Worker, Begin, Bind, Work, WorkerThrows, WorkerDies
    <3>3. CASE ~Watchdog /\ ~Worker
      BY <3>3 DEF Next, vars, Start, Resume, Die, Stop, Deadline, Others
    <3>4. QED
      BY <3>1, <3>2, <3>3
  <2>2. CASE Launch
    <3>1. log' = FoldLaunch(log, dog.restarts)
      BY <2>2 DEF Launch, Appended, NotTold
    <3>2. log'.last.type = "launching"
      BY <3>1, LaunchIs, RecordIs
    <3>3. QED
      BY <3>2
  <2>3. CASE Judge
    <3>1. log' = Fold(log, Record("crashed"))
      BY <2>3 DEF Judge, Appended, NotTold
    <3>2. log'.last.type = "crashed"
      BY <3>1, CrashIs
    <3>3. QED
      BY <3>2
  <2>4. CASE Report
    <3>1. log' = Fold(log, Record(worker.result)) \/ log' = Fold(log, Record("fail"))
      BY <2>4 DEF Report, Appended
    <3>2. log'.last.type \in Results \cup {"none"}
      BY <3>1, FoldIs, RecordIs, MoreShapes DEF Workers, Results
    <3>3. QED
      BY <3>2 DEF Results
  <2>5. CASE Finish
    <3>1. dog.pc = "finish" /\ UNCHANGED <<lease, worker>>
      BY <2>5 DEF Finish
    <3>2. lease # "run" /\ ~Alive
      BY <3>1, Shapes DEF ToldInv, LeaseIsTold, WorkerHolds, Before, Ending
    <3>3. lease' # "run" /\ ~Alive'
      BY <3>1, <3>2 DEF Alive
    <3>4. QED
      BY <3>3
  <2>6. CASE EndFailed
    <3>1. dog.pc = "end failed" /\ UNCHANGED <<lease, worker>> /\ log' = Fold(log, dog.out)
      BY <2>6 DEF EndFailed, Appended, NotTold
    <3>2. log'.last = dog.out
      BY <3>1, FoldIs
    <3>3. Alive' = Alive
      BY <3>1 DEF Alive
    <3>4. CASE dog.out.type = "paused" /\ dog.safe /\ ~dog.releaseFailed
      <4>1. lease # "run" /\ ~Alive
        BY <3>1, <3>4, Shapes DEF ToldInv, LeaseIsTold, WorkerHolds, Ending
      <4>2. QED
        BY <3>1, <3>2, <3>3, <3>4, <4>1
    <3>5. CASE dog.out.type = "failed" /\ dog.out.safe = dog.safe
      <4>1. (lease = "run" => dog.out.retained) /\ (Alive => ~dog.out.safe)
        BY <3>1, <3>5, Shapes DEF ToldInv, LeaseIsTold, WorkerHolds, Ending
      <4>2. QED
        BY <3>1, <3>2, <3>3, <3>5, <4>1
    <3>6. QED
      BY <3>1, <3>4, <3>5 DEF ToldInv, LeaseIsTold
  <2>7. QED
    BY <2>1, <2>2, <2>3, <2>4, <2>5, <2>6
<1>2. QED
  BY <1>1, RecordsHold, PTL DEF Spec, EndsAreClean
=============================================================================
