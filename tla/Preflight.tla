-------------------------------- MODULE Preflight --------------------------------
(***************************************************************************)
(* The checks of engines before the work of a run: the fold of              *)
(* preflight-record.ts over the run's stream, admitBeforeWork of            *)
(* graph-executor.ts, which writes most of what it folds, and               *)
(* interruptRunPreflight, which closes a check whose owner died.            *)
(*                                                                         *)
(* One executor at a time owns the run: a process that dies is followed by  *)
(* one with an executor of its own, which has no memory of the checks.  The *)
(* caller of interruptRunPreflight may be wrong about that death.  A node   *)
(* of the graph is one piece of work on a lane (what else there is to it is *)
(* GraphExecutor).  An append that names an old revision is refused, which  *)
(* is kept as a flag of the one who appends: nobody has written since it    *)
(* read.  Identities of engines, evidence documents, causes and timestamps  *)
(* are left out: an identity that does not match is a failed check.  The    *)
(* identity that a dead engine reports counts where no declared target, or  *)
(* more than one, has it: nobody can read the run once that is recorded.    *)
(***************************************************************************)
EXTENDS Naturals, Sequences, FiniteSets, SequencesExt

CONSTANTS
  Lanes,      \* the lanes of the plan, in order: the targets of each, in order,
              \* how many contexts its static checks have, and its policy
  Reach,      \* what a lane-dead failure of a target can exclude: some sets of targets,
              \* {} where the identity that it reports cannot be resolved to a declared one
  MaxWork,    \* bound: the nodes of the run
  MaxFaults   \* bound: failures of checks, of appends and of processes

LaneIds == DOMAIN Lanes

TargetsOf(l) == ToSet(Lanes[l].targets)

Targets == UNION {TargetsOf(l) : l \in LaneIds}

ASSUME LanesAreDeclared ==
  \A l \in LaneIds :
    /\ l \in Nat \ {0} /\ Lanes[l].targets # <<>> /\ Lanes[l].contexts \in Nat \ {0}
    /\ Lanes[l].live \in BOOLEAN /\ Lanes[l].block \in BOOLEAN

ASSUME ReachIsDeclared ==
  \A t \in Targets : \A reach \in Reach[t] : reach \subseteq Targets /\ (reach = {} \/ t \in reach)

VARIABLES
  rec,      \* what the stream folds to
  exec,     \* the executor of the process that owns the run
  reader,   \* a caller of interruptRunPreflight
  work,     \* the nodes: whether one is dispatched and open, and how many are done
  faults

vars == <<rec, exec, reader, work, faults>>

-----------------------------------------------------------------------------
(* The fold.                                                                *)

(* A check: static in one context of its lane, or live, in context 0.       *)
StaticChecks(l, t) == {[lane |-> l, target |-> t, context |-> c] : c \in 1..Lanes[l].contexts}

LiveCheck(l, t) == [lane |-> l, target |-> t, context |-> 0]

Checks ==
  UNION {UNION {StaticChecks(l, t) \union {LiveCheck(l, t)} : t \in TargetsOf(l)} : l \in LaneIds}

IsLive(check) == check.context = 0

NoCheck == [lane |-> 0, target |-> "none", context |-> 0]

Outcomes == {"admitted", "unsupported", "succeeded", "failed", "dead", "interrupted", "recording-failed"}

(* loadRunPreflight before the first event.                                 *)
EmptyRecord ==
  [latest |-> [c \in Checks |-> "none"],  \* the last outcome of each check
   spent |-> {},          \* the checks that failed since the last resume
   answered |-> {},       \* the live checks that ever succeeded
   excluded |-> {},       \* the targets that failed checks exclude
   retired |-> {},        \* the targets that failed nodes exclude
   unresolved |-> FALSE,  \* an exclusion has no declared target: ENGINE_IDENTITY_UNRESOLVED
   open |-> NoCheck, paused |-> FALSE, failed |-> FALSE, admitted |-> FALSE, valid |-> TRUE]

(* Whether the stream can be read: by loadRunPreflight, and by readFolded.  *)
Reads(r) == r.valid /\ ~r.unresolved

Blocked(r, l, t) == Lanes[l].block /\ \E c \in StaticChecks(l, t) : r.latest[c] = "unsupported"

(* staticallyEligible: every context is admitted, or may go unsupported.    *)
Checked(r, l, t) ==
  \A c \in StaticChecks(l, t) :
    r.latest[c] = "admitted" \/ (r.latest[c] = "unsupported" /\ ~Lanes[l].block)

Eligible(r, l, t) == t \notin r.excluded /\ Checked(r, l, t)

Answered(r, l, t) == LiveCheck(l, t) \in r.answered

Covered(r) ==
  \A l \in LaneIds : \A t \in TargetsOf(l) : \A c \in StaticChecks(l, t) : r.latest[c] # "none"

Ready(r) ==
  /\ Covered(r)
  /\ \A l \in LaneIds : \E t \in TargetsOf(l) :
       Eligible(r, l, t) /\ (Lanes[l].live => Answered(r, l, t))

AllDead(r, l) == \A t \in TargetsOf(l) : t \in r.excluded \/ Blocked(r, l, t)

(* A live check may start once all static checks are there, on a target     *)
(* that passed them, in a lane that has no answer yet.                      *)
LiveMayStart(r, c) ==
  /\ ~r.admitted /\ Lanes[c.lane].live /\ Covered(r)
  /\ Eligible(r, c.lane, c.target)
  /\ \A t \in TargetsOf(c.lane) : Answered(r, c.lane, t) => t # c.target /\ ~Eligible(r, c.lane, t)

Start(c) == [type |-> "started", check |-> c, outcome |-> "none", reach |-> {}]

(* The end of a check with the pause or the exclusion that is written with  *)
(* it in one batch.                                                         *)
Finish(c, outcome, reach) == [type |-> "finished", check |-> c, outcome |-> outcome, reach |-> reach]

Event(type) == [type |-> type, check |-> NoCheck, outcome |-> "none", reach |-> {}]

FailedOn(l) == [Event("failed") EXCEPT !.check.lane = l]

Retired(reach) == [Event("retired") EXCEPT !.reach = reach]

(* The events a fold accepts.                                               *)
Accepts(r, ev) ==
  CASE ev.type = "started" ->
         /\ ~r.failed /\ r.open = NoCheck /\ ~r.paused
         /\ ev.check \notin r.spent
         /\ IsLive(ev.check) => LiveMayStart(r, ev.check)
    [] ev.type = "finished" -> ~r.failed /\ r.open = ev.check /\ ~r.paused
    [] ev.type = "resumed"  -> ~r.failed /\ r.paused
    [] ev.type = "failed"   -> ~r.failed /\ r.open = NoCheck /\ ~r.paused /\ AllDead(r, ev.check.lane)
    [] ev.type \in {"node", "retired"} -> TRUE

Apply(r, ev) ==
  CASE ev.type = "started"  -> [r EXCEPT !.open = ev.check]
    [] ev.type = "finished" ->
         [r EXCEPT
           !.open = NoCheck,
           !.latest[ev.check] = ev.outcome,
           !.answered = IF ev.outcome = "succeeded" THEN @ \union {ev.check} ELSE @,
           !.excluded = @ \union ev.reach,
           !.unresolved = @ \/ (ev.outcome = "dead" /\ ev.reach = {}),
           !.spent = IF ev.outcome \in {"failed", "dead", "interrupted", "recording-failed"}
                     THEN @ \union {ev.check} ELSE @ \ {ev.check},
           !.paused = ev.outcome \in {"failed", "interrupted", "recording-failed"}]
    [] ev.type = "resumed"  -> [r EXCEPT !.paused = FALSE, !.spent = {}]
    [] ev.type = "failed"   -> [r EXCEPT !.failed = TRUE]
    [] ev.type = "retired"  ->
         [r EXCEPT !.retired = @ \union ev.reach, !.unresolved = @ \/ ev.reach = {}]
    [] ev.type = "node"     -> r

(* The loop of loadRunPreflight for one batch, and what readFolded makes of *)
(* the events of nodes, which are not looked at there.                      *)
Fold(r, ev) ==
  IF ev.type \in {"node", "retired"} THEN Apply(r, ev)
  ELSE IF ~Accepts(r, ev) THEN [r EXCEPT !.valid = FALSE]
  ELSE LET s == Apply(r, ev)
       IN  [s EXCEPT !.admitted = @ \/ (~s.failed /\ s.open = NoCheck /\ ~s.paused /\ Ready(s))]

-----------------------------------------------------------------------------
(* The executor.                                                            *)

NoExecutor == [pc |-> "off", todo |-> NoCheck, route |-> {}, fresh |-> FALSE, restored |-> {}]

Init ==
  /\ rec = [EmptyRecord EXCEPT !.admitted = Ready(EmptyRecord)]
  /\ exec = NoExecutor
  /\ reader = [closing |-> FALSE, fresh |-> FALSE]
  /\ work = [open |-> FALSE, done |-> 0]
  /\ faults = 0

Costs == faults < MaxFaults /\ faults' = faults + 1

At(pc) == [exec EXCEPT !.pc = pc, !.fresh = TRUE]

Idle == [NoExecutor EXCEPT !.pc = "idle", !.restored = exec.restored]

Top == [Idle EXCEPT !.pc = "top"]

(* An append of the executor at the revision it is at: it is refused when   *)
(* somebody wrote since, and the operation that made it ends.               *)
ExecutorAppends(ev, then) ==
  IF exec.fresh
  THEN /\ rec' = Fold(rec, ev)
       /\ exec' = then
       /\ reader' = [reader EXCEPT !.fresh = FALSE]
  ELSE /\ exec' = Idle
       /\ UNCHANGED <<rec, reader>>

(* A target that the executor leaves alone.                                 *)
Unavailable(l, t) == t \in rec.excluded \union rec.retired \/ Blocked(rec, l, t)

(* Broken, for mutation testing: a new executor takes the checks of the     *)
(* stream for its own.                                                      *)
RestoredByStream(l, t) ==
  {c \in StaticChecks(l, t) :
     /\ ~((rec.admitted \/ rec.latest[c] # "none") /\ Unavailable(l, t))
     /\ c \notin exec.restored
     /\ rec.latest[c] \notin {"admitted", "failed"}}

(* The static checks that are due: those this executor has not made, except *)
(* that an unavailable target is checked only where it never was, and not   *)
(* after admission.                                                         *)
DueChecks(l, t) ==
  {c \in StaticChecks(l, t) :
     /\ ~((rec.admitted \/ rec.latest[c] # "none") /\ Unavailable(l, t))
     /\ c \notin exec.restored}

(* The order of checks: lane by lane, target by target, context by context. *)
Precedes(c, d) ==
  LET place(x) == <<x.lane, SelectInSeq(Lanes[x.lane].targets, LAMBDA t : t = x.target), x.context>>
      p == place(c)
      q == place(d)
  IN  \/ p[1] < q[1]
      \/ p[1] = q[1] /\ p[2] < q[2]
      \/ p[1] = q[1] /\ p[2] = q[2] /\ p[3] <= q[3]

IsFirst(c, S) == \A d \in S : Precedes(c, d)

AllDue == UNION {DueChecks(c.lane, c.target) : c \in Checks}

(* The live checks the executor may make: in a lane without an answer of an *)
(* eligible target, those of its eligible targets.                          *)
LiveDue ==
  {c \in Checks :
     /\ IsLive(c) /\ Lanes[c.lane].live
     /\ \A t \in TargetsOf(c.lane) :
          Answered(rec, c.lane, t) => Unavailable(c.lane, t) \/ ~Checked(rec, c.lane, t)
     /\ ~Unavailable(c.lane, c.target) /\ Checked(rec, c.lane, c.target)
     /\ ~Answered(rec, c.lane, c.target)}

(* routeFor: the first two targets that are not unavailable.                *)
Route(l) ==
  LET order == Lanes[l].targets
      live  == {i \in DOMAIN order : ~Unavailable(l, order[i])}
  IN  {order[i] : i \in {j \in live : Cardinality({k \in live : k < j}) < 2}}

(* A new process binds the run.                                             *)
Create ==
  /\ exec.pc = "off"
  /\ exec' = [NoExecutor EXCEPT !.pc = "idle"]
  /\ UNCHANGED <<rec, reader, work, faults>>

(* run: not on a run that has come to its end.                              *)
Run ==
  /\ exec.pc = "idle"
  /\ ~rec.paused /\ ~rec.failed /\ work.done < MaxWork
  /\ exec' = Top
  /\ UNCHANGED <<rec, reader, work, faults>>

(* A pause, a failure, an open check and a stream that cannot be read are   *)
(* answers to the caller.                                                   *)
Ended == rec.paused \/ rec.failed \/ rec.open # NoCheck \/ ~Reads(rec)

DeadLanes == {l \in LaneIds : AllDead(rec, l)}

(* One turn of the loop of admitBeforeWork, up to its append: the record is *)
(* read, and what it asks for is decided.                                   *)
Read ==
  /\ exec.pc = "top"
  /\ \/ Ended /\ exec' = Idle
     \/ /\ ~Ended
        /\ \E l \in DeadLanes :
             (\A k \in DeadLanes : l <= k) /\ exec' = [At("dead") EXCEPT !.todo.lane = l]
     \/ /\ ~Ended /\ DeadLanes = {}
        /\ \E c \in AllDue : IsFirst(c, AllDue) /\ exec' = [At("start") EXCEPT !.todo = c]
     \/ /\ ~Ended /\ DeadLanes = {} /\ AllDue = {} /\ rec.admitted
        /\ exec' = At("admitted")
     \/ /\ ~Ended /\ DeadLanes = {} /\ AllDue = {} /\ ~rec.admitted
        /\ \E c \in LiveDue : IsFirst(c, LiveDue) /\ exec' = [At("start") EXCEPT !.todo = c]
  /\ UNCHANGED <<rec, reader, work, faults>>

(* The run is aborted, the configuration of a check is refused, or the      *)
(* stream does not take an append.                                          *)
GiveUp ==
  /\ exec.pc \in {"top", "start", "probing", "dead", "work", "resume"}
  /\ Costs
  /\ exec' = Idle
  /\ UNCHANGED <<rec, reader, work>>

StartCheck ==
  /\ exec.pc = "start"
  /\ ExecutorAppends(Start(exec.todo), [exec EXCEPT !.pc = "probing"])
  /\ UNCHANGED <<work, faults>>

(* Broken, for mutation testing: a check that was made counts as restored,  *)
(* whatever came of it.                                                     *)
RestoredAnyhow(outcome) == exec.restored \union {exec.todo}

RestoredAfter(outcome) ==
  IF IsLive(exec.todo) THEN exec.restored
  ELSE IF outcome \in {"admitted", "unsupported"} THEN exec.restored \union {exec.todo}
  ELSE exec.restored \ {exec.todo}

(* Broken, for mutation testing: the end of a check is written wherever the *)
(* stream has come to.                                                      *)
FinishAnywhere(outcome, reach) ==
  /\ rec' = Fold(rec, Finish(exec.todo, outcome, reach))
  /\ exec' = [Top EXCEPT !.restored = RestoredAfter(outcome)]
  /\ reader' = [reader EXCEPT !.fresh = FALSE]

(* appendProbeOutcome, and what the executor remembers of it.               *)
AppendProbeOutcome(outcome, reach) ==
  ExecutorAppends(Finish(exec.todo, outcome, reach),
                  [Top EXCEPT !.restored = RestoredAfter(outcome)])

(* A check passes, is not supported, fails for good or in passing, or       *)
(* cannot be recorded for want of its documents.  What a dead engine        *)
(* reports as its identity is appended as it is.                            *)
FinishCheck ==
  /\ exec.pc = "probing"
  /\ \/ /\ \E outcome \in IF IsLive(exec.todo) THEN {"succeeded"} ELSE {"admitted", "unsupported"} :
             AppendProbeOutcome(outcome, {})
        /\ UNCHANGED faults
     \/ /\ Costs
        /\ \E outcome \in {"failed", "recording-failed"} : AppendProbeOutcome(outcome, {})
     \/ /\ Costs
        /\ \E reach \in Reach[exec.todo.target] : AppendProbeOutcome("dead", reach)
  /\ UNCHANGED work

FailRun ==
  /\ exec.pc = "dead"
  /\ ExecutorAppends(FailedOn(exec.todo.lane), Top)
  /\ UNCHANGED <<work, faults>>

(* decide: a node on some lane, whose route is made before its dispatch, or *)
(* before its position is taken up again, is recorded.                      *)
Prepare ==
  /\ exec.pc = "admitted"
  /\ IF work.done = MaxWork THEN exec' = Idle
     ELSE \E l \in LaneIds :
            exec' = [exec EXCEPT !.pc = "work", !.todo.lane = l, !.route = Route(l)]
  /\ UNCHANGED <<rec, reader, work, faults>>

(* A dispatch that is refused is decided anew.                              *)
Dispatch ==
  /\ exec.pc = "work"
  /\ IF exec.fresh
     THEN /\ ExecutorAppends(Event("node"), [exec EXCEPT !.pc = "working"])
          /\ work' = [work EXCEPT !.open = TRUE]
     ELSE /\ exec' = IF work.open THEN Idle ELSE Top
          /\ UNCHANGED <<rec, reader, work>>
  /\ UNCHANGED faults

(* The node settles; an engine of its route may turn out to be dead, which  *)
(* is recorded first, and fails the node when nobody can tell what is dead. *)
Settle ==
  /\ exec.pc = "working"
  /\ \/ ExecutorAppends(Event("node"), Top) /\ UNCHANGED faults
     \/ /\ Costs
        /\ \E t \in exec.route : \E reach \in Reach[t] :
             ExecutorAppends(Retired(reach), Top)
  /\ work' = IF exec.fresh THEN [open |-> FALSE, done |-> work.done + 1] ELSE work

(* resume of the pause that is open: the record is read, and the pause is   *)
(* taken back.  A pause that is not the open one is refused.                *)
ResumePreflight ==
  /\ exec.pc = "idle"
  /\ rec.paused
  /\ exec' = At("resume")
  /\ UNCHANGED <<rec, reader, work, faults>>

AppendResume ==
  /\ exec.pc = "resume"
  /\ ExecutorAppends(Event("resumed"), Top)
  /\ UNCHANGED <<work, faults>>

(* The process dies, with all its executor remembers.                       *)
Crash ==
  /\ exec.pc # "off"
  /\ Costs
  /\ exec' = NoExecutor
  /\ UNCHANGED <<rec, reader, work>>

-----------------------------------------------------------------------------
(* interruptRunPreflight.                                                   *)

Load ==
  /\ ~reader.closing
  /\ rec.open # NoCheck /\ Reads(rec)
  /\ reader' = [closing |-> TRUE, fresh |-> TRUE]
  /\ UNCHANGED <<rec, exec, work, faults>>

(* One append at the revision that was read, which is never tried again.    *)
Interrupt ==
  /\ reader.closing
  /\ reader' = [closing |-> FALSE, fresh |-> FALSE]
  /\ IF reader.fresh
     THEN /\ IF exec.pc = "probing" THEN Costs ELSE UNCHANGED faults
          /\ rec' = Fold(rec, Finish(rec.open, "interrupted", {}))
          /\ exec' = [exec EXCEPT !.fresh = FALSE]
     ELSE UNCHANGED <<rec, exec, faults>>
  /\ UNCHANGED work

-----------------------------------------------------------------------------

Next ==
  \/ Create \/ Run \/ Read \/ GiveUp
  \/ StartCheck \/ FinishCheck \/ FailRun
  \/ Prepare \/ Dispatch \/ Settle
  \/ ResumePreflight \/ AppendResume \/ Crash
  \/ Load \/ Interrupt

Spec == Init /\ [][Next]_vars

(* A host that starts the run again, resumes its pauses and closes the      *)
(* checks of the dead, and steps that end.                                  *)
Fairness ==
  /\ WF_vars(Create) /\ WF_vars(Run) /\ WF_vars(Read)
  /\ WF_vars(StartCheck) /\ WF_vars(FinishCheck) /\ WF_vars(FailRun)
  /\ WF_vars(Prepare) /\ WF_vars(Dispatch) /\ WF_vars(Settle)
  /\ WF_vars(ResumePreflight) /\ WF_vars(AppendResume)
  /\ WF_vars(exec.pc # "probing" /\ Load) /\ WF_vars(Interrupt)

FairSpec == Spec /\ Fairness

-----------------------------------------------------------------------------
(* Whatever dies, fails or is closed by another, no event of the stream is  *)
(* one that loadRunPreflight refuses as out of place: a check is finished   *)
(* once, by its owner or by the one who interrupts it, nothing that failed  *)
(* is tried again without a resume, and no live check is one too many.      *)
(* That a stream reads takes more: one with a dead engine whose reported    *)
(* identity cannot be resolved (ENGINE_IDENTITY_UNRESOLVED), which          *)
(* appendProbeOutcome records unseen, is in order and reads no more.        *)
PreflightFolds == rec.valid

(* A node starts on a route whose every target has passed all its static    *)
(* checks, as the record has it when the work begins, and none of which is  *)
(* retired or blocked ("it checks every engine seat ... Nothing is          *)
(* dispatched before the checks finish", docs/public/graphs/executor.mdx).  *)
(* Nor does one start on a run that nobody can read any more: what it says  *)
(* of a failed login that fits several declared targets, "it refuses before *)
(* any work with `ENGINE_IDENTITY_UNRESOLVED`", goes for every identity.    *)
WorkIsChecked ==
  exec.pc \in {"work", "working"} /\ exec.fresh =>
    /\ Reads(rec)
    /\ \A t \in exec.route :
         /\ Checked(rec, exec.todo.lane, t)
         /\ t \notin rec.excluded \union rec.retired

(* An executor that finds the run not admitted has a check to make: it      *)
(* never comes to the error "Preflight has no permitted unfinished check    *)
(* and is not admitted" (graph-executor.ts:995).                            *)
NeverStuck ==
  exec.pc = "top" /\ ~Ended /\ DeadLanes = {} /\ AllDue = {} /\ ~rec.admitted => LiveDue # {}

(* The checks come to an end: the run fails, its work gets done, or a dead  *)
(* engine left it with an identity that cannot be resolved, for good.       *)
AdmissionSettles == <>[](rec.failed \/ work.done = MaxWork \/ rec.unresolved)
================================================================================
