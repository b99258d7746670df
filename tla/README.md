# Verification of the obversa runtime

TLA+ models of the durable core of this repository, the TLC configurations that check them on small
instances, and theorems about them that TLAPS proves.  `PROJECT.json` maps every definition to the source lines
it translates; this file says what the parts of the system are, what is modelled, and what the checks and the
proofs show.

obversa runs *graphs* of work (scripts, coding agents, reviews) so that a run can stop anywhere and be taken up
again.  Nothing but files connects the processes that work on a run: a run is a stream of events, its state is
what the events fold to, and what to do next is a pure function of that state.  What is hard is therefore what
happens between a read and the append it leads to, in how many processes, and which of them may die there.

## 1. The system

Paths are relative to `src/packages/`.  *Status* is that of `PROJECT.json`.

| Component | Where | State it keeps | Operations | Status |
|---|---|---|---|---|
| Graph executor | `runtime/src/runtime/graph-executor.ts`, `node-lifecycle.ts` | in memory: `running`, `appendRevision`, `appendTail`, the attempts at work; durably: only its events | create, `run`, `resume(position)`, `close`; per attempt: start, invoke, receipt, unavailability fact, fallback, outcome | partly |
| dag graph type | `runtime/src/graph-types/dag.ts` | status and attempts per node | `validateDag`, `reduce`, `decide`, `describe` | modelled |
| Convergence graph type | `runtime/src/graph-types/loop.ts` | phase, iteration, restarts, nodes, seats, writers, evidence, finding rounds, pause reason | the same four | modelled |
| Team graph type | `runtime/src/graph-types/team.ts` | members, queued turns, triggers, turn count | the same four | not modelled |
| Event store | `runtime/src/events/jsonl-store.ts` | a directory of segment files per stream | `append(expectedRevision, events)`, read, watch | modelled |
| Preflight record | `runtime/src/runtime/preflight-record.ts`, `graph-executor.ts` | the check events in the run's stream; in memory, the checks one executor has restored | start, finish, interrupt and resume of a check, admission before work | partly |
| Artifact store | `runtime/src/artifacts/file-store.ts` | a directory of blobs, and one of admissions under a quota | `write`, `read`, `deleteRun`, `preflightWrite` (only reads, not modelled) | modelled |
| Callback history and approval | `runtime/src/callback/*.ts` | a stored history of questions, claims, answers and approvals, in the run's own stream | post, claim, submit, release, supersede, resolve | partly |
| Supervised runner | `runner/src/supervised-*.ts` | lock directory, supervision stream, pause anchor, the lease it holds | start, resume, launch and restart of a worker, stop, deadline, release, terminal record | partly |
| Surface session | `surface/src/{server,launcher}.mjs` | one terminal claim, three flags, three timers, the open requests | complete, cancel, acknowledge, heartbeat, interrupt, stop, the written frame | modelled |
| Workspace providers | `runtime/src/workspace/*.ts` | git refs as leases, work trees | acquire, release, recover a lease | not modelled |
| Token budgets | `runtime/src/runtime/budget.ts` | reservations in memory | reserve, settle | not modelled |
| Engine availability, run definition, proof cache, contracts | `runtime/src/runtime/{availability,run-definition}.ts`, `runtime/src/proof/`, `api/src/` | recorded facts, digests | pure folds and comparisons | not modelled |
| In-process loop engine, supervisor and monitor, commands, plugins, builtin workflows, hosts, rendering | `runtime/src/core/`, `core/src/`, the other packages | one call stack, best-effort files | | not modelled |

**How they interact.**  A host creates an executor over a stored run and calls `run()` or `resume(position)`.
The executor reads the stream (`readFolded`), folds it through the graph type's `reduce`, asks `decide`, appends
the decision in one batch at the revision it read, starts one attempt for each dispatched position, and lets
each append its start, its engine receipts and its outcome at the executor's own `appendRevision`.  The store
accepts an append at the expected revision or not at all, and reports an append that it finds already committed,
exactly, as committed.  Nothing else is shared: several executors, in one process or several, may be alive over
one run, and a process that dies leaves only what it appended.

Before the first node is dispatched the executor checks the engines of every lane, and records each check in the
same stream (*preflight*).  The bytes that nodes produce go to the *artifact store*, which other processes of the
run write to at the same time.  Questions to people go through *callback clients* over the run's stream.  The
*supervised runner* keeps one worker process at a time over a run, on a git workspace under a lease.  A *surface
session* is a short-lived local server that takes one decision from a browser page and hands it to its caller.

**What is hard.**

* Optimistic appends by several executors, each holding a snapshot that may be old when it is used.
* The gap between a recorded start and a recorded outcome: after a crash nobody knows whether node code ran.
* `Promise.all` over the attempts of a batch: one rejection ends the operation and leaves the rest at work.
* A store that links a file before it syncs the directory, so that an error may hide a commit.
* Graph types whose counters and verdicts survive retries, rounds, pauses and late or withdrawn answers.
* Admissions to a quota by writers that see the directory at different moments.
* A worker that may hang or die at any step, while a stop, a deadline and the next holder of its workspace wait.
* A decision for which browser tabs, timers, signals and dropped connections race.

**What makes each component correct.**  *Executor*: the stream always folds; a record is acted on once; node
code that must not run twice does not, unless the host was asked; recorded calls cover made calls; a reported
end is final; every dispatched position is settled in the end.  *Graph types*: order, limits and declared bounds
hold; ends are honest; the graph never stops asking without having ended.  *Event store*: the files are one
stream; an acknowledged append stays and is one commit.  *Questions*: their history always reads; a gate has one
open question; a claim holds until its owner lets go; a router is told the truth about its answer.  *Preflight*:
no check event is out of place; work starts on checked targets only; the checks come to an end.  *Artifact store*:
an admission never comes before its bytes; the quota holds for all writers together; what was accepted can be
read.  *Supervised runner*: a live worker has its workspace for itself; a recorded result is the one returned, and
no worker is started over it; an end is recorded when the workspace is free and the worker gone, or says that they are
not.  *Surface session*: one of the
racing requests wins; the caller hears of it after the page did; no session is ever without a bound.

## 2. Modules

| Module | Models | Composes |
|---|---|---|
| `DagGraph` | the pure operations of the `dag` type as operators on a state | |
| `DagRun` | a sequential durable run of a dag: one step per recorded decision or outcome | `DagGraph` |
| `GraphExecutor` | any number of executors over one stored run, for an arbitrary graph | |
| `DagExecutor` | the executor with a dag for its graph (`RunsADag`), and its refinement of `DagRun` | `GraphExecutor`, `DagGraph`, `DagRun` |
| `ConvergenceGraph` | the pure operations of the `convergence` type | |
| `ConvergenceRun` | a sequential run of it, with a producer outside the run | `ConvergenceGraph` |
| `CallbackHistory` | what the callback events of a stream fold to | |
| `StoredCallbacks` | any number of callback clients over the stream of a run | `CallbackHistory` |
| `EventLog` | what an event store promises of a stream | |
| `JsonlEventStore` | the segment files and the appends on them, and its refinement of `EventLog` | `EventLog` |
| `Preflight` | the check events and the loop that writes them before work, for one executor at a time | |
| `ArtifactLedger` | what an artifact store promises of a run | |
| `ArtifactStore` | the two directories and the writes on them, and its refinement of `ArtifactLedger` | `ArtifactLedger` |
| `SupervisedRun` | a watchdog, its workers, and the other holder of the workspace | |
| `SurfaceSession` | the server of a session, its requests and timers, and the launcher | |
| `DagRunProofs` | theorems about `DagRun` | `DagRun` |
| `GraphExecutorProofs` | theorems about `GraphExecutor`, and about `DagExecutor` | `DagExecutor` |
| `ConvergenceProofs` | theorems about `ConvergenceRun` | `ConvergenceRun` |
| `StoreProofs` | theorems about the two stores | `ArtifactStore`, `JsonlEventStore` |
| `CallbackProofs`, `PreflightProofs`, `SupervisedRunProofs`, `SurfaceSessionProofs` | theorems about `StoredCallbacks` and the modules of these names | that module |
| `MC...` | instances for TLC | |

Operators named for a mutation (`CommitsAnyway`, `FoldWait`, ...) stand next to the definition they break and
are used nowhere: each shows that the property it belongs to is violated by a plausible bug at that place.

### The executor (`GraphExecutor`)

An action runs from one `await` to the next, which is where JavaScript interleaves.  `pc[e]` is where the pending
operation of executor `e` stands: `Call` is the entry of `run` and `resume` past `exclusively`; `Read` the arrival of
the events; `Decides` the fold and the decision of `drive` (fold and decision are synchronous after the read), or
`DecidesResume` that of `resumePosition`; `AppendDispatch`, `AppendReconcile` and `AppendResume` their appends;
`Awaited` the end of `Promise.all`.  `task[e]` holds the attempts of `e`; a task is one call of `appendOutcome` with the
steps `AppendStart`, `SkipRun` or `Invoke`, `RunReturns`, `AppendReceipt`, `AppendFact`, `AppendOutcome`.  `fg` says whether
`drive` still awaits it: the first append that throws clears it for the whole batch and rejects the operation.
`Slots` lets one executor have a second attempt at a position alive, which only a host that does not wait can cause.

The stream is represented by its fold (`log`): the fold runs from the left, so folding at each commit and folding
at each read agree, and a batch that the fold refuses (`fail('INVALID_EVENT')`) leaves `valid = FALSE` for good.
Four outcomes of an append are possible: it commits; it conflicts; it fails; it fails although it committed.
`OtherAppends` is an append by a writer that is no executor: callback clients write to the same stream
(`stored-client.ts:115`), so that a question or a claim recorded while attempts are at work makes the revision
stale that these attempts append at.

The graph is a parameter: `GraphInitial`, `Reduce`, `ReduceAll` and `Decide` are constants, so the theorems hold for
every graph type.  `ran` and `called` are history variables: the grants (recorded starts and resumes) under which node
code was begun, and the number of engine calls.

The preflight admission before work and `resumePreflight` are in `Preflight`.  The identity that an unavailable engine
reports is taken to be one the plan declares: `readFolded` reads no stream with another
(`graph-executor.ts:614-624`), which is modelled in `Preflight` too.  Left out: token budgets; routes with more than one
fallback; workspaces and result contracts.  Each decides how an attempt comes out, and that is left open.

### The dag (`DagGraph`, `DagRun`)

A definition is a record `g` with nodes numbered in declaration order.  `DagReduce` and `DagDecide` follow `reduce` and
`decide`; the positions of a decision are a set, the one that `collect` arrives at when it walks the candidates in
declaration order and takes each that still finds a free slot (`IsBatch`).  `DagRun` is at the same
time the meaning of a dag by itself and the abstract
specification the executor implements.

### The convergence graph (`ConvergenceGraph`, `ConvergenceRun`)

Body (generator, evaluator), review (seats), repair, and back.  Evidence is a record of hashes, a workspace
fingerprint and a proof digest; an engine identity is a provider and a family; a confidence is there or not; a
finding is its id.  `Receipt` may name any engine in `Answers(n)`, so that an engine can fall back to one that
somebody else declared, or report nothing.  `Invalidate` and `Limit` are the events that a producer outside
this repository may add (`seat-invalidated`, `limit-paused`); they are bounded by `MaxOutside`.
`report` and `wrote` are history variables that remember who said what in which round and who may have written.

### Questions (`CallbackHistory`, `StoredCallbacks`)

A `RequestState` is what `client.ts` keeps of a question, with what `submit` looks up in its history: the last claim, the
answer, the approval subject and the approval.  One definition per event (`Requested`, `Claimed`, ...) is the fold;
`valid` is FALSE once the fold has refused one.  `call[c]` is the operation of client `c`: `Call` starts it, `Post`, `ClaimIt`,
`SubmitPlain`, `SubmitBacked`, `Release` and `Supersede` are a pass through `change` up to the append (the read returns and the
operation is applied to it without an `await` in between), and `Commit`, `Conflict` and `StorageFails` are the ways the
append ends; a conflict applies the operation anew.  `After` is the batch as its effect on the history.
A claim token, which the code draws at random, is the revision its claim is recorded at.  `held` is the token each
client was last told.  A request's identity contains the digest of its content, so a submission with a digest of
another content is a submission to another question.  Left out: the in-memory client by
itself, `resolveApproval`, which only reads, and the `approval()` step of the in-process engine.

### The event store (`JsonlEventStore`, `EventLog`)

A segment file is an entry of `segments`, named by the revision of its first event.  `CallAppend` begins to list the
directory, and `PrepareAppend` decides on what was read: entries linked in between may or may not appear
(`SegmentListings`).  `LinkSegment` is `link(2)`, exclusive;
`SyncDirectory` the directory sync; `Recheck` the second look after `EEXIST`.  A process may end between any two of them
(`AppendDies`), and `PowerFails` keeps what was synced and any part of the rest.  `EventLog` is a log that grows by whole batches of new
identities, with a promised prefix that a power loss cannot take.

### The preflight (`Preflight`)

A check is a lane, a target and a context, or the live check of a target.  `rec` is what the stream folds to
(`Fold`, with `Accepts` for what `loadRunPreflight` refuses); `exec` is the executor of the process that owns the run:
`Read` is the load at the top of the loop in `admitBeforeWork`, `StartCheck` and `FinishCheck` the two appends around
a check, `FailRun` the record of a dead required lane, `Prepare`, `Dispatch` and `Settle` one node from its routing to its
outcome.  What it remembers of the checks (`restored`) dies with its process (`Crash`).  `reader` is a caller of
`interruptRunPreflight`, which reads the stream (`Load`) and closes the open check (`Interrupt`); it may be wrong about
the death of the owner.  An append at an old revision is refused, kept as a flag of whoever appends (`fresh`).
`Reach` is what a failure takes with it: the target, its provider or its adapter; or nothing, where the identity that a dead
engine reports fits no declared target or several.  `appendProbeOutcome` records that as it is (`graph-executor.ts:904-916`)
and every later load throws `ENGINE_IDENTITY_UNRESOLVED` (`unresolved`, `Reads`; `graph-preflight.spec.ts:687-701`).  Left
out: identities otherwise and evidence documents, what an engine is asked, and two executors alive at once.

### The artifact store (`ArtifactStore`, `ArtifactLedger`)

A write commits the bytes (`CommitBlob`, which is done when the file is there, else `SyncBlobs`), lists the
admissions (`List`, `Read`), stops at its own reference (`AcceptAdmitted`) or at a quota that is
full, and links an admission under the next revision (`Link`); when another writer took it, it lists again, at most
`MaxRetries` times.  Files linked while a directory is listed may or may not be seen (`Listings`).  A write may die
(`Crash`) or a call of it fail at every step; `PowerLoss` keeps what was synced and any part of the rest; `DeleteFile`
removes one file of a deleted run.  `accepted`, `relied` and `damage` are history variables.  `ArtifactLedger` is a set
of admitted references under one limit, with a promised part that a power loss cannot take.

### The supervised run (`SupervisedRun`)

`dog.pc` is where the watchdog stands in `superviseRun`: `Lock` takes the lock directory, `Check` reads run and
supervision stream, `Lease` takes the workspace and compares it with the anchor of the pause, `Launch` records the
start of a worker, `Judge` reads its result from the stream, `Backoff` starts another, `Release` gives the lease back and
`Finish` writes the terminal record; `Catch`, `EndFailed` and `Finally` are the error path, on which nearly every call may fail
again.  The worker looks at the run (`Begin`), binds the host module and only then takes up the run or resumes its pause (`Bind`),
works and reports (`Work`, `Report`); it may throw, hang or die at each step, and so may the watchdog.  A check of the preflight
may leave a run that cannot be read (`unreadable`), which no watchdog settles; an acquisition that fails may leave a
lease whose token nobody has (`stray`).  `TakeLease`, `Edit` and `ReturnLease` are somebody else with an eye on the workspace.  The stream is
kept as the few facts that are decided by (`log`), the run as how far it is (`run`): what a worker does to it is
`GraphExecutor`, and its preflight `Preflight`.

### The surface session (`SurfaceSession`)

What the server does between two awaits is one step.  `claim` is the one decision and who made it; `Complete`, `Cancel`,
`LeaseLapses`, `SessionTimesOut` and `Signal` race for it through `ClaimTerminal`.  A request arrives, is served,
its response is sent in one step and goes out in another (`Finish`) or its connection closes first (`Drop`); what
waits for the end of a response is its `effect`.  A handler may go on after it has returned.  The launcher
places the session, waits for the decision, writes the frame and stops the server.

## 3. What the runs check

| Run | Instance | Properties |
|---|---|---|
| `dag_run` | every valid dag of three nodes over subsets of the edges 1-2, 2-3, 1-3 and 3-1, with and without a key of limit 1 on two nodes, global limit 1 or 2, retry cap 0 or 1, stopOnError on and off: 1968 definitions | `DeclaredLimitsHold`; `OrderHolds`; `TerminalIsHonest`; `StopMeansStop`; liveness `RunEnds` |
| `executor` | two executors one at a time, two nodes at work together of which one is retrySafe, a crash, a storage error, under fairness | `WorkIsOpen`; `ReceiptsCoverCalls`; refinement `ImplementsDagRun`; liveness `RunConcludes` |
| `executor_shared` | two executors alive at once, no process lock, one engine node, a crash, a storage error, a wait, an append by a writer that is no executor | `LogFolds`; `OneRunPerGrant`; `RerunOnlyAfterPause`; `FinalIsFinal` |
| `executor_reentry` | one executor, two nodes, a host that does not wait for attempts that were left over | `LogFolds` is **violated** |
| `event_store` | two writers, four batches of which two overlap a third, at most three events, one power loss, crashes and failing calls without limit | `AckedIsOneCommit`; refinement `ImplementsEventLog` |
| `convergence` | three definitions with two seats (one repair; two iterations with one seat at a time; a quorum of two diverse seats with a retry), one invalidation or limit | `AcceptanceIsSound`; `PassesStayCurrent`; `ReviewsStandStill`; `BoundsHold`; `NeverSilent` |
| `convergence_repairs` | one seat, two repairs, no producer | `RepairsAnswerReports` is **violated** |
| `callbacks` | two clients that route under one name, two questions of one gate of which one asks for an approval, answers that fit and one that does not, an append by an executor, a crash, a storage error | `HistoryReads`; `OneQuestionPerGate`; `SubmitsAreToldTruly`; `OwnersKeepClaims` |
| `preflight` | two lanes that share a target, one with live checks and a policy that blocks what is unsupported, one with two contexts and neither; one node of work; two faults, each a failed check (the engine's identity resolved or not), a failed append or a death | `PreflightFolds`; `WorkIsChecked`; `NeverStuck`; liveness `AdmissionSettles` |
| `artifact_store` | two writers, three references of two digests, of which two share one, limits of 2 (one digest fits) and 3 (both do), two retries, crashes and failing calls without limit, a power loss and a deletion | `AdmittedBytesExist`; `AcceptedIsReadable`; refinement `ImplementsArtifactLedger` |
| `supervised_run` | a run with a preflight, one restart, two pauses, two failing calls, host modules that cannot be bound; stop, deadline, deaths of watchdog and worker, another holder of the workspace | `WorkerOwnsTheWorkspace`; `ResultIsReturned`; `RetainedIsTold`; `EndsAreClean`; liveness `DoneSettles` |
| `surface_session` | three requests, each of any kind, all timers, a signal, the launcher | `OneWinner`; `HandOffAfterAnswer`; `AlwaysBounded`; liveness `DecisionSettles` |

**Bounds, and why they are enough.**  Two executors and one position are the smallest instance in which a
snapshot can be old, a start can be recorded by one and the position taken by the other, and a decision be
lost; two positions are needed for a batch that rejects in part and for a decision recorded in part, and the
run `executor` has them.  `MaxCrashes`, `MaxFaults`, `MaxWaits` and, in the shared run, `MaxOthers` of 1 give
each fault once at every point,
and every pair of different faults.  The run `executor` has no other writer and no wait: `ReceiptsCoverCalls` under
them is left to the theorem.  `MaxGrants` bounds only how often a host resumes one position: two in the shared
run suffice for a start, a lost attempt and its resume; the run `executor` allows 10, which is more than one crash,
one error and one wait can use up, so it never stops the host there.  Three nodes are enough for a chain, a
fork, a join and a finalizer beside workers.  Three events let one batch overlap two others.
`MaxRevision` of 7 in `callbacks` lets a question be posted, claimed, replaced, posted again, claimed by the other client
and still be answered or released with the outdated token; calls that are under way go beyond it.  The definitions of
`convergence` are small in each direction and together reach every disjunct of the graph; runs with both a repair
and a retry in one definition are beyond TLC's reach within minutes.  Two faults in `preflight` let a check fail and
the process that recorded it die, or a reader close a check whose owner then fails; the shared target is what one
lane may retire for the other.  In `artifact_store` two references of one digest show that bytes are charged once,
the two limits that a store opened under another policy is refused, and two retries that a writer can lose twice;
more than two writers add no new pair of steps.  `supervised_run` has a restart after each of two pauses, and a second
fault while the first is being cleaned up.  Three requests are a winner, a loser, and a page that asks again or
acknowledges.  Deadlock is checked wherever the system cannot stop: a graph that has ended stutters by an
explicit `Stop`, and clients that reached their bound by `Rest`.  It is not checked in `preflight`, `supervised_run` and
`surface_session`, where the run is over, the processes are gone, or the session is written and stopped; there a
liveness property says that this end is the right one.

**Fairness.**  `FairSpec` of `GraphExecutor`: JavaScript runs every continuation that is ready and the file system
answers (weak fairness of each operation step and of each attempt step; `RunReturns` is among them because every
attempt has a deadline); a host keeps an executor up (weak) and calls `run()` and resumes each open position again
and again (strong, as an operation under way disables the call for a time).  No fairness is assumed of crashes,
errors or waits, nor of which way an attempt goes.  `DagRun` assumes that decisions are recorded and paused
attempts resumed (weak) and that an attempt that is offered again and again settles once (strong): a pause
policy that answers "wait" for ever is a host's choice and no end can be promised against it.  `Preflight`: steps of a
live executor end; a dead process is followed by another, and a paused preflight is resumed, since a run nobody
takes up again stays where it is; a check left open by a dead process is closed by a reader.  `SupervisedRun`: the
steps of the watchdog, whose calls all return, and its deadline; nothing of the worker, which may hang, and nothing of
the other holder.  `SurfaceSession`: the session and the acknowledgement timer fire, a sent response goes out or its
connection closes, and the launcher goes on; a handler may never answer.  The remaining modules state no liveness; `NeverSilent` with `BoundsHold` says of the convergence graph that it always ends or pauses.

**Disagreements found.**

1. `executor_reentry`.  `exclusively` refuses a call with "This graph executor is already running."
   (`graph-executor.ts:1302`), but `running` is cleared once one attempt of a batch has rejected, and the others go
   on.  A host that then calls again on this executor moves the `appendRevision` that they append at; one of them
   records an event which every later fold refuses, and the run can never be read again.  With the host waiting
   (`HostWaits`) this cannot happen, which is theorem `StreamFolds`.
2. `convergence_repairs`.  A seat that fails "consumes no repair attempt" (`loop.ts:16-18`).  Its failure keeps the verdict
   and the findings it reported before the last repair (`loop.ts:855-862`), so a seat that fails in the next round
   sends the run into another repair that nobody asked for in that round.

Three more are about a limit of the code that its documentation does not draw; no run has them violated, as the
properties say how far each sentence holds.  "Accepted artifacts stay until
`deleteRun` removes that run" (`docs/public/recording/events-and-artifacts.mdx:82`) holds through a power loss only
unless the write took for kept what another writer had linked and not yet synced: `commitBlob` returns early when the
file exists (`file-store.ts:615`).  `AcceptedIsReadable` states how far it holds.  And "Nothing is dispatched before the
checks finish" (`docs/public/graphs/executor.mdx:57-58`) is said of a run, while a run that was admitted and whose
process died with a node open is checked again by the next one, whose failed check records the end of the preflight
with that node still open (`graph-executor.ts:936-943`); `WorkIsChecked` says what holds, that no work starts unchecked.  Last, "the watchdog returns that result" of what its worker
recorded (`docs/public/driving/runner.mdx:113-116`): a worker that was to resume a pause of the preflight and could not
bind its host module (`supervised-worker.ts:81-134`) records a failure, while the run still stands at that pause; the
watchdog looks at the run first (`supervised-run.ts:382-413`, `488`) and ends it as paused, so that the failure is told to
nobody and no call has failed.  `ResultIsReturned` excepts just that.

Met while modelling and visible in the models, but not contradicted by a sentence of the repository that a run
could quote: `attempts` is never reset in a convergence run, so `retryCapPerNode` is a cap for the run and not for
each failed round; an abort, a required seat without an engine and `limit-paused` set a pause reason that only a
dispatch clears, and the graph never dispatches while one is set; a seat that fails while it is marked stale stays
so, and its next fresh verdict is discarded; a malformed verdict is not retried; finding rounds count reports and not
rounds; a `seat-invalidated` for a paused seat is lost; a claim whose commit an error hid
from its router leaves the question claimed under a token that nobody holds, until it is superseded (the documentation
says as much of a router that died); the answer to a plain question whose commit was hidden is refused when it is
submitted again, though it is on record, while one with an approval is recognised; the declared bounds do not
count the reviews that
invalidations ask for (`BoundsHold` adds `outside`).

## 4. What is proved

Every invariant, action property and refinement that a passing run checks is a theorem, for every value of the
constants the ASSUMEs of the modules allow; the runs evaluate these.  The theorems about `GraphExecutor` leave its
constants open: any graph operations whatever, any number of
executors, positions and slots, any number of crashes, errors, waits and other writers.  Those that need more
say so before `Spec`: `HostWaits`, that a host calls an executor again only when no attempt of it is left at work;
`Exclusive`, that a process lock admits one executor at a time; `RunsADag`, that the graph operations are those of a
valid dag.  The run `executor_shared` has the first, the run `executor` all three.  Those about `StoredCallbacks` hold
for any questions, gates, clients, routers and bounds; about `DagRun` and `ConvergenceRun`, for any
set of valid definitions over finitely many nodes, and in the latter for any engines, gates, reviews and events from
outside; about `Preflight`, for any lanes, targets, policies and faults; about
`ArtifactStore`, for any writers, references, sizes, limits and retries; about `JsonlEventStore`, for any appends of any
batches with an event in them; about `SupervisedRun`, for any number of
restarts, pauses and faults; about `SurfaceSession`, for any number of requests.

*The executor (`GraphExecutorProofs`).*

* `TypeCorrect`: `Spec => []TypeOK`.  To be inductive it needs that a resume under way names a position
  (`AllTyped`).  The lemmas on the fold (`FoldsAreLogs`, `DispatchesAreLogs`) say that an event makes a log of a log,
  accepted or not.
* `StreamFolds`: `HostWaits => (Spec => []LogFolds)`.  `LogFolds` alone is not inductive: an append is safe because of
  what its writer knew.  `StreamInv` adds for each executor (`InStep`) that what it read is no newer than the stream
  and is the stream if it is as new (`ReadIsPast`, `ReadIsFresh`), that its decision follows from what it read
  (`DecisionFollows`), that attempts at work are awaited or given up (`WorkIsAwaited`), and that as long as nobody else
  wrote, what its attempts hold agrees with the stream (`WorkIsInStep`).  An append that commits is at the revision its
  writer holds, hence decided on the very stream it extends, hence accepted by the fold; every other executor is
  then behind and none of its claims has to hold.  The assumption is used where a host calls again: it finds no
  attempt left over.  Run `executor_reentry` shows it cannot be dropped.
* `RunsAreGranted`: `HostWaits => (Spec => []OneRunPerGrant)`.  `GrantInv` adds that a position nobody dispatched has no
  grants, and that the grant an attempt is about to use was used by none and is held by no other.  Each step
  either adds one new grant for one attempt (`Granted`) or leaves every attempt what it had (`Kept`), and records are
  only ever added to (`Advances`); the acceptance of the appended event is taken from `StreamInv`.
* `RerunsAreAsked`: `HostWaits => (Spec => []RerunOnlyAfterPause)`.  Beside `GrantInv` the invariant says (`Asked`) that the
  grants of a position not bound retrySafe, and one more while it is paused, are no more than its recorded pauses, and
  one more once it was started.  Every fold keeps that, except a resume of an attempt that is not paused; such a
  resume is decided only for a retrySafe attempt (`DecisionFollows`), and commits only on the stream it was decided
  on.  Node code ran under distinct grants between one and the last recorded, so it ran no more often than that
  (`DistinctAreFew`, an injection).
* `WorkStaysOpen` and `ReceiptsAlwaysCover`: `HostWaits /\ Exclusive => (Spec => []WorkIsOpen)`, and the same of
  `ReceiptsCoverCalls`.  `HeldInv` says that at most one executor is up (`Alone`), that each attempt it has at work
  is in flight in the stream, also when another writer made its revision stale (`HoldsOpen`), and that
  the calls made are the receipts recorded and the one that an attempt, or after a crash the open
  record, is still owed (`CallsCounted`).  What a second executor could do to this is kept out by the lock alone: without
  it an executor that is behind still has its node at work when another one reconciles that position.
* `RunIsDagRun`: `HostWaits /\ RunsADag => (Spec => ImplementsDagRun)`.  Each append tells the graph of a dispatch that
  the graph decided on the state it is told in, or of one outcome of a position that is open, or of nothing (`Told`);
  that is where `StreamInv` is used, for a decision taken on an older state would be no step of `DagRun`.  That the folded
  state stays one of the dag (`IsGraphState`) makes each of these the step of `DagRun` it looks like.  So
  the theorems of `DagRunProofs` hold of what many processes record together.
* `FinalStays`: `HostWaits /\ RunsADag => (Spec => FinalIsFinal)`.  The record and the dag agree, position by position, on what
  is at work or paused (`IsLinked`); so nothing is open in the record when the dag has ended (`NothingOpen`), and a
  dag that has ended decides nothing but its end.  Who reports an end read it from the stream, and the stream is
  still that one, or was that one (`FinalInv`).  The executors that are behind have nothing they could commit.

*The dag (`DagRunProofs`).*

* `OrderAlwaysHolds`, `LimitsAlwaysHold`, `TerminalAlwaysHonest`, `StopAlwaysStops`: the invariant says that a
  node is pending exactly until its first dispatch, that the order holds, and that the limits hold with paused
  attempts counted in, which may come back.  Each step is one of two: a batch as `collect` describes it, or a new
  status of one open node.  That `collect`, a CHOOSE, returns a batch, and that a run cannot end with nodes that
  nobody can claim, is shown on minimal sets, in place of an induction over data.
* `DeclaredLimitsAlwaysHold`: no node is dispatched more often than it may be, which is once, and once per retry if it is
  required and the plan does not stop on an error (`Capped`, `Allowance`), a decision fits beside what is open
  (`DecisionFits`), and the declared
  maximum is the sum of what the nodes may be asked.  The sums are folds over sets, and so what one is had to be proved
  first: that a term can be taken out of it (`SumApart`), that it grows with its terms (`SumGrows`), and
  that it counts a set when all terms are one (`SumCounts`), each by contradiction on a smallest set for which it fails
  (`NoneMinimal`).

*The convergence graph (`ConvergenceProofs`).*

* `AcceptanceAlwaysSound`, `PassesAlwaysCurrent`, `ReviewsAlwaysStandStill`, `RunNeverSilent`: each `Spec => []` of the
  property of the run, from one invariant.  That a run completes only on sound passes says nothing of how a seat comes by
  one, so the invariant keeps with every seat that counts the pass its engine last reported (`PassesBacked`); with the
  review, that this pass was on what is under review (`PassesSeen`), which holds because every way into a review
  takes the passes on something else away, and every writer is done before (`ReviewersAlone`); with the engines that may have
  written, that they are noted (`WritersNoted`) at the very step that reports them; and with the body, that its evaluator has
  not passed, so that there is somebody to ask (`BodyGoesOn`).
* `BoundsAlwaysHold`: `Spec => []BoundsHold`.  The property compares all dispatches with a sum over the nodes, while the
  code nowhere counts them together.  `Budget` divides it: every node has a cost, the attempts it had and the one it is
  sure to be asked for next (`Cost`; for a seat, also the review it will be asked for when the body is done, and the one
  a late invalidation costs it, `SeatCost`), and the cost is within `retryCap`, the iteration and the restarts that the run is in
  (`LoopPaid`), for a seat with a share of what producers outside the run asked for (`SeatsPaid`; the shares add up to
  `outside`).  A retry is paid by the cap, and every step that starts a new round raises an iteration or a
  restart with it.  That one invalidation is charged once needs that the seat's flags and its node agree
  (`Fresh`, `InOrder`).

*The two stores (`StoreProofs`).*

* `BytesAlwaysExist`, `StoreIsLedger`: the revisions of the admissions are those from one on (`InOrder`), so that a listing
  is a beginning of them however late it is; a writer about to link has found that those below its revision are of
  its limit, without its reference, and leave it room (`MayAdmit`); its link succeeds only when there are none above.
  So every step of the directories is a step of `ArtifactLedger` or none.
* `AcceptedAlwaysReadable`: what a write was told is admitted stays, with its bytes (`AcceptedStay`).  A power loss takes
  only what is not synced; as long as no write relied on what another had not synced, that is at most the last
  admission (`OnlyLastUnsynced`), which nobody was told of yet.  A writer past its bytes finds them there (`WriterStays`).
* `AckedIsAlwaysOneCommit`: an append that is about to link has read a stream that ends where its segment begins
  (`MayLink`), and segments are linked only there, so no two have a revision in common (`SegmentsApart`) and no identity is
  there twice (`IdsOnce`).  An append that recognises its batch as committed found it in one segment, at its revision, and what
  is told to its caller (`HasLinked`, `AckHolds`) a power loss leaves, as it was synced.
* `StreamIsLog`: `StreamSpec => ImplementsEventLog`.  The abstract log is what the segments hold up to the first gap, which
  only a power loss makes.  For an uninterrupted stream that is every event (`WholeIn`, `EventsIn`), so a link adds its batch at the
  end, a sync moves the promise, and a power loss leaves a stream that keeps what was promised.

*The other components.*

* `HistoryAlwaysReads` and `GatesHaveOneQuestion` (`CallbackProofs`): `Spec => []HistoryReads` and `Spec => []OneQuestionPerGate`.  The
  invariant (`AppendsFit`) says that the history is sound (it reads, each gate has one open question at most, and only an
  answered question has an approval) and that each pending append, if nobody appended since its client read, leaves
  it sound.  `OperationsDecide` and `MayRecord` say what each operation may record, `DecidedIsSound` that it fits what was
  read; an append commits only on the very history it was decided on.  The third part is why the check that
  `submit` makes for an approval without a submission (`stored-client.ts:385`) can never fail, and is not in the model.
* `SubmitsAlwaysToldTruly` and `OwnersAlwaysKeep` (`CallbackProofs`): a claim's token is the revision it was recorded at, so no
  two claims have the same (`TokensDiffer`), and the record keeps the last claim of a question with the
  answer given under it (`RecordsFit`).  An append that is still at its revision records what was decided,
  and its caller will be told so (`Stands`); one that was told of its answer finds it there (`ToldTruly`).  `ClaimsHold` is their conjunction.
* `StreamAlwaysFolds`, `WorkAlwaysChecked`, `ExecutorNeverStuck` (`PreflightProofs`): what an executor read of the record
  is so as long as its revision is current (`Knows`), for whoever else appends takes that currency away, and what it
  holds for restored did pass, and stays passed (`RestoredPassed`), for only an executor starts checks.  `PreflightFolds`
  says that no event is refused as out of place; a stream in order may still not be readable, and then no work
  starts on it (`WorkIsChecked`).
* `WorkspaceAlwaysOwned` (`SupervisedRunProofs`): the property speaks only of times with a worker, so the invariant
  follows the lease from where it is taken to where it is released (`DogHolds`), the workspace wherever a launch may
  follow (`Secured`), and the worker (`WorkerHolds`).
* `ResultAlwaysReturned`, `RetentionAlwaysTold` and `EndsAlwaysClean` (`SupervisedRunProofs`): these need an invariant about the
  record.  `ToldInv` follows a lease that stays from the call that failed to the record that says so; `ResultInv` says of a run in which no
  call has failed that nothing but the worker's result was recorded since its launch, and which outcome each place of
  the watchdog carries once it is.  `EndsAlwaysClean` is of the steps that record an end, each at a place where the first two
  invariants say what has become of lease and worker.
* `OneAlwaysWins`, `HandOffWaits`, `BoundAlwaysRuns` (`SurfaceSessionProofs`): while the session is open nothing of an
  ending exists and both its timers run (`Undecided`); a page acknowledges only what it was told (`Asked`); the claim makes
  one request the winner, with an answer on its way that will start the clock, or the clock (`WinnerHolds`), and no
  other request is told that it won (`Claimed`); and the frame the launcher writes is of the claim (`Writing`).

Each proof module also proves the type invariant of its module (`TypeOK`), wherever the module states one.

Model-checked only: liveness under fairness (`RunConcludes`, `RunEnds`, `AdmissionSettles`, `DoneSettles`, `DecisionSettles`), which
needs ENABLED and the fairness rules, out of the reach of the installed provers; and the two violations of section 3,
which are behaviours and not theorems.  In place of inductions over data, which the provers cannot make either, the
proofs argue on smallest sets and smallest numbers, as said above.

## 5. What is not modelled

The components marked so above.  The team graph and the git leases have protocols of their own and are next in the
plan; `SupervisedRun` takes a lease in one step that succeeds or fails, so the two git writes behind it are not seen, only that a failure may leave the lease taken.
Token budgets are reservations in the memory of one process.  In-process loops, rendering, plugins and adapters
have no state that another process acts on.  Bytes, checksums, schemas, canonical encodings and digests are left to
tests: the models compare them as values.  The contents of node work are open choices.

Within the modelled components: two executors alive at once on one preflight; routes with more than one fallback;
the in-memory callback client; the checkpoints and the status file of the supervised run, which only report; the
checks of host, origin and token and the static files of a session.

## 6. Plan

1. **Git leases**: the ref and the record of a lease as two writes, a process that dies between them, recovery and a
   late owner, composed with `SupervisedRun`.
2. **Team graph** (`TeamGraph`, `TeamRun`): members, queued turns, triggers and the turn cap, on the pattern of the
   convergence graph.
3. **Token budgets**: reservations against late settlements.
4. **Proofs**: the theorems that those modules will need.  Every safety property that the runs check of the present ones is
   proved (section 4).  What a sum over a finite set is has been proved twice, in `DagRunProofs` and in
   `ConvergenceProofs`, and the model of the dag bounds its capacity by a sum as that of the convergence graph does: the
   lemmas belong into one module that both extend.
