# Models of overcli's engines

overcli is an Electron program whose main process runs coding agents: a *flow* is
a list of steps, a *run* carries it out in a worktree, and around the runs stand
engines that start them in batches, on a clock, or on behalf of a worker or a
team. This directory holds TLA+ models of those engines, TLC configurations that
check them on small instances, and TLAPS proofs about them.

Everything here is about one event loop. The main process has no threads: a
handler runs to its next `await` without interruption, so an action of a model is
one such stretch - a call from the window, the return of one promise, one update
of a run. What can go wrong is what happens *between* two stretches of the same
handler, what a callback does to the state of the handler that caused it, and
what a crash leaves on disk.

## Inventory

| part | state | operations | hard because |
|---|---|---|---|
| **Batch orchestrator** `flows/orchestrator.ts` | batches with their items, saved copies, pumps in flight | create, approve, reject, abort, pause, resume, retry, delete; pump; run updates | several pumps of one batch overlap; the runtime calls back from inside its own handlers; the link to a run is written after a wait |
| **Flow runtime** `flows/runtime.ts` | runs: state, artifacts, conversations, waiters, checkpoints | start, step, gate, continue, finalize, retry, rerun, hold, abort, delete, watch | every step waits for an agent; abort and continue race with what was awaited |
| **Scheduler** `flows/scheduler.ts` | schedules, one timer, launches in flight, run -> schedule | tick, fire, chain, run now, save, switch, remove, settle | launches take seconds; objects are replaced by edits; late timers, restarts |
| **Worker engine** `flows/workerEngine.ts` | workers, shifts, errands, journal, funding | tick, plan a shift, errands, hand-offs, trust | serial roster behind one timer; journal folded from batch events |
| **Team engine** `flows/teamEngine.ts` | team tasks by stage and piece, launches and turns in flight | brief, plan, ask, revise, approve, run stages, retry, redo, skip, cancel, recover | long turns and commissions during which people act; the orchestrator answers from inside an abort; one queue that nothing polls |
| **Service supervisor** `services/supervisor.ts`, `launchGate.ts`, `ports.ts` | processes, rows of the pane, bindings, adoptions, watchers, gate | start, adopt, stop, restart, rebind, edit, watch | a launch has six waits before its process exists, and a process outlives the row that named it |
| **Runner** `runner.ts`, `backends/` | agent processes, one per conversation | send, stop, prewarm, watchdogs | protocols of other programs |
| **Permission broker** `claudePermissionBroker.ts`, `permissionPolicy.ts` | open questions | ask, answer, expire | answers that arrive late |
| **Org service** `org/` | accounts, triggers, processes, secrets, grants | sync, fire triggers, run processes | a server at the other end |
| **Slack bridge** `slack/` | threads, deliveries | receive, answer, deliver | duplicated and reordered events |
| **git and worktrees** `git.ts`, `worktreeSweep.ts`, `flowRunClaims.ts` | trees and branches on disk | create, adopt, release, sweep | claims against a sweep |
| **Stores** `orchestrationsStore.ts`, `schedulesStore.ts`, `runsStore.ts` | one JSON file a record | save (temporary file, rename), load, settle on load | a crash between two saves |
| **Window, CLI, preload** `renderer/`, `cli/`, `preload/` | mirrors of the engines | IPC calls | no decisions of their own |

How they meet: `index.ts` (587-680) makes the flow runtime the launcher of the
orchestrator and of the scheduler. Every update of a run goes, synchronously from
inside the runtime, to `orchestrator.onRunUpdate`, then `scheduler.onRunUpdate`,
then the Slack bridge. The worker engine parks its work as batches of the
orchestrator and the team engine commissions workers. So a run is the shared
object, an update of it is the message, and the order of the observers matters.

What makes each right, in a sentence. *Orchestrator*: an item tells what its run
does, launches stay under the cap, nothing is stranded at "running", the end is
noticed and survives a crash. *Scheduler*: one run of a schedule at a time, one
firing a period, a timer always set, sequence numbers never reused. *Runtime*: an
aborted run stays aborted, a step runs once for each time it is asked for, a
checkpoint can be resumed from. *Supervisor*: one process a service, a stop
stops, a slot of the gate is given back. *Teams*: a task that reads as
running is moved on, no run goes on that nobody waits for, one task works at a time and
the queue moves. *Workers*: spending stays within the funding.

## Modules

    BatchLedger  <---- refines ----  Orchestrator
                                          ^
                                     OrchestratorProofs
    Walks  <---  SchedulerProofs, TeamProofs
    SchedulerProofs  ---> Scheduler
    FlowRunProofs  ---> FlowRun  <--- MCFlowRun
    LaunchGate  <---- refines ----  Supervisor  <--- MCSupervisor
                                        ^
                                   SupervisorProofs
    PursuitProofs  --->  TaskProofs  --->  TeamProofs  ---> TeamEngine  <--- MCTeamEngine

**Orchestrator** is one batch: batches share only the runtime, and a child names
its batch. `engine` holds the batch object `o`, whether the map still lists it
(`live`), its file, and the promises in flight: items whose shared fork is
pending (`forking`), items whose `startRun` is pending (`starting`), pumps in
`reclaimSharedBranch` (`reclaiming`), git asked for a commit (`capturing`), and a
completion that has been noticed and not saved (`closing`). After a delete the pumps
keep the object and go on changing it, as in the code. `runState`, `hold`, `onDisk` are what the runtime knows of the child runs.
`Pump`, `PumpLoop` and `OnRunUpdate` are functions from engine to engine, because
the runtime calls the engine back from inside a handler and the pump runs inside
`onRunUpdate`; actions compose them in the order of the code.

| action | code |
|---|---|
| Init, ApproveBatch, RejectItem, AbortBatch, PauseBatch, ResumeBatch, RetryAny, DeleteBatch | the method of that name in `orchestrator.ts` |
| RejectRun | `rejectWorkerRun` in `org/wire.ts` |
| StartRunReturns, StartRunFails, ForkReturns, ForkFails, ReclaimReturns | the three waits of `pump` |
| CaptureReturns, LandingUpdated | `captureLandingCommit`, `setLandingUpdate` |
| RunPauses, RunHeld, RunFinishes, RunAborts, RunResumes, RunReruns | updates emitted by `runtime.ts` |
| RunDeleted, Checkpointed | `deleteRun`, the first save of a run |
| SaveCompletion | the save `maybeComplete` ends with |
| CrewLeaves, CrewReturns, TreesVanish, Restart | `workersAway`, the disk, process death and both loaders |

Abstractions: `startRun` and the minting of its run are one step (the runtime
registers the run before it resolves; an end emitted in between is the "aborted"
and "paused" cases). The loops of abort, pause and resume are written in closed
form: abort drains first, so its nested updates change nothing. The loop of
delete is a loop here too, a function on 0..N (`DeleteLoop`), since each child it aborts
re-enters the pump before the next is looked at. The item that settles last and the
completion of its batch are two saves, with a step between them (`closing`,
`SaveCompletion`) in which a process may die and no handler runs (`LoopFree`); the
history `torn` remembers that one did. Abort and delete, which change the files of their
children too, are otherwise one step: a death in the middle of one is left out. A
save that fails is logged and forgotten by the store (orchestrationsStore.ts
51-61); saves succeed here. `runToBatch` is left out: the engine always
sets `parentOrchestrationId`, so the scan finds the same batch. Pruning of old
batches is left out. A new commit on an item's branch is its attempt's number.

**BatchLedger** is what a reader of a batch is promised: the moves an item may
make, the cap on launches, and when the batch is over. Orchestrator implements it
with `status <- engine.o.status, completed <- engine.o.completed`.

**Scheduler** keeps every *object* a schedule has had (`objs`) and which is in the
map (`cur`), because `save` replaces the object while a tick, a chain or a launch
may hold the old one. `firing` is the launch in flight of each schedule with who
waits for it and the list (`listed`: which object of each schedule) that caller took before
it began to walk, which is how one tick or chain spans several steps. A walk is a function on
0..M: each value is made from the one before by what is done with one schedule (`TickWalk`
and `ChainOn`), and a launch ends it. `evaluateSchedule` is `Decision`, split into the ideas
it decides by (`Anchor`, `DueAt`, `Late`, `Missed`, `Busy`); `arm` is `Arm`; the tick
is `Tick`/`TickOn`/`TickWalk`/`TickOne`, the chain `ChainOn`/`ChainOne`, `fireInner` is `Fire` up
to the launch and `LaunchReturns` after it. The clock counts units of the longest
timer; a due timer may be served late, by any amount. Left out: cron, daily times
and active windows (calendar arithmetic), targets that park a proposal (they have
no run of their own), `onOutcome: any`, changes of policy, and schedules created
on the way. Of the history only what it says of each run is kept: that it was launched,
or that it has ended. It is on disk and outlives the process; who is to be told of
the run's end does not, and `unseen` remembers the runs that still went, or whose
schedule was gone, when a process died.

**FlowRun** is one run: `flow` is the snapshot of its flow, `rt.run` what a checkpoint
saves, `rt.disk` the checkpoint, the rest of `rt` the runtime's memory of the run
(buffer, budgets, finalize waiter, watchdog, promises in flight as `awaits`) and the
conversations of its participants. A conversation holds the sends whose launch is
being prepared, `claudeSendPending`, and the turns its process was given with
`turnInFlight`. `stop()` and a failed send report a conversation idle *synchronously*,
so the handlers are functions from state to state that the actions compose.

| action | code (`runtime.ts` unless said otherwise) |
|---|---|
| Init | `startRun` from the run's creation |
| ResumeRun, Override | `resumeRunInner` with and without `override`; `finalizeAndAdvance` to its wait |
| RerunFromStep, HoldRun, ReleaseHold, AbortRun, DeleteRun | the methods of that name |
| Chat | a person's message to a participant |
| Launches, LaunchFails, TurnEnds | `send`, `sendSubprocess`, a result, a closed process in `runner.ts` |
| Says | `observeEvent` of a stream |
| RefreshReturns, DiffReturns, AnswerReturns, ChangedReturns | the waits of `executeStep`, `onStepFinished`, `resolveWorkerQuestion`, `enterIfChanged` |
| FinalizeTimesOut, Sweep | the three-minute timer of a finalize turn, `sweepStuckSteps` |
| Restart | `loadAllRuns` and the constructor |

Inside them stand `Execute`/`Launch` (`executeStep` before and after its wait), `Enter`,
`AdvanceAfter`, `Failure`/`Retry`, `StepFinished`/`Question`/`Missing`/`Success`,
`Finalize`/`Finalized`. Two histories tell what the properties need: `settled`, the
steps whose last result lets the run go on, and `cleared`, the steps somebody said go
to since the run last came to them.

Assumptions of FlowRun: a send is accepted (a launch that fails later is
`LaunchFails`); conversations are Claude's, whose sends wait for a broker; a
checkpoint is on disk at once; nobody starts the run anew while a git call of it is
pending (`QuickGit`); and git (seconds) and a finalize turn (three minutes) end before
the watchdog's half hour (`Patient`). Left out: watches, adoption of workspaces,
run-wide grants, queued corrections, attachments, model overrides, cost (its ceiling
is an AbortRun).

**LaunchGate** is the gate of heavy launches, as a specification of its own: asking,
the line, releasing, and that a release counts once. **Supervisor** instantiates it
with the processes its launches are going to be, and `GateSpec == Gate!Spec` says that
nothing the supervisor does moves the gate in another way.

**Supervisor** is one stack's supervisor. A method that waits is a frame, a call in
flight a stack of them (`stacks`): the wait is on top, under it stand the methods that
wait for it, and a step is what one frame does between two waits. `at` names the wait. The
rows of the pane are `runtimes`; `procs` is which process the supervisor thinks a service
runs, `processes` the ones there are, so that the two may differ.

| action | code (`supervisor.ts`) |
|---|---|
| CallStart, CallStop, CallRestart, CallRebind, CallRemove, CallEdit | the methods, up to their first wait; `startOrder` and its loop are `Dependency`, `DependencyDone`, `VerifyDep` |
| Claim, Plan, Mirror, Env | the waits of `launch` before the gate: the port, the plan, the projection, the shell |
| Turn, Boot, BootDied | the gate's grant, the spawn, a process that died at once |
| SpawnThrows | a spawn that throws out of the methods that wait for it |
| Probe, Probed, Ready, LateAnswer | `waitUntilReady`, and its answer after the launch gave up on it |
| TaskEnded, Exit | `finishing`, `onExit` |
| StopWaited, StopVerified, LeftoverStopped, Relaunch, RestartFollowers, Rebound, ReboundMirrored, Changed | what follows the waits of `stop`, `restart`, `rebind`, `restartForChange` |
| Adopt, PollAsk, PollAnswer, LeftoverExits | `adopt`, `pollAdopted`, and the leftover outside |
| FileChanged, ChangeDue | a code change, its debounce |

Abstractions of Supervisor: ports are had or not had (leases of other stacks, offset
starts, debug ports and pinned checkouts are left out); every fault of a configuration is
a failure of `Plan` or `Env`; `ps` answers, in its own time; the lookups of an adoption
are one step with the last check of it; a wait for a stopped process may run out at any
time; `rebindAll`, logs and the manager around the supervisor are left out.

**TeamEngine** is the tasks of one team. `Plan`, a constant, says what the stages of every
plan are and which members have a piece in them. What a handler does on its way is an
operator from the whole state to the whole state (`Now`, `Becomes`), because `Advance`,
`LaunchStage` and `CheckStage` call one another, and because cancelling a batch tells the
engine so before the cancel returns (`Told`). A microtask that `persist` queues is
`waking`. What visits every task (`CrewReturns`, `Restart`) is a recursive function on
`0..K`, one task at a step.

| action | code (`teamEngine.ts`) |
|---|---|
| Brief, Answer, Revise, Approve, ContinueTask, Retry (`RetryPlan` for a failed plan), RetryPiece, RedoPiece, SkipStage, SkipPiece, Cancel, Accept, DeleteTask | the method of that name |
| PlanReturns, TurnReturns | `plan`, `runCoordinatorStage` after the turn |
| RestoreReturns, CommissionReturns, CommissionRefused, LaunchEnds | the waits of `launchMemberStage`, and what follows its `finally` |
| CommissionRejects | a commission that throws out of `launchMemberStage` before its batch is made |
| BatchChanges | an update of a batch: `observeEvent`, `applyBatch` |
| WakeUp | `startNextTask` |
| CrewLeaves, CrewReturns, MemberPaused, Spends | `crewAway`, `crewBack`, a worker switched off, the bill |
| Restart | `start` and `recover`, after the orchestrator settled its batches on load |

Abstractions of TeamEngine: a batch has one item and is its state, and its number is
free again once it is over; a member without a piece in a stage has one
there that is never used; a repair of a plan is part of its turn; a piece's changes merge or clash; `persist` writes at once, so memory is
what a restart finds, between two macrotasks. Left out: hires, the room of a
task and the work it hands off, what a team learns, files and attachments, landing of
the branch, edits and removal of the team, and batches deleted by hand.

## Runs

| run | what it covers | bounds |
|---|---|---|
| OrchRestart | every operation of a batch, and a process that dies at any moment, any number of times | two items, two slots, two runs |
| OrchQueue | a queue longer than its slots, pauses and retries; the refinement | three items, two slots, two runs |
| OrchShared | a worker's batch on one shared branch: fork, reclaim, absence, vanishing trees, delete; liveness of the queue | three items, one slot, two runs |
| Schedules | two schedules, timed or chained, under each overlap policy | four minutes, period two, two launches, one disturbance |
| FlowLife | two flows: write code and review it by the same participant, with a diff, a skip and a goto; draft and send out by a worker, with questions and a gate | two steps, one retry, one reask, one question, two moves |
| SvcOverlap | calls that overlap: a heavy service, the heavy task it waits on, one slot; the refinement of the gate, liveness of calls | two services, three calls, two at a time, three processes |
| SvcRows | calls of every kind one after the other, with a dependency, a follower, a leftover and a code change | two services, two calls |
| SvcTimers | liveness of watchers and of the adoption poll, with a spawn that may throw | one heavy service, three calls, two code changes |
| TeamTask | one task of three stages with everything that may happen to it | two members |
| TeamQueue | two tasks of a team, a crew that comes and goes, commissions that throw; liveness of the queue | one member, two stages |
| FlowReviveViolation, SvcStrangerViolation | where the code differs from what it says | as small as shows it |

Bounds of Orchestrator: `N` items, `MaxRuns` runs that may be minted, `MaxReclaims`
pumps waiting for the reclaim, and `Happens`, the disturbances in play. Two items
are enough for a launch in flight beside a run and for two pumps; three with two
slots give a queue behind full slots. With as many runs as two, a retry mints a
second run for the same item while the first is still being asked for its commit.
Further items or runs repeat these. The runs divide the disturbances because all
of them at once, on three items, are too many states; OrchRestart has all
but the absence and the trees, on two items.

Bounds of Scheduler: `MaxTime`, `MaxRuns` (launches that return), `MaxUpsets` (edits,
restarts, deletions and successes of foreign runs, in all). Four units with a
period of two contain an occurrence served on time, one served late, and one whose
successor has come due behind it. With a grace of one, a launch a unit late is at the edge of its
window and two units late is outside. `catchUp: once` is left out. `Happens` keeps `editMidLaunch` out:
saving or removing a schedule while it launches breaks `NoOverlap`.

Bounds of FlowRun: two steps have a boundary, a gate before the second and a goto back
to the first; the flows divide what a step may be between them. Two moves are enough to
hold and continue, abort and rerun, crash and continue, chat and continue, with
whatever the models do in between, which is unbounded. The violation run of a
finalize turn needs three. Budgets of one are spent and exceeded.

Bounds of Supervisor: `Procs` is also the number of launches at the gate at one time,
`MaxCalls` and `MaxChanges` the calls and the code changes in all, `MaxDepth` the frames
of one call. Three calls are a start, one that overlaps it, and one that finds what the two
left; two at a time are every pair of waits. With two calls and a change, SvcRows still has
a stop and a start under a launch that follows a code change. `RunningShows`,
`StartingIsPursued` and `RunsWhereBound` say what calls that do not overlap leave; with
overlaps they are broken by the code, as listed below. Dependencies have no cycle.

Bounds of TeamEngine: `K` tasks, `P` members and `Happens`; batches need no bound,
since there are never more than pieces and launches. Two pieces are one that is commissioned and one that waits behind it; the stage
with a single piece is the one that works in the task's own tree. A commission, a run, a
retry and a redo of each happen any number of times. Of two tasks one is in line behind the
other; with three, tasks a person has cleared go before one that is merely queued, so two
that are retried for ever would keep it waiting. TeamQueue therefore has two, no
restarts (a process that dies for ever starts nothing) and no paused members. The
flags that no run sets are listed under Divergences.

No run checks for deadlock: a batch at rest, a clock at its bound, a supervisor whose
calls are used up and a team whose tasks are over all stop.

What the invariants say, and why they are worth saying:

- `LaunchesTracked`: an item reads "running" without a run exactly while one pump
  waits for its launch. Abort, delete, retry, a failed fork and a restart each
  touch items in that window.
- `HeadOfThisAttempt`: git answers for an attempt after the item was retried.
- `CompletionDetected`: nothing polls, so whoever settles the last item must notice, and what
  a process died over must be noticed at the next start. It excepts a death between the
  two saves (`torn`), after which the code does not notice.
- `CompletedHasNoQueue`, `DoneIsDurable`: the end is the end, also after a crash.
- `LedgerMirrorsRuns`, `NoOrphanRun`: item and run agree whatever the order of
  updates, promises and clicks.
- `LaunchesUnderCap`: overlapping pumps count the same slots.
- `QueueDrains`: a queued item is launched or settled unless somebody holds it.
- `NoOverlap`: no second run of a schedule, whatever fires it, although the run id is
  known only when the launch returns. It excepts what the code means to let through - a
  chain does not wait under "queue" - and what follows from it.
- `OncePerPeriod`: no occurrence fires twice, through late timers, deferrals,
  skips, edits and restarts.
- `Told`: a run that ended in the process that launched it is not told as launched, although it
  may have ended before its launch returned and the history outlives the process. It excepts
  what no process is told (`unseen`).
- `WakeUpIsSet`: every path arms again.
- `GateHeld`: a step behind a gate runs only on a person's word (or its flow's goto),
  through holds, skips and crashes, each of which comes at it from another side.
- `DoneMeansSettled`: no turn's end is taken for another's, over relaunched processes,
  chat turns and git calls that return late.
- `WatchdogArmed`, `ComesToRest`: nothing leaves a run at work with nobody to notice, and
  the budgets end every loop.
- `RestStays`: late answers, turns and timers find the run as it is, not as it was.
- `OneProcess`: launches, stops and exits of one service overlap, and a live process is
  the one a stop would reach.
- `SlotsInUse`, `SlotsCounted`, `GateSpec`: five ways a start can end give its slot back,
  some of them twice. `SlotsInUse` is checked with spawns that do not throw.
- `CallsReturn`: nobody waits for a turn, a dependency, a task or a stop that never comes.
- `RunningShows`, `StartingIsPursued`: an exit, a readiness answer or a stop of an earlier
  process does not speak for a later one.
- `RunsWhereBound`, `ChangeSeen`, `AdoptedSettles`: a rebind is read by the launch after
  it, a change that lands in a restart is run by another, a leftover's end is noticed.
- `NothingRunsOn`: a piece is skipped or its task cancelled while its commission is in
  flight and has no id yet.
- `RunningIsPursued`: whatever is skipped, retried, cancelled or lost, someone will look at
  the stage again.
- `StageOrder`: a stage is not begun over a piece that is still going.
- `StartsAlone`, `QueueMoves`: approvals, ends and the crew's return in any order put one
  task to work at a time, and the last one to let go wakes the next. `QueueMoves` excepts a
  queue that waits for people: for the crew, for a paused run, or for a piece a commission
  that threw has left behind.

Each property has a mutated definition beside it in the module (marked "mutant")
which stands for a plausible bug and breaks it.

## Fairness

Four runs assume some, each only what the code itself brings about.

- `FlowLife`: the runtime's own timers fire (the sweep, the finalize timeout) and git
  answers: weak fairness of `Sweep`, `FinalizeTimesOut` and the returns of git calls.
  Nothing is assumed of models, of the supervisor or of people; that a run comes
  to rest all the same is what the watchdog is for.
- `OrchShared`: a handler reaches its end (`SaveCompletion`) and promises settle - weak
  fairness of the returns of the pump's waits, which end because git, the fork and `startRun`
  end or throw. A run at work ends: strong
  fairness, because a flow has finitely many steps and the runner's watchdogs end a silent
  turn, while a person may pause and continue the run any number of times in between.
  Nothing is assumed of people: a parked run may stay parked, a paused batch paused, the
  crew away, which is why `QueueDrains` excepts them.
- `SvcOverlap`, `SvcTimers`: every wait of a call ends (each is a bounded lookup, a copy, a
  probe with a timeout), a task - a build, a migration - ends, and the timers of the
  debounce and of the poll fire: weak fairness of each. A service need not exit, and a
  stop's wait for an exit that never comes runs out.
- `TeamQueue`: microtasks run, commissions and turns return (a turn has a timeout), and a
  batch's run, continued however often, ends: as in `OrchShared`, strong fairness of that, for
  each piece. That a commission throws is not assumed.
  Nothing is assumed of people. `FairSpec` is written with the state in which each action
  is enabled, which says the same as `WF_` and `SF_` and is far cheaper to check.

## What is proved

`OrchestratorProofs` proves, for every number of items, cap, kind of batch, bound and
set of disturbances allowed by the named assumptions: `TypeOK`, `LaunchesTracked`,
`CompletedHasNoQueue`, `HeadOfThisAttempt`, and that no two items name one run
(`RunsLinkedOnce`).

None of these is inductive. The invariant is `IInv == TypeOK /\ EngineOK(engine,
Minted)`: the engine is typed; the batch object *and its saved copy* are ledgers in
order (`LedgerOK`: an item waiting to launch has no run; runs named are minted
and named once; a recorded commit is the attempt's; a complete batch has no
proposal and no queue); and `Tracked`, which ties the promises in flight to the
object. The saved copy is in it because a restart makes it the object, and
`Minted` because a new link must be to a run that nobody names.

The proof follows the model. A lemma for each engine function (`PersistOK`,
`MaybeCompleteOK`, `LaunchNextOK`, `PumpLoopOK`, `PumpOK`, `OnRunUpdateOK`) says it
preserves `EngineOK`, a lemma for each action composes them, `Inductive` splits on
`Next`, `Invariant` is the temporal step, and the theorems weaken it.

Its second part builds on `IInv` to prove, again for every size and cap, `LaunchesUnderCap`
and, as long as the process lives and no ended run is run anew (`Steady`),
`LedgerMirrorsRuns`, `NoOrphanRun` and the refinement `ImplementsLedger`. Deletes, of the
batch and of running children, retries, pauses, the crew's absence and lost worktrees are all
allowed; the run `OrchQueue` has pause and retry only. Without `Steady` TLC refutes the last three: a restart may find a run that no saved item names,
and a run that is run anew reopens its item, or has none (all under "Divergences").

An action is a few changes of status after which pumps are re-entered, some of them from
inside the update of another run. `Follows(e, f)` says all that pumps make of an engine:
items of the queue are launched, if any then within the cap, and a ledger with nothing to
do is completed. It is transitive, so that `MaybeComplete`, `PumpLoop`, `Pump` and the
observer's tail are one lemma each. `StepOK` says that the step has an engine `g` from which its
pumps start, with no launch in flight that was not there before, and that `g` is a
`Legal` change of the engine: every move is one of BatchLedger's and no launch, nothing settled moves
unless the batch is open again, nothing waiting has a run, and the items mirror the runs
after the step. There is one lemma for each action; `UpdateFollows` serves all those in which a
run moves. The delete of a batch launches on its way, so it is proved by a walk over its
loop: what one turn of it keeps the loop keeps (`DeleteLoopStays`), and half-way through
some children are marked as ended and pumps have followed (`Halfway`). From
`StepOK` follow the cap (`CapStep`) and, with `Agrees` - the ledger mirrors the runs, a
complete one is settled - the next state's `Agrees` and the step of BatchLedger
(`AgreesStep`).

The third part, also from `IInv`, is about the batch object and its saved copy. `DoneIsDurable`
is proved with every hazard allowed: `Kept(e)`, that each success of `e` is in the
file, is not kept by an assignment of "done" but by the save that follows it, so there is a
lemma for each function that changes the object and one for each action that composes
them. `CompletionDetected` is proved unless a shared batch may be restarted
(`SurvivesRestart`; TLC refutes it there, see "Divergences"), and it excepts what a death between
the two saves leaves: `EndNoticed` says `torn`, or `Agreed` and `Noticed`. Call a ledger `Open` when
everything in it has settled and it is neither paused nor completed. `Agreed` says that
the file is open only if the object is, or the save of its completion is still to come
(`closing`), and that only a shared batch waits for a reclaim;
`Noticed`, that an open batch is looked at again, by a pump that waits or when the crew
returns. A pump leaves nothing open but to those two (`PumpLoopAgreed`,
`PumpAgreed`), what is not saved at once never opens or closes a batch, and a restart finds
an open file only where the crew is away (`RestartAgreed`).

`SupervisorProofs` proves, for every set of services, dependencies, number of slots and
of calls that overlap: `OneProcess`; `GateSpec`, that every step of the supervisor is a
step of LaunchGate or leaves the gate alone; `SlotsCounted`; and that nobody stands in
line while a slot is free (`NoIdleSlot`) - all with spawns that may throw.

The invariant `Inv` is again stronger than any of them. `ProcsOK`, its heart, says that a
live process belongs to a service and is the one `procs` names for it: `OneProcess`
follows since `procs` is a function, and a launch keeps it because it looks, after its
last wait, whether `procs` has an entry. `StacksOK` types the frames and says that a start
walks its own dependencies, which is what a step reads after a wait; `SpecsOK`, `RowsOK`
and `AwaitsOK` type what the steps read of the rows. `GateOK` counts: the number is that of the
holders, within the limit, full when anyone waits, nobody waits twice or while holding.
Its lemmas (`GateGrants`, `GateAsks`, `GateReleases`) are about the gate alone. A lemma
for each method and each wait says that it keeps `Inv`; the refinement takes the same
cases again and names the gate's step each one is.

A second invariant, `SlotsOK`, kept beside `Inv` as long as no spawn throws (`SpawnAnswers`), ties the gate to the frames: a slot is held
by a process whose launch stands between the gate and its end on some call's stack, and what
stands in line is a launch that waits there. From it follow `SlotsInUse`, that a slot is never held by something that has ended, which the
run `SvcOverlap` checks, and that what stands in line is there to take its turn
(`LineIsAlive`). A frame that has to do with a slot is always on top of its stack, so only
the moving call's own frame can break it; the lemmas follow the five ways a start ends.

`FlowRunProofs` proves, for every flow - any number of steps, parties, gates, gotos and
budgets: `TypeOK`; `WatchdogArmed`; `RestStays`; `GateHeld`, if the flow is `Spaced`;
and `DoneMeansSettled`, if the flow is `Forward`. The assumptions `QuickGit` and `Patient`
are in the model's guards, as above. The invariant `IInv` is about the run in
memory and the run of the checkpoint alike, since a restart puts the one in place of the
other (`RunOK(e.disk)`):

- `RunSafe`: a paused run says why, a gate it waits at is the one of its step, and the steps
  behind the one it is at are settled;
- `GateOpen`: a run at work was let through its step's gate (`OpenHere`), and one
  that is held or stands at the next gate was let through the one before (`OpenBehind`): that is
  the step a summary or git still calls it at;
- `ChangedOK`, `FinalOK`: whoever waits for git's word on a step waits at a settled one,
  and while a finalize turn is awaited nothing else is pending and nothing moves the run;
- `Watched`: the sweep sees a run at work, or a wait that ends by itself is under way.

The runtime's handlers call each other, checkpoint on the way and are called back by the
runner, so each has a lemma saying what it may start from and what it leaves;
`Loose(e, x)`, the invariant without its last two parts and without its word on step x, is
what holds in the middle of one. `Spaced` and `Forward` are not there to make the proof
go through: without them TLC refutes the two properties (see "Divergences").
The flows of the run `FlowLife` satisfy both; TLC checked `IInv` on them and on three flows of
three steps before it was proved.

`SchedulerProofs` proves, for every number of schedules, runs and disturbances, every period,
grace and length of chain and however far the clock goes: `TypeOK` and `Told`, with all
`Hazards` allowed; and, as long as no edit replaces what a launch holds (`Calm`),
`WakeUpIsSet`, `NoOverlap` and `OncePerPeriod`. With such an edit TLC refutes
`NoOverlap`; it found no violation of the other two there, in a search it could not
exhaust. The invariant has two layers:

- `Sound` needs no hypothesis: types; nobody holds the number of an object that does not exist
  (`Counted`); an object's run was launched for its schedule (`Mine`); a run
  told as launched goes and tells its schedule, or was deleted, or its end is not for the
  process that launched it (`Reported`).
- `Kept`, under `Calm`: the file holds what the map holds (`Filed`); a launch in flight and who
  waits for it hold what is in the map (`Held`); the map knows every run that goes, but
  for those a chain has overtaken (`Tracked`); a launch is in flight only where
  no run goes that it would have to wait for (`Clear`); runs are numbered in the order they
  are launched (`Numbered`) and tell their schedule of their end (`Owned`); and the anchor
  of a schedule has moved past its last firing on the cadence, what is owed being a period
  later (`Cadence`). `Woken` is the layer of the timer.

TLC checked every part first: on the constants of the run `Schedules`, with three runs and two
disturbances under each policy, and `Sound` alone with edits in mid-launch (two and a half to
four and a half million states each).

A handler is a composition of writes, and a write of one object keeps all this under
conditions that say what the new object must agree on with the old (`WriteKeeps`); replacing a
run, stamping, firing, settling and linking are cases of it. A walk keeps it by
induction over the schedules. The library states induction for predicates, which the provers
cannot instantiate; `Walks` derives it for *sets* of numbers from the well-foundedness of <,
and from that the existence of a function on 0..N given by its first value and a step:
what each step of a walk keeps, the walk keeps (`TickWalkStays`, `ChainWalkStays`).

`TeamProofs` proves, for every plan, every number of tasks and members and every choice of
checkpoints: `TypeOK` and `StartsAlone`, with everything in `Happens` allowed; `TaskProofs` and
`PursuitProofs` add `StageOrder`, `NothingRunsOn` and `RunningIsPursued` in `Careful` company:
no piece is run again while its stage is being launched, none that is paused or
would not merge is redone, and no commission throws. Without the hypothesis the last two do not hold of the code: TLC
has the counterexamples, which stand under "Divergences". The invariant has two layers here too:

- `All` needs no hypothesis: the types; a launch in flight holds the batch it started (`Held`);
  and a task that waits is at a stage of its plan (`Sited`). `StartsAlone`
  follows from it and from each step: whatever brings a task to work looks at the others first.
- `AllFull`, under `Careful`, says of each task, with its launch l, the turns T of it and
  the batches: that they fit each other (`Fit`) - what is behind the stage it is at is settled and
  nothing ahead of it runs, a piece with a batch is running or paused and the batch names the
  piece, a batch belongs to a piece or to the commission that has just made it, and a turn
  is the running stage's; how a task waits (`Waits`); and who moves it on (`Pursued`).

None of the properties is inductive: that a stage is only begun in order needs all that runs to
be at the stage the task is at, and that a running task is moved on depends on what is left when it
waits, while it is launched and half-way through a restart. TLC checked
every part of the invariant on the states TeamTask reaches, and on small instances that it is
kept from every state that satisfies it, before it was proved.

The handlers call one another, so what is proved of each operator is that it *settles* a task: from a
state where the others are as they should be and this one fits, it leads to one where this one
is as it should be and the others have not changed (`Settles`). `Advance`, `LaunchStage`,
`CheckStage`, `DropPiece` and `Cancel` are each such an operator, and a lemma for each action
(`ApproveFull`, `CommissionReturnsFull`, ...) puts them together; the cancel that tells the engine before it
returns is a case of the same. A restart settles one task at a time while those behind it
are still as the process that died left them, with no launch and no turn (`Halfway`);
the walk is by induction over the tasks, with `Walks`.

Only checked by TLC: the liveness of Orchestrator, `QueueDrains`; of Supervisor its `TypeOK`, whose bounds on the stacks and on
adoptions are those of the run, and the properties of the rows, which hold only of calls
that do not overlap; of TeamEngine its liveness, `QueueMoves`. Liveness cannot be proved with these provers, nor can
anything about ENABLED.

## Divergences

Where the code does not do what it, its comments or its tests say. Two are shown by runs
of their own:

- *Abort during a finalize turn* (`FlowReviveViolation`). `finalizeAndAdvance` looks at
  no state after its wait: the aborted run goes on with the next step (runtime.ts 2224
  against 2727 and runtime.abort-races.test.ts 74).
- *A stop of an adopted process that is no longer ours* (`SvcStrangerViolation`).
  `settleAdopted` answers "verified" for an adoption that was superseded while `ps` ran; the
  stop then signals the pid it had read (supervisor.ts 664 against 643-645).

The others were met while modelling. Those of the first group break a property as soon as
the model is allowed to take them, by the flag in `Happens` or the assumption named:

- `save` or `remove` of a schedule while it launches (`"editMidLaunch"`): the launch writes
  the object it holds, so the new object does not know its run, which breaks `NoOverlap`; the
  edit is lost on disk and a removed schedule comes back at the next start.
- A continuation of a git call (`enterIfChanged`, the diff of a finished step) knows its
  run only by the step it is at (`QuickGit`). Abort and rerun of that step in the
  meantime pass the test, and the new attempt is advanced past: `DoneMeansSettled` fails.
- `retryPiece` or `redoPiece` while the stage is being launched (`"early"`):
  `launchMemberStage` returns because a launch is under way, which may have passed that member,
  and the piece stays pending; the task reads running and nothing looks at it again
  (`RunningIsPursued`; teamEngine.ts 1169-1170 says "now").
- `redoPiece` of a piece whose run is paused (`"redoPaused"`): only a running one is
  cancelled (1255), so the old run stays and may be continued: `NothingRunsOn`.
- `redoPiece` of a piece that would not merge (`"redoClash"`): `mergeConflict` stays set. If
  the new run fails too, Retry takes the task for one to merge (1128-1139); the stage is
  "failed", `checkStage` returns, and the task reads running for good: `RunningIsPursued`.
- `deleteTask` of a task that waits for the crew (`"deleteAway"`): it held the team, and
  nothing wakes the queue (comment at 3131): `QueueMoves`. The same holds when a paused
  member is switched on again (`"idle"`).
- `deps.spawn` throws out of `launch` (`"throws"`; supervisor.ts 1037, where 878-880 know of one
  case and only that one is caught): nothing gives the slot of the gate back and the row stays
  "starting". The slot is out for good (`SlotsInUse`, `StartingIsPursued`), and what waits in line for it
  waits for good (`CallsReturn`).
- A commission throws (`"rejects"`; teamEngine.ts 1559-1608, a `try` with no `catch`): the launch is
  over, nothing looks at the stage, and the piece reads running without a batch until somebody
  drops it: `RunningIsPursued`.

Orchestrator and FlowRun:

- *Abort during a launch*. Abort skips a running item that has no run yet; its run starts
  afterwards in a batch that was aborted (orchestrator.ts 1109 against 1082-1086).
- *A crash while the pump is still launching*. The links are saved after the loop, so a run
  can be on disk that no item names (1014 against runtime.ts 1430-1432).
- *A running child is deleted*. The observer is not told (runtime.ts 2586 against 2470); the
  item keeps its slot.
- *Abort starts a turn*. `abortRun` stops the conversation while the run still reads "running"
  (runtime.ts 2701 against 2709); the runner reports it idle before `stop` returns
  (runner.ts 2606), the runtime takes that for the step's end and asks again for the output or
  starts the next step. Only then is the run marked aborted, and the new turn is launched.
- *A turn that ends while git is asked* (`Forward`). A run waits in `enterIfChanged` at the step
  before (runtime.ts 4072-4094), with its conversation free. A turn of that step's participant
  that ends meanwhile - a person's chat - is taken for the step's end; if it fails and the step
  goes back on failure, git's late answer then finds the run at the step again and enters the
  next one over a step that is not settled (`DoneMeansSettled`).
- *A step that was skipped reads as running* (`Spaced`). A gated step skipped since nothing changed
  is nobody's go-ahead; when the next one has a gate or is itself skipped so, the run is called
  to be at the former while git or a summary is awaited, and a chat or a finalize turn that
  ends then runs it (`GateHeld`). The same is so of a worker's step in front of a
  gate for external actions after a crash.
- A hold is not looked at by a goto (4325) nor after the wait of `enterIfChanged` (4086): the
  next step starts although the batch was paused. A goto into a gated step does not
  stop at the gate (`GateHeld` counts it as a go-ahead).
- `stop` does not call off a send whose broker is being prepared: it is launched later.
- A supervisor's late answer can pause a run in the middle of a finalize turn, which then
  goes on; `RestStays` excepts it (`rt.final = 0`).
- A rerun is not checkpointed before its first boundary: a crash restores the finished or
  aborted run.
- Pause during a launch: the pending launch starts, and the loop of that pump goes on
  launching, since it tests the pause only at its head (orchestrator.ts 865-870
  against 1132-1136).
- Delete during a launch: the pump saves the batch again (1226 against 1014); the
  file is back after a restart. `DeleteForgotten` is that file's removal.
- One item at a time in the project's own tree (478-481): a parked run that a person
  continues is not counted by the cap.
- *A crash between two saves*. The last item is saved when it settles, the completion when the
  pump notices (orchestrator.ts 1069, 1261). A process that dies between the two leaves a batch that
  is settled and not completed, and a load completes only the batches it has changed
  (orchestrationsStore.ts 177-184), so that it stays so; orchestration.ts 263 has `completedAt` "set once
  every item has reached a terminal status". `CompletionDetected` excepts it by `torn`.
- A crash while the last pump of a shared batch waits for `reclaimSharedBranch`: the saved
  batch is settled and not completed, and stays so, since a load completes only the
  batches it has changed (orchestrationsStore.ts 178-184 against orchestrator.ts 878-880).
- A batch whose last item settles while it is paused is not complete
  until resumed (868-870, 1258-1260).
- A settled item whose run is re-run and pauses is open again: the paused branch has
  no check for settled items (1036).
- The run of an item that was retried, run anew, is nobody's: the retry has cleared its link
  (orchestrator.ts 1203-1217 against runtime.ts 2012), and Abort of the batch does not reach it.

Scheduler:

- *A chain under "queue"* does not wait for the last run (scheduler.ts 538-541 say so), and its launch makes
  `activeRunId` name the new one. The earlier run is forgotten: when the newer ends first, the
  tick finds nothing busy (605-618) and starts a third beside the first.
- *A schedule switched on again*. The anchor moves but the last firing counts before it, so
  a schedule that has fired is due at once (scheduler.ts 230 against 226-228). The
  same holds for `save` and its comment on re-anchoring (193-196);
  the tests only use schedules that never fired.
- The timer spins at zero delay when an occurrence comes due behind a deferred one,
  or while a manual launch is in flight (42-46 speak of one wakeup a minute).
- A run carried on after a restart is no longer its schedule's: the map from runs to schedules
  is empty, so the next occurrence may start beside it, and its end is told to nobody. The
  history, which is loaded as it was saved (schedulesStore.ts 82-86), calls it launched for good,
  where scheduler.ts 621 has the entry superseded by the terminal one. The same is so of a run
  that ended while its schedule was removed, if the schedule's file came back. `Told`
  excepts both by `unseen`.

Supervisor:

- A stop during the waits of a launch before the gate - config, plan, projection, shell -
  finds no process, nothing waited on and nothing queued, and does nothing (748): the
  start goes on, although what follows each wait says that a stop owns it then. A rebind
  in that window is undone the same way.
- A dependency cycle leaves its starts waiting for each other (356 against types.ts 61-63).
- A second restart while the first waits for the exit finds no process to wait for and
  launches beside the one that is going (supervisor.test.ts 1658 has it wait).
- An answer to a readiness probe that was sent before the process died marks the row ready
  or unready with nothing running (comment at 1116).
- A start of a running service without a port starts it anew, or marks it failed when its
  plan fails.
- An edit of the settings drops a code change that was noticed but not yet acted on (712).
- A launch that lost its turn clears the "queued" of the later one that stands in line (1023);
  a stop of that one then finds nothing to call off.

Team engine:

- `redoPiece` of a finished piece keeps its `file`, so `collectPiece` returns at once (2072) and
  the new version is never filed (comments at 1237-1238, 1253-1254).
- `dropPiece` cancels before it marks the piece: when that was the last one running, the
  abort's answer makes the task wait as failed (team.ts 208-210 call a skip a decision).
- A redo at a checkpoint starts the challenge stage past the checkpoint.
- A revised plan that fails to be planned cannot be planned again, since the old stages are
  still there (1113-1114).
- Retry, redo and skip of a task that waits do not ask whether another task is at work;
  `StartsAlone` excepts them.

## Plan

Done: the batch orchestrator, the scheduler, one run of the runtime, the supervisor and its
gate and the team engine, each with its proofs. What would come next:

1. An abstract specification of the life of a run as Orchestrator assumes it (`RunGoes`),
   which FlowRun refines, so that the two fit.
2. *WorkerShift*: the roster walk, funding and the journal fold.
3. *TeamEngine*: hires, and the work a task's room hands off.
4. A composition of Scheduler and Orchestrator over one FlowRun, for the order of the
   observers.

## Not modelled

The reason for each component is in `PROJECT.json`: parts that only mirror
state (the window, the CLI's console, preload), that talk to programs or servers not
in the repository (runner, backends, org, Slack), or that are file and git operations
without a protocol of their own. Of the components that are modelled, the abstractions named
above say what is left out.
