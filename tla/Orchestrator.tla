---------------------------- MODULE Orchestrator ----------------------------
(***************************************************************************)
(* One batch of the orchestrator (src/src/main/flows/orchestrator.ts), the *)
(* child runs the flow runtime mints for it (flows/runtime.ts) and the     *)
(* files both leave behind (orchestrationsStore.ts, runsStore.ts).         *)
(*                                                                         *)
(* The main process is one event loop.  A handler runs without             *)
(* interruption up to an `await`, so an action here is one such stretch: a *)
(* call of the IPC surface, one update of a run, or the return of one      *)
(* promise.  The runtime calls the orchestrator back synchronously, from   *)
(* inside its own handlers; OnRunUpdate and Pump are therefore functions   *)
(* from engine state to engine state that the actions compose.             *)
(*                                                                         *)
(* Batches share nothing but the runtime, and a child run names its batch  *)
(* (parentOrchestrationId), so one batch stands for all of them.           *)
(***************************************************************************)
EXTENDS Integers, FiniteSets

CONSTANTS
    N,          \* items in the batch, in producer order
    Cap,        \* maxConcurrent
    RunIn,      \* "cwd", "worktree" or "shared"
    Worker,     \* is it a worker's batch (origin.kind = "worker")?
    MaxRuns,    \* bound: runs the runtime mints in a behaviour
    MaxReclaims,\* bound: pumps waiting in reclaimSharedBranch at once
    Happens     \* bound: which of Hazards the environment may produce

Hazards == {"pause", "retry", "delete", "deleteRun", "rerun", "restart",
            "away", "treesGone"}

ASSUME SizeAssumption == N \in Nat \ {0} /\ MaxRuns \in Nat /\ MaxReclaims \in Nat
ASSUME CapAssumption  == Cap \in 1..8 /\ (RunIn # "worktree" => Cap = 1)
ASSUME KindAssumption == RunIn \in {"cwd", "worktree", "shared"} /\ Worker \in BOOLEAN
ASSUME EnvAssumption  == Happens \subseteq Hazards

Items  == 1..N
Runs   == 1..MaxRuns
NoRun  == 0
NoFile == [none |-> TRUE]

Settled    == {"done", "failed", "cancelled"}
ItemStatus == {"proposed", "queued", "running", "paused"} \cup Settled

VARIABLES
    engine,     \* the orchestrator: its batch, its pumps and the saved file
    runState,   \* the runtime's runs: [Runs -> RunStates]
    hold,       \* runs with holdRequested
    onDisk,     \* runs whose first checkpoint has reached the disk
    treesGone,  \* have the shared batch's worktrees left the disk?
    away,       \* did the crew leave after this batch was queued?
    torn        \* history: did a process die between maybeComplete and its save?

vars == <<engine, runState, hold, onDisk, treesGone, away, torn>>

-----------------------------------------------------------------------------
(***************************************************************************)
(* The engine state.  `o` is the Orchestration object of the code; a pump  *)
(* that waits holds on to that object, whether or not `batches` still      *)
(* lists it (`live`).  A pump waits for the worktree fork or for startRun  *)
(* of one item, or for the reclaim that precedes a launch.                 *)
(***************************************************************************)
Ledger == [status    : [Items -> ItemStatus],
           runId     : [Items -> Runs \cup {NoRun}],
           headSha   : [Items -> Runs \cup {NoRun}],
           adopted   : BOOLEAN,
           paused    : BOOLEAN,
           completed : BOOLEAN]

Engine == [o          : Ledger,
           live       : BOOLEAN,
           file       : Ledger \cup {NoFile},
           forking    : SUBSET Items,
           starting   : SUBSET Items,
           reclaiming : Nat,
           capturing  : SUBSET (Items \X Runs),
           closing    : BOOLEAN]  \* completed in memory, about to be saved so

RunStates == {"none", "running", "paused", "held", "done", "aborted", "deleted"}

\* Runs the runtime knows, and those of them that can still do work.
Known(r)  == runState[r] \notin {"none", "deleted"}
Active(r) == runState[r] \in {"running", "paused", "held"}

With(e, S)       == {i \in Items : e.o.status[i] \in S}
RunningCount(e)  == Cardinality(With(e, {"running"}))
IsComplete(o)    == \A i \in Items : o.status[i] \in Settled
Linked(e, i)     == e.o.runId[i] # NoRun
First(S)         == CHOOSE i \in S : \A j \in S : i <= j
SetStatus(e, S, st) ==
    [e EXCEPT !.o.status = [i \in Items |-> IF i \in S THEN st ELSE e.o.status[i]]]

Persist(e) == [e EXCEPT !.file = e.o]

\* maybeComplete closes the batch in memory and then saves it.  The items it
\* finds settled were saved by a write of their own, so the process may die
\* between the two: its save is an action (SaveCompletion).
MaybeComplete(e) ==
    IF ~e.o.completed /\ IsComplete(e.o)
    THEN [e EXCEPT !.o.completed = TRUE, !.o.paused = FALSE, !.closing = TRUE]
    ELSE e

\* Mark the first queued item running and wait: for the shared fork when its
\* worktree is missing, otherwise for startRun.
LaunchNext(e) ==
    LET next == First(With(e, {"queued"}))
    IN  IF RunIn = "shared" /\ (e.o.adopted => treesGone)
        THEN [SetStatus(e, {next}, "running") EXCEPT !.forking = @ \cup {next}]
        ELSE [SetStatus(e, {next}, "running") EXCEPT !.starting = @ \cup {next}]

SlotFreeOffByOne(e) == RunningCount(e) <= Cap                     \* mutant
SlotFree(e) == RunningCount(e) < Cap

\* The loop of pump, from its head to the next await or to its end.
PumpLoop(e, launchedAny) ==
    IF SlotFree(e) /\ With(e, {"queued"}) # {}
    THEN LaunchNext(e)
    ELSE MaybeComplete(IF launchedAny THEN Persist(e) ELSE e)

Reclaims(e) == RunIn = "shared" /\ e.o.adopted /\ RunningCount(e) = 0

\* pump with the crew on duty, and pump as it is.
PumpOnDuty(e) ==
    IF ~e.live \/ e.o.paused THEN e
    ELSE IF Reclaims(e) THEN [e EXCEPT !.reclaiming = @ + 1]
    ELSE PumpLoop(e, FALSE)

CrewAway == Worker /\ away

Pump(e) == IF CrewAway THEN e ELSE PumpOnDuty(e)

\* A child stopped before a step: its item is parked and its slot refilled.
ParkKeepsSlot(e, i) == Persist(SetStatus(e, {i}, "paused"))       \* mutant
Park(e, i) == Pump(Persist(SetStatus(e, {i}, "paused")))

\* A child ended: its item is settled and saved before git is asked for the
\* commit and before the slot is refilled.
SettleUnsaved(e, i, r, st) ==                                     \* mutant
    Pump([SetStatus(e, {i}, st) EXCEPT !.capturing = @ \cup {<<i, r>>}])
Settle(e, i, r, st) ==
    Pump([Persist(SetStatus(e, {i}, st)) EXCEPT !.capturing = @ \cup {<<i, r>>}])

\* What the runtime's observer call does with an update of run r.
OnRunUpdate(e, r, kind) ==
    LET i  == CHOOSE j \in Items : e.o.runId[j] = r
        st == e.o.status[i]
    IN  IF ~e.live \/ \A j \in Items : e.o.runId[j] # r THEN e
        ELSE IF kind \in {"paused", "held"} /\ st # "paused" THEN Park(e, i)
        ELSE IF kind = "running" /\ st = "paused"
             THEN Persist(SetStatus(e, {i}, "running"))
        ELSE IF kind \in {"done", "aborted"} /\ st \in {"running", "paused"}
             THEN Settle(e, i, r, IF kind = "done" THEN "done" ELSE "failed")
        ELSE e

-----------------------------------------------------------------------------
(* Creating a batch: startBatch queues every item; parkProposal and        *)
(* parkDirect queue a prefix of `auto` items and propose the rest.         *)
Created(auto) ==
    [o |-> [status    |-> [i \in Items |-> IF i <= auto THEN "queued" ELSE "proposed"],
            runId     |-> [i \in Items |-> NoRun],
            headSha   |-> [i \in Items |-> NoRun],
            adopted   |-> FALSE,
            paused    |-> FALSE,
            completed |-> FALSE],
     live |-> TRUE, file |-> NoFile,
     forking |-> {}, starting |-> {}, reclaiming |-> 0, capturing |-> {},
     closing |-> FALSE]

Init ==
    /\ runState = [r \in Runs |-> "none"]
    /\ hold = {} /\ onDisk = {}
    /\ treesGone = FALSE /\ away = FALSE /\ torn = FALSE
    /\ \E auto \in 0..N :
          LET e == Persist(Created(auto))
          IN  engine = IF auto > 0 THEN Pump(e) ELSE e

-----------------------------------------------------------------------------
(* What a person does: the orchestrator's IPC surface.                     *)

Idle == UNCHANGED <<runState, hold, onDisk, treesGone, away, torn>>

\* No handler is halfway: only the process's death comes between maybeComplete
\* and its save.
LoopFree == ~engine.closing
Room == LoopFree /\ engine.reclaiming < MaxReclaims

\* approveBatch: the picked proposals are queued; the rest are declined, or
\* kept when keepUnpicked.
ApproveBatch(picks, keepUnpicked) ==
    LET proposed == With(engine, {"proposed"})
        declined == IF keepUnpicked THEN {} ELSE proposed \ picks
        e == Persist(SetStatus(SetStatus(engine, picks, "queued"), declined, "cancelled"))
    IN  /\ engine.live /\ Room
        /\ proposed # {} /\ picks \subseteq proposed
        /\ engine' = IF picks # {} THEN Pump(e)
                     ELSE IF keepUnpicked THEN e ELSE MaybeComplete(e)
        /\ Idle

RejectedUntyped(i) == Persist(SetStatus(engine, {i}, "rejected"))    \* mutant
Rejected(i) == MaybeComplete(Persist(SetStatus(engine, {i}, "cancelled")))

\* rejectItem of a proposal, or of a parked item whose run its caller has
\* already deleted.
RejectItem(i) ==
    /\ LoopFree /\ engine.live
    /\ \/ engine.o.status[i] = "proposed"
       \/ engine.o.status[i] = "paused" /\ Linked(engine, i)
            /\ runState[engine.o.runId[i]] = "deleted"
    /\ engine' = Rejected(i)
    /\ Idle

\* rejectWorkerRun settles the parked item first and then aborts its run.
RejectRun(i) ==
    LET r == engine.o.runId[i]
    IN  /\ LoopFree /\ engine.live /\ engine.o.status[i] = "paused"
        /\ Linked(engine, i) /\ Known(r)
        /\ engine' = OnRunUpdate(Rejected(i), r, "aborted")
        /\ runState' = [runState EXCEPT ![r] = "aborted"]
        /\ hold' = hold \ {r}
        /\ UNCHANGED <<onDisk, treesGone, away, torn>>

\* The items of the batch that abort kills together with their runs.
Killed(e) == {i \in With(e, {"running", "paused"}) : Linked(e, i)}

\* The queue is drained first, so the updates the aborted runs emit on the way
\* find their items settled and change nothing.
AbortBatch ==
    LET waiting == {i \in With(engine, {"queued", "proposed", "paused"}) :
                      engine.o.status[i] = "paused" => ~Linked(engine, i)}
        killed  == Killed(engine)
        doomed  == {r \in Runs : Known(r) /\ \E i \in killed : engine.o.runId[i] = r}
        running == With(engine, {"running"})
        drained == SetStatus(SetStatus(SetStatus(engine, waiting, "cancelled"),
                                       killed \cap running, "failed"),
                             killed \ running, "cancelled")
    IN  /\ LoopFree /\ engine.live
        /\ engine' = MaybeComplete(Persist([drained EXCEPT !.o.paused = FALSE]))
        /\ runState' = [r \in Runs |-> IF r \in doomed THEN "aborted" ELSE runState[r]]
        /\ hold' = hold \ doomed
        /\ UNCHANGED <<onDisk, treesGone, away, torn>>

\* Linked running children are asked to stop at their next step boundary.
PauseBatch ==
    /\ "pause" \in Happens
    /\ LoopFree /\ engine.live /\ ~engine.o.paused /\ With(engine, {"queued", "running"}) # {}
    /\ engine' = Persist([engine EXCEPT !.o.paused = TRUE])
    /\ hold' = hold \cup {r \in Runs : runState[r] = "running"
                            /\ \E i \in With(engine, {"running"}) : engine.o.runId[i] = r}
    /\ UNCHANGED <<runState, onDisk, treesGone, away, torn>>

\* releaseHold withdraws the holds not reached and continues the held runs.  A
\* continued run may stop at the gate the hold came before ("paused"), or only
\* start after its workspace has adopted new members (it stays "held").
ResumeBatch ==
    LET ours == {r \in Runs : \E i \in With(engine, {"running", "paused"}) :
                                engine.o.runId[i] = r}
        heldRuns == {r \in ours : runState[r] = "held"}
        awake(S) == {i \in With(engine, {"paused"}) : engine.o.runId[i] \in S}
        e(S)     == SetStatus(Persist([engine EXCEPT !.o.paused = FALSE]), awake(S), "running")
    IN  /\ engine.live /\ engine.o.paused /\ Room
        /\ \E gated \in SUBSET heldRuns : \E continued \in SUBSET (heldRuns \ gated) :
              /\ runState' = [r \in Runs |-> IF r \in gated THEN "paused"
                                             ELSE IF r \in continued THEN "running"
                                             ELSE runState[r]]
              /\ engine' = Pump(IF continued = {} THEN e({}) ELSE Persist(e(continued)))
        /\ hold' = hold \ ours
        /\ UNCHANGED <<onDisk, treesGone, away, torn>>

\* Retry one failed or cancelled item, or all of them: the traces of the last
\* attempt are cleared and the batch is open again.
Cleared(f, S) == [i \in Items |-> IF i \in S THEN NoRun ELSE f[i]]
RequeuedLinked(targets) ==                                        \* mutant
    [SetStatus(engine, targets, "queued") EXCEPT !.o.completed = FALSE]
RequeuedComplete(targets) ==                                      \* mutant
    [SetStatus(engine, targets, "queued") EXCEPT
        !.o.runId   = Cleared(@, targets), !.o.headSha = Cleared(@, targets)]
Requeued(targets) ==
    [SetStatus(engine, targets, "queued") EXCEPT
        !.o.runId   = Cleared(@, targets), !.o.headSha = Cleared(@, targets),
        !.o.completed = FALSE]

Retry(targets) ==
    /\ "retry" \in Happens
    /\ engine.live /\ Room
    /\ engine' = Pump(Persist(Requeued(targets)))
    /\ Idle

RetriableParked == With(engine, {"failed", "cancelled", "paused"}) \* mutant
Retriable == With(engine, {"failed", "cancelled"})
RetryAny == \/ \E i \in Retriable : Retry({i})
            \/ Cardinality(Retriable) > 1 /\ Retry(Retriable)

\* delete aborts the linked running children one by one, in item order; the
\* update of each re-enters the engine, whose pump may launch the next queued
\* item before the loop goes on.
AbortChild(e, i) ==
    IF e.o.status[i] = "running" /\ Linked(e, i) /\ Known(e.o.runId[i])
    THEN OnRunUpdate(e, e.o.runId[i], "aborted")
    ELSE e

DeleteLoop[i \in 0..N] == IF i = 0 THEN engine ELSE AbortChild(DeleteLoop[i - 1], i)

\* The batch is then forgotten and its file removed; the pumps that wait still
\* hold the object.
Forgotten(e) ==
    [e EXCEPT !.live = FALSE, !.file = NoFile, !.capturing = {}, !.closing = FALSE]

DeleteBatch ==
    LET killed == {r \in Runs : Known(r) /\ \E i \in With(engine, {"running"}) :
                                               engine.o.runId[i] = r}
    IN  /\ "delete" \in Happens
        /\ engine.live /\ Room
        /\ engine' = Forgotten(DeleteLoop[N])
        /\ runState' = [r \in Runs |-> IF r \in killed THEN "aborted" ELSE runState[r]]
        /\ hold' = hold \ killed
        /\ UNCHANGED <<onDisk, treesGone, away, torn>>

\* delete of a batch that is only on disk, because a pump saved it again.
DeleteForgotten ==
    /\ "delete" \in Happens
    /\ LoopFree /\ ~engine.live /\ engine.file # NoFile
    /\ engine' = [engine EXCEPT !.file = NoFile]
    /\ Idle

\* setLandingUpdate: an item's branch was updated with its base.  The commit
\* is still that of the item's attempt.
LandingUpdated(i) ==
    /\ LoopFree /\ engine.live /\ engine.o.headSha[i] # NoRun
    /\ engine' = Persist(engine)
    /\ Idle

-----------------------------------------------------------------------------
(* The promises a pump waits for.                                          *)

ReclaimReturns ==
    /\ LoopFree /\ engine.reclaiming > 0
    /\ engine' = PumpLoop([engine EXCEPT !.reclaiming = @ - 1], FALSE)
    /\ Idle

ForkReturns(i) ==
    /\ LoopFree /\ i \in engine.forking
    /\ engine' = [engine EXCEPT !.o.adopted = TRUE, !.forking = @ \ {i},
                                !.starting = @ \cup {i}]
    /\ treesGone' = FALSE
    /\ UNCHANGED <<runState, hold, onDisk, away, torn>>

\* A fork that fails fails its item and everything queued behind it.
FailedFork(i) == {i} \cup With(engine, {"queued"})
ForkFails(i) ==
    LET e == SetStatus(engine, FailedFork(i), "failed")
    IN  /\ LoopFree /\ i \in engine.forking
        /\ engine' = PumpLoop([e EXCEPT !.forking = @ \ {i}], TRUE)
        /\ Idle

\* startRun mints the run, which may stop at a first gate or fail at once; the
\* pump then records its id and looks at the run again, because the updates it
\* emitted before had no item to go to.  When that closes the batch, the rest of
\* the loop only writes the same once more.
StartRunReturns(i, st) ==
    LET r      == First({s \in Runs : runState[s] = "none"})
        linked == [engine EXCEPT !.o.runId[i] = r, !.starting = @ \ {i}]
    IN  /\ i \in engine.starting /\ Room
        /\ \E s \in Runs : runState[s] = "none"
        /\ engine' = LET e == IF st = "running" THEN linked ELSE OnRunUpdate(linked, r, st)
                     IN  IF e.closing THEN e ELSE PumpLoop(e, TRUE)
        /\ runState' = [runState EXCEPT ![r] = st]
        /\ UNCHANGED <<hold, onDisk, treesGone, away, torn>>

WedgedLaunch(i) == [engine EXCEPT !.starting = @ \ {i}]           \* mutant
FailedLaunch(i) == [SetStatus(engine, {i}, "failed") EXCEPT !.starting = @ \ {i}]
StartRunFails(i) ==
    /\ LoopFree /\ i \in engine.starting
    /\ engine' = PumpLoop(FailedLaunch(i), TRUE)
    /\ Idle

\* captureLandingCommit: the commit is written only to the attempt it is of.
AnyAttempt(i, r) == TRUE                                          \* mutant
OfThisAttempt(i, r) == engine.o.runId[i] = r
CaptureReturns(i, r) ==
    LET e == [engine EXCEPT !.capturing = @ \ {<<i, r>>}]
    IN  /\ LoopFree /\ <<i, r>> \in engine.capturing
        /\ \/ engine' = e        \* neither HEAD nor the branch resolved
           \/ /\ OfThisAttempt(i, r)
              /\ engine' = Persist([e EXCEPT !.o.headSha[i] = r])
        /\ Idle

-----------------------------------------------------------------------------
(* The runs: what the runtime and the people at it do between launches.    *)

RunGoes(r, from, to) ==
    /\ runState[r] \in from /\ Room
    /\ runState' = [runState EXCEPT ![r] = to]
    /\ engine' = OnRunUpdate(engine, r, to)
    /\ UNCHANGED <<onDisk, treesGone, away, torn>>

RunPauses(r)   == RunGoes(r, {"running"}, "paused") /\ UNCHANGED hold
RunHeld(r)     == r \in hold /\ RunGoes(r, {"running"}, "held") /\ hold' = hold \ {r}
RunFinishes(r) == RunGoes(r, {"running"}, "done") /\ hold' = hold \ {r}
RunAborts(r)   == RunGoes(r, {"running", "paused", "held"}, "aborted") /\ hold' = hold \ {r}
RunResumes(r)  == /\ \/ RunGoes(r, {"paused", "held"}, "running")
                     \/ RunGoes(r, {"held"}, "paused")
                  /\ UNCHANGED hold
RunReruns(r)   == /\ "rerun" \in Happens
                  /\ RunGoes(r, {"paused", "done", "aborted"}, "running")
                  /\ UNCHANGED hold

\* deleteRun tells the renderer, not the observer.
RunDeleted(r) ==
    /\ LoopFree /\ Known(r) /\ (runState[r] = "running" => "deleteRun" \in Happens)
    /\ runState' = [runState EXCEPT ![r] = "deleted"]
    /\ hold' = hold \ {r} /\ onDisk' = onDisk \ {r}
    /\ UNCHANGED <<engine, treesGone, away, torn>>

\* saveRun writes a run's file some time after the run was minted.
Checkpointed(r) ==
    /\ "restart" \in Happens          \* nothing else reads onDisk
    /\ LoopFree /\ Known(r) /\ r \notin onDisk
    /\ onDisk' = onDisk \cup {r}
    /\ UNCHANGED <<engine, runState, hold, treesGone, away, torn>>

-----------------------------------------------------------------------------
(* The crew, the disk and the process.                                     *)

CrewLeaves ==
    /\ "away" \in Happens /\ LoopFree /\ Worker /\ ~away
    /\ away' = TRUE
    /\ UNCHANGED <<engine, runState, hold, onDisk, treesGone, torn>>

CrewReturns ==
    /\ away /\ Room
    /\ away' = FALSE
    /\ engine' = PumpOnDuty(engine)
    /\ UNCHANGED <<runState, hold, onDisk, treesGone, torn>>

TreesVanish ==
    /\ "treesGone" \in Happens /\ engine.o.adopted /\ ~treesGone
    /\ treesGone' = TRUE
    /\ UNCHANGED <<engine, runState, hold, onDisk, away, torn>>

\* settleItemOnLoad: what a restart does to one item of the saved batch.
LeftRunning(f, i) ==                                              \* mutant
    IF f.status[i] = "running" /\ f.runId[i] \in onDisk THEN "paused" ELSE f.status[i]
SettledOnLoad(f, i) ==
    LET st == f.status[i]  there == f.runId[i] \in onDisk
    IN  IF st = "running" THEN IF there THEN "paused" ELSE "failed"
        ELSE IF st = "paused" /\ f.runId[i] # NoRun /\ ~there THEN "failed"
        ELSE IF st = "queued" /\ ~f.paused THEN "cancelled"
        ELSE st

LoadedOpen(f) == [f EXCEPT !.status = [i \in Items |-> SettledOnLoad(f, i)]] \* mutant
Loaded(f) ==
    LET o == [f EXCEPT !.status = [i \in Items |-> SettledOnLoad(f, i)]]
    IN  IF o # f /\ IsComplete(o) THEN [o EXCEPT !.completed = TRUE] ELSE o

\* The save maybeComplete ends with.
SaveCompletion ==
    /\ engine.closing
    /\ engine' = [Persist(engine) EXCEPT !.closing = FALSE]
    /\ Idle

\* The process dies with its pumps; the runs and the batch come back from disk.
Restart ==
    /\ "restart" \in Happens
    /\ engine' = [Created(0) EXCEPT
                    !.o    = IF engine.file = NoFile THEN @ ELSE Loaded(engine.file),
                    !.live = engine.file # NoFile,
                    !.file = engine.file]
    /\ runState' = [r \in Runs |->
                      IF Known(r) /\ r \notin onDisk THEN "deleted"
                      ELSE IF runState[r] = "running" THEN "paused" ELSE runState[r]]
    /\ hold' = hold \cap onDisk
    /\ torn' = (torn \/ engine.closing)
    /\ UNCHANGED <<onDisk, treesGone, away>>

-----------------------------------------------------------------------------
PumpStep(i) == ForkReturns(i) \/ ForkFails(i) \/ StartRunFails(i)
                 \/ \E st \in {"running", "paused", "aborted"} : StartRunReturns(i, st)

RunLeavesStep(r) == RunPauses(r) \/ RunHeld(r) \/ RunFinishes(r) \/ RunAborts(r)

Next ==
    \/ \E picks \in SUBSET Items, keep \in BOOLEAN : ApproveBatch(picks, keep)
    \/ \E i \in Items : RejectItem(i) \/ RejectRun(i)
    \/ AbortBatch \/ PauseBatch \/ ResumeBatch \/ RetryAny
    \/ DeleteBatch \/ DeleteForgotten
    \/ \E i \in Items : LandingUpdated(i)
    \/ ReclaimReturns
    \/ \E i \in Items : PumpStep(i)
    \/ \E i \in Items, r \in Runs : CaptureReturns(i, r)
    \/ \E r \in Runs : \/ RunLeavesStep(r) \/ RunResumes(r) \/ RunReruns(r)
                        \/ RunDeleted(r) \/ Checkpointed(r)
    \/ CrewLeaves \/ CrewReturns \/ TreesVanish \/ SaveCompletion \/ Restart

Spec == Init /\ [][Next]_vars

RunEnds(r) == runState[r] = "running" /\ (RunFinishes(r) \/ RunAborts(r))

\* A handler reaches its end, promises settle, and a run is not at work forever:
\* the runner's watchdogs end a silent turn and a flow has finitely many steps, so
\* a run that is continued again and again ends.  Nothing is assumed of people: a
\* parked run may stay parked and a paused batch paused.
FairSpec ==
    /\ Spec
    /\ WF_vars(SaveCompletion) /\ WF_vars(ReclaimReturns)
    /\ \A i \in Items : WF_vars(PumpStep(i))
    /\ \A r \in Runs : SF_vars(RunEnds(r))

-----------------------------------------------------------------------------
(* Properties.                                                             *)

TypeOK ==
    /\ engine \in Engine
    /\ runState \in [Runs -> RunStates]
    /\ hold \subseteq Runs /\ onDisk \subseteq Runs
    /\ treesGone \in BOOLEAN /\ away \in BOOLEAN /\ torn \in BOOLEAN

InFlight(e) == e.forking \cup e.starting

\* An item reads "running" without a run exactly while one pump waits for its
\* launch: abort, delete, retry and restart never strand an item at "running"
\* nor pull it from under the pump that will write its result.
LaunchesTracked ==
    /\ engine.forking \cap engine.starting = {}
    /\ InFlight(engine) = {i \in With(engine, {"running"}) : ~Linked(engine, i)}

\* A child run belongs to one item, and only to a run that was minted: a
\* terminal update can settle nobody else's work.
RunsLinkedOnce ==
    \A i \in Items : Linked(engine, i) =>
        /\ runState[engine.o.runId[i]] # "none"
        /\ \A j \in Items \ {i} : engine.o.runId[j] # engine.o.runId[i]

\* A finished batch has nothing left to launch: completedAt is set only once
\* the queue, the proposals and the launches in flight are gone, and Retry
\* reopens it.
CompletedHasNoQueue ==
    engine.o.completed => With(engine, {"proposed", "queued"}) \cup InFlight(engine) = {}

\* The ledger notices the end: once every item of a batch that nothing holds
\* back has settled, and no pump is about to look, it is marked complete, over
\* any restart but one: a process that dies between the save of the last item
\* and the save of the completion leaves a file no later start completes.
CompletionDetected ==
    ~torn /\ engine.live /\ IsComplete(engine.o) /\ ~engine.o.paused /\ ~CrewAway
        /\ engine.reclaiming = 0
    => engine.o.completed

\* A success the user was shown survives a crash at any moment.
DoneIsDurable ==
    engine.live => \A i \in With(engine, {"done"}) :
        engine.file # NoFile /\ engine.file.status[i] = "done"

\* The commit recorded for an item is of its current attempt, however late git
\* answers.
HeadOfThisAttempt ==
    \A i \in Items : engine.o.headSha[i] \in {NoRun, engine.o.runId[i]}

\* Every run that can still work is some item's, so a person finds it in the
\* batch and Abort reaches it.
NoOrphanRun ==
    engine.live => \A r \in Runs : Active(r) => \E i \in Items : engine.o.runId[i] = r

\* The ledger and the runtime agree: whatever the order of updates, promises and
\* clicks, a linked item tells the state its run is in, unless the run was
\* deleted.
ItemOf(st) == [running |-> "running", paused |-> "paused", held |-> "paused",
               done |-> "done", aborted |-> "failed"][st]
LedgerMirrorsRuns ==
    engine.live => \A i \in Items : LET r == engine.o.runId[i] IN
        r # NoRun /\ Known(r) =>
            \/ engine.o.status[i] = ItemOf(runState[r])
            \/ runState[r] = "aborted" /\ engine.o.status[i] = "cancelled"

\* No step launches past maxConcurrent (a person who continues a parked run
\* may still exceed it).
LaunchesUnderCap ==
    [][InFlight(engine)' \subseteq InFlight(engine) \/ RunningCount(engine)' <= Cap]_vars

\* The engine with its pumps, promises and re-entrant updates is a ledger whose
\* items move one legal step at a time, under the cap, and whose end is final.
Promise == INSTANCE BatchLedger WITH
    status <- engine.o.status, completed <- engine.o.completed
ImplementsLedger == Promise!Spec

\* A queued item is launched or settled, unless a person, the crew's absence or
\* a delete keeps its batch from moving.
QueueDrains ==
    \A i \in Items : engine.o.status[i] = "queued"
        ~> engine.o.status[i] # "queued" \/ engine.o.paused \/ CrewAway \/ ~engine.live
=============================================================================
