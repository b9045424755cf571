----------------------------- MODULE TeamEngine -----------------------------
(***************************************************************************)
(* The team engine (src/main/flows/teamEngine.ts): the tasks one team is   *)
(* given, from the brief to the pack.  A task waits its turn, is planned,  *)
(* and goes through its stages: members' stages are commissioned as        *)
(* batches of the orchestrator, one for each member's piece, the others    *)
(* are turns of the coordinator.                                           *)
(*                                                                         *)
(* A handler runs to its end, or to its next `await`, in one step.  What   *)
(* it does on its way is written as operators on a record of the whole     *)
(* state: Advance, LaunchStage and CheckStage call one another as the      *)
(* methods do, and the orchestrator answers an abort from inside it.       *)
(***************************************************************************)
EXTENDS Naturals, Sequences, FiniteSets

CONSTANTS
    K,            \* bound: tasks the team is given
    P,            \* members of the team
    Plan,         \* every plan: what each stage is and who has a piece in it
    AskFirst,     \* checkpoints.askFirst
    ReviewFirst,  \* checkpoints.reviewBeforeChallenge
    FinalReview,  \* checkpoints.finalReview
    Code,         \* tasks work in a repository, on a branch of their own
    Happens       \* bound: what may happen besides - "away" the crew leaves, "idle" members
                  \* are paused, "spend", "restart", "redo", "skip", "delete",
                  \* "rejects" a commission throws, and four
                  \* that break what is stated below, each an operation the code allows:
                  \* "early" (a piece is run again during a launch), "redoPaused",
                  \* "redoClash" (one that would not merge), "deleteAway"

Tasks   == 1..K
Members == 1..P
Stages  == 1..Len(Plan)
Kinds   == {"contribute", "challenge", "respond", "draft", "synthesize"}

ASSUME BoundAssumption == K \in Nat /\ P \in Nat
ASSUME PlanAssumption ==
    /\ Plan \in Seq([kind : Kinds, who : SUBSET Members]) /\ Plan # <<>>
    /\ \A j \in Stages :
          (Plan[j].kind \in {"draft", "synthesize"}) <=> (Plan[j].who = {})
ASSUME CheckpointAssumption ==
    {AskFirst, ReviewFirst, FinalReview, Code} \subseteq BOOLEAN

VARIABLES
    tasks,      \* the tasks, by their number in the order they were briefed
    planning,   \* tasks with a planning turn in flight (turning)
    turns,      \* coordinator's stages with a turn in flight (turning)
    launches,   \* per task, where launchMemberStage is (launching)
    batches,    \* the batches that are going, by the number that is their id
    waking,     \* a startNextTask is queued as a microtask
    away,       \* the crew is away
    idle        \* members that are paused

vars == <<tasks, planning, turns, launches, batches, waking, away, idle>>

Now == [tasks |-> tasks, planning |-> planning, turns |-> turns, launches |-> launches,
        batches |-> batches, waking |-> waking, away |-> away, idle |-> idle]

Becomes(e) ==
    \E now \in {e} :
        /\ tasks' = now.tasks /\ planning' = now.planning /\ turns' = now.turns
        /\ launches' = now.launches /\ batches' = now.batches /\ waking' = now.waking
        /\ away' = now.away /\ idle' = now.idle

-----------------------------------------------------------------------------
(* Records.                                                                *)

TaskStatus == {"none", "queued", "planning", "questions", "proposed", "running", "waiting",
               "review", "done", "failed", "cancelled", "deleted"}
StageStatus == {"pending", "running", "done", "failed", "skipped"}
PieceStatus == StageStatus \cup {"paused"}

\* batch: 0 without an orchestrationId, and once the piece has settled.  clash:
\* mergeConflict.
Piece == [status : PieceStatus, batch : Nat, clash : BOOLEAN]
NewPiece == [status |-> "pending", batch |-> 0, clash |-> FALSE]

\* A member without a piece in a stage has an unused one there.
Planned == [j \in Stages |-> [status |-> "pending", pieces |-> [m \in Members |-> NewPiece]]]

\* why: waiting.reason.  at: stageIndex.  cleared, awayCleared: the stage whose gate was
\* opened.  said: what the plan was asked again with.  broke: spent its budget.
NewTask == [status |-> "none", why |-> "none", resumes |-> "no", at |-> 1, cleared |-> 0,
            awayCleared |-> 0, said |-> "nothing", planned |-> FALSE, broke |-> FALSE,
            stages |-> Planned]

NoLaunch == [at |-> "none", stage |-> 0, member |-> 0, batch |-> 0]

Settled(x) == x.status \in {"done", "failed", "skipped"}
IsMemberStage(j) == Plan[j].kind \in {"contribute", "challenge", "respond"}
Smallest(S) == CHOOSE x \in S : \A y \in S : x <= y

IsTaskActive(k) ==
    k.status \in {"queued", "planning", "questions", "proposed", "running", "waiting"}
BlocksNewTask(k) ==
    k.status \in {"planning", "running"} \/ (k.status = "waiting" /\ k.why = "away")
SomeDone(s) == \E m \in Members : s.pieces[m].status = "done"
StillRunning(s, j) ==                                                                \* mutant
    \E m \in Plan[j].who : s.pieces[m].status \in {"pending", "running"}
StillGoing(s, j) == \E m \in Plan[j].who : ~Settled(s.pieces[m])

PersistOfEnded(e, t) ==                                                              \* mutant
    [e EXCEPT !.waking = @ \/ ~IsTaskActive(e.tasks[t])]

\* A task that no longer holds its team lets the next one in line start.
Persist(e, t) ==
    LET k == e.tasks[t]
    IN  [e EXCEPT !.waking = @ \/ (~BlocksNewTask(k) /\ k.status # "queued")]

Goes(e, t, status, why) ==
    Persist([e EXCEPT !.tasks[t].status = status, !.tasks[t].why = why], t)

Wait(e, t, why) == Goes(e, t, "waiting", why)

SetPiece(e, t, j, m, p) == [e EXCEPT !.tasks[t].stages[j].pieces[m] = p]

-----------------------------------------------------------------------------
(* Launching a members' stage: one commission after the other, each        *)
(* awaited; the batch exists, and has told, before the call returns.       *)

\* The number of a batch that is over is used again.
FreeBatch(e) ==
    Smallest((1..(Cardinality(DOMAIN e.batches) + 1)) \ DOMAIN e.batches)
With(f, b, o)  == [x \in DOMAIN f \cup {b} |-> IF x = b THEN o ELSE f[x]]
Without(f, S)  == [x \in DOMAIN f \ S |-> f[x]]

\* The loop of launchMemberStage from the member after `m` to its next await, or to its
\* end.  A member that is paused is refused.
Commission(e, t, j, m) ==
    LET k    == e.tasks[t]
        todo == {n \in Plan[j].who : n > m /\ k.stages[j].pieces[n].status = "pending"}
        n    == Smallest(todo)
        b    == FreeBatch(e)
        p    == [k.stages[j].pieces[n] EXCEPT !.status = "running"]
        Launched(at, c) == [at |-> at, stage |-> j, member |-> n, batch |-> c]
    IN  IF todo = {} \/ k.status # "running"
        THEN [e EXCEPT !.launches[t] = [NoLaunch EXCEPT !.at = "ending", !.stage = j]]
        ELSE IF n \in e.idle
        THEN [SetPiece(e, t, j, n, p) EXCEPT
                !.launches[t] = Launched("refused", 0)]
        ELSE Persist([SetPiece(e, t, j, n, [p EXCEPT !.batch = b]) EXCEPT
                !.launches[t] = Launched("commissioning", b),
                !.batches = With(@, b, [state |-> "starting", task |-> t,
                                        stage |-> j, member |-> n])], t)

\* A piece with its stage to itself works in the task's own checkout, restored first.
LaunchStage(e, t, j) ==
    LET f == Persist([e EXCEPT !.tasks[t].stages[j].status = "running"], t)
    IN  IF e.launches[t] # NoLaunch THEN e
        ELSE IF Code /\ Cardinality(Plan[j].who) = 1
        THEN [f EXCEPT !.launches[t] = [NoLaunch EXCEPT !.at = "restoring", !.stage = j]]
        ELSE Commission(f, t, j, 0)

RunCoordinatorStage(e, t, j) ==
    IF <<t, j>> \in e.turns THEN e
    ELSE Persist([e EXCEPT !.tasks[t].stages[j].status = "running",
                           !.turns = @ \cup {<<t, j>>}], t)

-----------------------------------------------------------------------------
(* Moving a task on.                                                       *)

Finish(e, t) == Goes(e, t, IF FinalReview THEN "review" ELSE "done", "none")

\* advance, to the next stage that is not over and through its gates.
Advance(e, t) ==
    LET k == e.tasks[t]
        open == {j \in Stages : j >= k.at /\ ~Settled(k.stages[j])}
        j == IF open = {} THEN Len(Plan) + 1 ELSE Smallest(open)
        f == [e EXCEPT !.tasks[t].at = j]
    IN  IF k.status # "running" THEN e
        ELSE IF open = {} THEN Finish(f, t)
        ELSE IF k.stages[j].status = "running" THEN f
        ELSE IF Plan[j].kind = "challenge" /\ ReviewFirst /\ k.cleared # j /\ j > 1
        THEN Wait(f, t, "checkpoint")
        ELSE IF k.broke THEN Wait(f, t, "budget")
        ELSE IF e.away /\ k.awayCleared # j THEN Wait(f, t, "away")
        ELSE IF IsMemberStage(j) THEN LaunchStage(f, t, j)
        ELSE RunCoordinatorStage(f, t, j)

\* checkStage: a stage is over once every piece has landed, failed or been dropped.
CheckStage(e, t) ==
    LET k == e.tasks[t]
        j == k.at
        s == k.stages[j]
        failed == {m \in Plan[j].who : s.pieces[m].status = "failed"}
        clashed == {m \in Plan[j].who : s.pieces[m].clash}
        over == IF SomeDone(s) THEN "done" ELSE "skipped"
    IN  IF \/ k.status # "running" \/ e.launches[t] # NoLaunch
           \/ j > Len(Plan) \/ ~IsMemberStage(j) \/ s.status # "running"
           \/ StillGoing(s, j)
        THEN e
        ELSE IF failed = Plan[j].who
        THEN Wait([e EXCEPT !.tasks[t].stages[j].status = "failed"], t, "failed")
        ELSE IF failed \cup clashed # {} THEN Wait(e, t, "failed")
        ELSE Advance(Persist([e EXCEPT !.tasks[t].stages[j].status = over,
                                       !.tasks[t].at = j + 1], t), t)

-----------------------------------------------------------------------------
(* The batches.  What they are told reaches applyBatch inside the call.    *)

FoldedRaw(p, b, how) ==                                                              \* mutant
    [p EXCEPT !.status = how, !.batch = IF how \in {"running", "paused"} THEN b ELSE 0]

Folded(p, b, how) ==
    CASE how \in {"running", "paused"} -> [p EXCEPT !.status = how, !.batch = b]
      [] how \in {"done", "clash"} ->
           [p EXCEPT !.status = "done", !.batch = 0, !.clash = (how = "clash")]
      [] how = "failed" -> [p EXCEPT !.status = "failed", !.batch = 0]

ApplyBatch(e, o, b, how) ==
    LET t == o.task
        k == e.tasks[t]
        p == k.stages[o.stage].pieces[o.member]
        f == Persist(SetPiece(e, t, o.stage, o.member, Folded(p, b, how)), t)
    IN  IF p.batch \notin {0, b} \/ Settled(p) \/ ~IsTaskActive(k) THEN e
        ELSE IF o.stage = k.at THEN CheckStage(f, t) ELSE f

\* The batch changes and says so.  One that is over is forgotten.
Told(e, b, how) ==
    ApplyBatch([e EXCEPT !.batches =
                  IF how \in {"running", "paused"} THEN [@ EXCEPT ![b].state = how]
                  ELSE Without(@, {b})],
               e.batches[b], b, how)

\* The orchestrator's abort passes over an item whose run has not been made.
Abortable(e, b) == b \in DOMAIN e.batches /\ e.batches[b].state \in {"running", "paused"}

\* cancelBatch for a piece that is already marked: nothing comes back.
Cancelled(e, S) == [e EXCEPT !.batches = Without(@, {b \in S : Abortable(e, b)})]

BatchChanges(b, how) ==
    /\ b \in DOMAIN batches
    /\ \/ batches[b].state = "running" /\ how # "running"
       \/ batches[b].state = "paused" /\ how \in {"running", "failed"}
    /\ how = "clash" => Code
    /\ Becomes(Told(Now, b, how))

UnwantedIfSkipped(e, t, j, m) ==                                                     \* mutant
    e.tasks[t].stages[j].pieces[m].status = "skipped"

\* Skipped, or its task over, while the commission was in flight.
Unwanted(e, t, j, m) ==
    e.tasks[t].stages[j].pieces[m].status = "skipped" \/ ~IsTaskActive(e.tasks[t])

CommissionReturns(t, how) ==
    LET l == launches[t]
        told == Told(Now, l.batch, how)
        kept == IF Unwanted(told, t, l.stage, l.member) THEN Cancelled(told, {l.batch})
                ELSE Persist(told, t)
    IN  /\ l.at = "commissioning"
        /\ Becomes(Commission(kept, t, l.stage, l.member))

CommissionRefused(t) ==
    LET l == launches[t]
        p == tasks[t].stages[l.stage].pieces[l.member]
        failed == Persist(SetPiece(Now, t, l.stage, l.member, [p EXCEPT !.status = "failed"]), t)
    IN  /\ l.at = "refused"
        /\ Becomes(Commission(IF Unwanted(Now, t, l.stage, l.member) THEN Now ELSE failed,
                              t, l.stage, l.member))

\* Nothing catches a commission that throws before its batch is made: the launch is over, the
\* task is not looked at again, and the piece reads running without a batch until somebody
\* drops it.
CommissionRejects(t) ==
    LET l == launches[t]
        p == tasks[t].stages[l.stage].pieces[l.member]
        lost == SetPiece(Now, t, l.stage, l.member, [p EXCEPT !.batch = 0])
    IN  /\ "rejects" \in Happens
        /\ l.at = "commissioning"
        /\ Becomes([lost EXCEPT !.launches[t] = NoLaunch,
                                !.batches = Without(@, {l.batch})])

RestoreReturns(t) ==
    /\ launches[t].at = "restoring"
    /\ Becomes(Commission(Now, t, launches[t].stage, 0))

LaunchEndsChecking(t) ==                                                             \* mutant
    launches[t].at = "ending" /\ Becomes(CheckStage([Now EXCEPT !.launches[t] = NoLaunch], t))

\* The whole stage may have been skipped meanwhile, and the task moved on.
LaunchEnds(t) ==
    LET over == [Now EXCEPT !.launches[t] = NoLaunch]
    IN  /\ launches[t].at = "ending"
        /\ Becomes(IF tasks[t].at # launches[t].stage THEN Advance(over, t)
                   ELSE CheckStage(over, t))

TurnReturns(t, j, ok) ==
    LET over == [Now EXCEPT !.turns = @ \ {<<t, j>>}]
        done == Persist([over EXCEPT !.tasks[t].stages[j].status = "done",
                                     !.tasks[t].at = j + 1], t)
        failed == Wait([over EXCEPT !.tasks[t].stages[j].status = "failed"], t, "failed")
    IN  /\ <<t, j>> \in turns
        /\ Becomes(IF tasks[t].status # "running" \/ tasks[t].at # j THEN over
                   ELSE IF ok THEN Advance(done, t) ELSE failed)

-----------------------------------------------------------------------------
(* From the brief to an approved plan.                                     *)

\* plan, up to its turn.
Plans(e, t) == [e EXCEPT !.planning = @ \cup {t}]

AskAgain(e, t, said) ==
    Plans(Goes([e EXCEPT !.tasks[t].said = said], t, "planning", "none"), t)

TeamRunning(e, t) ==                                                                 \* mutant
    \E u \in Tasks \ {t} : e.tasks[u].status = "running"

\* teamAtWork: a short turn that thinks about a plan does not count.
TeamAtWork(e, t) ==
    \E u \in Tasks \ {t} : BlocksNewTask(e.tasks[u]) /\ e.tasks[u].status # "planning"

StartApproved(e, t) ==
    Advance(Goes([e EXCEPT !.tasks[t].at = 1], t, "running", "none"), t)

CarryOn(e, t) == Advance(Goes(e, t, "running", "none"), t)

\* startNextTask: those a person has cleared go first.
StartNext(e) ==
    LET queued == {t \in Tasks : e.tasks[t].status = "queued"}
        cleared == {t \in queued : e.tasks[t].resumes # "no"}
        t == Smallest(IF cleared # {} THEN cleared ELSE queued)
        f == [e EXCEPT !.tasks[t].resumes = "no"]
    IN  IF \/ \E u \in Tasks : BlocksNewTask(e.tasks[u])
           \/ queued = {} \/ e.idle # {}
        THEN e
        ELSE CASE e.tasks[t].resumes = "approved" -> StartApproved(f, t)
               [] e.tasks[t].resumes = "carryOn"  -> CarryOn(f, t)
               [] OTHER -> Plans(Goes(f, t, "planning", "none"), t)

WakeUp == waking /\ Becomes(StartNext([Now EXCEPT !.waking = FALSE]))

PlanReturns(t, reply) ==
    LET over == [Now EXCEPT !.planning = @ \ {t}]
        plan == [over EXCEPT !.tasks[t].stages = Planned, !.tasks[t].planned = TRUE,
                             !.tasks[t].at = 1]
    IN  /\ t \in planning
        /\ reply = "questions" => AskFirst /\ tasks[t].said = "nothing"
        /\ reply = "answer" => tasks[t].said # "feedback"
        /\ Becomes(IF tasks[t].status # "planning" THEN over
                   ELSE CASE reply = "plan"      -> Goes(plan, t, "proposed", "none")
                          [] reply = "questions" -> Goes(over, t, "questions", "none")
                          [] reply = "answer"    -> Goes(over, t, "done", "none")
                          [] reply = "error"     -> Goes(over, t, "failed", "none"))

\* Between two macrotasks the microtasks have run.
Quiet == ~waking /\ \A t \in Tasks : launches[t].at \notin {"refused", "ending"}

Brief(t) ==
    /\ Quiet /\ idle = {}
    /\ tasks[t].status = "none" /\ \A u \in 1..(t - 1) : tasks[u].status # "none"
    /\ Becomes(IF \E u \in Tasks : BlocksNewTask(tasks[u])
               THEN Goes(Now, t, "queued", "none")
               ELSE Plans(Goes(Now, t, "planning", "none"), t))

Answer(t) == Quiet /\ tasks[t].status = "questions" /\ Becomes(AskAgain(Now, t, "answers"))
Revise(t) == Quiet /\ tasks[t].status = "proposed" /\ Becomes(AskAgain(Now, t, "feedback"))

Queued(e, t, resumes) ==
    Goes([e EXCEPT !.tasks[t].resumes = resumes], t, "queued", "none")

Approve(t) ==
    /\ Quiet /\ tasks[t].status = "proposed"
    /\ Becomes(IF TeamAtWork(Now, t) THEN Queued(Now, t, "approved") ELSE StartApproved(Now, t))

-----------------------------------------------------------------------------
(* What a person does to a task under way.                                 *)

Here(t) == tasks[t].stages[tasks[t].at]
Under(t) == tasks[t].at \in Stages

\* The stage stays as its pieces are; the task goes past it.
Past(e, t, status) ==
    LET j == e.tasks[t].at
    IN  [e EXCEPT !.tasks[t].stages[j].status = status, !.tasks[t].at = j + 1]

Unclashed(e, t) ==
    LET j == e.tasks[t].at
    IN  [e EXCEPT !.tasks[t].stages[j].pieces =
            [m \in Members |-> [@[m] EXCEPT !.clash = FALSE]]]

Clashing(t) == {m \in Plan[tasks[t].at].who : Here(t).pieces[m].clash}

\* What continueTask does to the gate, or to the stage, the task waits at.
Opened(t) ==
    LET k == tasks[t]
    IN  CASE k.why = "checkpoint" -> [Now EXCEPT !.tasks[t].cleared = k.at]
          [] k.why = "away"       -> [Now EXCEPT !.tasks[t].awayCleared = k.at]
          [] k.why = "budget"     -> [Now EXCEPT !.tasks[t].broke = FALSE]
          [] k.why = "failed" /\ Clashing(t) # {} -> Past(Unclashed(Now, t), t, "done")
          [] OTHER -> Past(Now, t, IF SomeDone(Here(t)) THEN "done" ELSE "failed")

ContinueTask(t) ==
    LET k == tasks[t]
    IN  /\ Quiet /\ k.status = "waiting"
        /\ k.why = "failed" => Plan[k.at].kind # "synthesize"
        /\ Becomes(IF TeamAtWork(Opened(t), t) THEN Queued(Opened(t), t, "carryOn")
                   ELSE CarryOn(Opened(t), t))

Anew(p) == [p EXCEPT !.status = "pending", !.batch = 0]
FailedAnew(e, t) ==
    LET j == e.tasks[t].at
    IN  [e EXCEPT !.tasks[t].stages[j] =
          [status |-> "pending",
           pieces |-> [m \in Members |-> IF @.pieces[m].status = "failed"
                                           THEN Anew(@.pieces[m]) ELSE @.pieces[m]]]]

RetryPlan(t) ==
    /\ Quiet /\ tasks[t].status = "failed" /\ ~tasks[t].planned
    /\ Becomes(Plans(Goes(Now, t, "planning", "none"), t))

\* retry: the changes that would not merge are merged again, or what failed runs again.
Retry(t) ==
    /\ Quiet /\ tasks[t].status = "waiting" /\ tasks[t].why = "failed"
    /\ IF Clashing(t) = {} THEN Becomes(CarryOn(FailedAnew(Now, t), t))
       ELSE \E again \in SUBSET Clashing(t) :
              Becomes(CheckStage(Goes(
                [Now EXCEPT !.tasks[t].stages[tasks[t].at].pieces =
                    [m \in Members |-> [@[m] EXCEPT !.clash = m \in again]]],
                t, "running", "none"), t))

\* retryPiece and redoPiece start the launch, unless one is under way.
PieceAnew(e, t, m) ==
    LET j == e.tasks[t].at
        f == SetPiece(e, t, j, m, Anew(e.tasks[t].stages[j].pieces[m]))
    IN  LaunchStage(Goes(f, t, "running", "none"), t, j)

MayLaunch(t) == launches[t] = NoLaunch \/ "early" \in Happens

RetryPiece(t, m) ==
    LET k == tasks[t]
    IN  /\ Quiet /\ MayLaunch(t) /\ Under(t) /\ m \in Plan[k.at].who
        /\ Here(t).pieces[m].status = "failed"
        /\ k.status = "running" \/ (k.status = "waiting" /\ k.why = "failed")
        /\ Becomes(PieceAnew(Now, t, m))

\* A run that goes is stopped; one that is paused is left.
RedoPiece(t, m) ==
    LET k == tasks[t]
        p == Here(t).pieces[m]
        f == [Now EXCEPT !.tasks[t].stages[k.at].status = "running"]
    IN  /\ "redo" \in Happens
        /\ Quiet /\ MayLaunch(t) /\ Under(t) /\ m \in Plan[k.at].who
        /\ \/ k.status = "running"
           \/ k.status = "waiting" /\ k.why \in {"failed", "checkpoint"}
        /\ p.status = "paused" => "redoPaused" \in Happens
        /\ p.clash => "redoClash" \in Happens
        /\ Becomes(PieceAnew(IF p.status = "running" THEN Cancelled(f, {p.batch}) ELSE f, t, m))

CanSkipStage(k, j) ==
    /\ j \in Stages /\ Plan[j].kind # "synthesize"
    /\ k.status \in {"running", "waiting"} /\ j >= k.at
    /\ k.stages[j].status \in {"pending", "running"}

Skipped(p) == IF Settled(p) THEN p ELSE [p EXCEPT !.status = "skipped", !.batch = 0]

\* skipStage: whatever the aborts of its pieces lead to is written over at the end.
StageSkipped(e, t, j) ==
    LET s == e.tasks[t].stages[j]
        f == [Cancelled(e, {s.pieces[m].batch : m \in Plan[j].who}) EXCEPT
                !.tasks[t].stages[j] =
                   [status |-> IF SomeDone(s) THEN "done" ELSE "skipped",
                    pieces |-> [m \in Members |-> IF m \in Plan[j].who THEN Skipped(s.pieces[m])
                                                    ELSE s.pieces[m]]]]
    IN  IF j = e.tasks[t].at THEN CarryOn([f EXCEPT !.tasks[t].at = j + 1], t)
        ELSE Persist(f, t)

SkipStage(t, j) ==
    /\ "skip" \in Happens
    /\ Quiet /\ CanSkipStage(tasks[t], j)
    /\ Becomes(StageSkipped(Now, t, j))

\* dropPiece: the abort is told before the piece is marked.
Dropped(e, t, j, m) ==
    LET b == e.tasks[t].stages[j].pieces[m].batch
        f == IF Abortable(e, b) THEN Told(e, b, "failed") ELSE e
    IN  [f EXCEPT !.tasks[t].stages[j].pieces[m].status = "skipped",
                  !.tasks[t].stages[j].pieces[m].batch = 0]

SkipPiece(t, j, m) ==
    LET e == Dropped(Now, t, j, m)
        k == e.tasks[t]
    IN  /\ "skip" \in Happens
        /\ Quiet /\ CanSkipStage(tasks[t], j) /\ m \in Plan[j].who
        /\ ~Settled(tasks[t].stages[j].pieces[m])
        /\ Becomes(IF j = k.at /\ k.stages[j].status = "running" THEN CheckStage(Persist(e, t), t)
                   ELSE IF \E n \in Plan[j].who : k.stages[j].pieces[n].status # "skipped"
                   THEN Persist(e, t)
                   ELSE IF CanSkipStage(k, j) THEN StageSkipped(e, t, j) ELSE e)

Stopped(s, j) ==
    [status |-> IF Settled(s) THEN s.status ELSE IF SomeDone(s) THEN "done" ELSE "failed",
     pieces |-> [m \in Members |->
        IF m \notin Plan[j].who \/ Settled(s.pieces[m]) THEN s.pieces[m]
        ELSE [s.pieces[m] EXCEPT !.status = "failed", !.batch = 0]]]

Cancel(t) ==
    LET k == tasks[t]
        going == UNION {{k.stages[j].pieces[m].batch : m \in Plan[j].who} : j \in Stages}
    IN  /\ Quiet /\ IsTaskActive(k)
        /\ Becomes(Goes([Cancelled(Now, going) EXCEPT
                !.tasks[t].stages = [j \in Stages |-> Stopped(@[j], j)]], t, "cancelled", "none"))

Accept(t) == Quiet /\ tasks[t].status = "review" /\ Becomes(Goes(Now, t, "done", "none"))

\* deleteTask wakes nobody.
DeleteTask(t) ==
    /\ "delete" \in Happens
    /\ Quiet /\ tasks[t].status \notin {"none", "running", "planning", "deleted"}
    /\ tasks[t].why = "away" => "deleteAway" \in Happens
    /\ tasks' = [tasks EXCEPT ![t] = [NewTask EXCEPT !.status = "deleted"]]
    /\ UNCHANGED <<planning, turns, launches, batches, waking, away, idle>>

-----------------------------------------------------------------------------
(* The team, the crew and the process.                                     *)

\* A task is found over its budget at its next gate.
Spends(t) ==
    /\ "spend" \in Happens /\ Quiet /\ tasks[t].status = "running" /\ ~tasks[t].broke
    /\ tasks' = [tasks EXCEPT ![t].broke = TRUE]
    /\ UNCHANGED <<planning, turns, launches, batches, waking, away, idle>>

MemberPaused(m) ==
    /\ "idle" \in Happens /\ Quiet
    /\ idle' = IF m \in idle THEN idle \ {m} ELSE idle \cup {m}
    /\ UNCHANGED <<tasks, planning, turns, launches, batches, waking, away>>

CrewLeaves ==
    /\ "away" \in Happens /\ Quiet /\ ~away
    /\ away' = TRUE
    /\ UNCHANGED <<tasks, planning, turns, launches, batches, waking, idle>>

Resumed(e, t) ==
    IF e.tasks[t].status = "waiting" /\ e.tasks[t].why = "away" THEN CarryOn(e, t) ELSE e

\* crewBack, task after task.
AllResumed(e) ==
    LET walked[t \in 0..K] == IF t = 0 THEN e ELSE Resumed(walked[t - 1], t)
    IN  walked[K]

CrewReturns == Quiet /\ away /\ Becomes(AllResumed([Now EXCEPT !.away = FALSE]))

\* A batch whose run was not made yet is lost with the process; the others come back paused.
Lost(b) == b \notin DOMAIN batches \/ batches[b].state = "starting"
Found(p) ==
    IF p.batch = 0 THEN p
    ELSE IF Lost(p.batch) THEN [p EXCEPT !.status = "failed", !.batch = 0]
    ELSE [p EXCEPT !.status = "paused"]
AllFound(s) == [s EXCEPT !.pieces = [m \in Members |-> Found(@[m])]]
FoundIn(k)  == [k EXCEPT !.stages = [j \in Stages |-> AllFound(@[j])]]

Reloaded ==
    [Now EXCEPT !.planning = {}, !.turns = {}, !.waking = FALSE,
                !.launches = [t \in Tasks |-> NoLaunch],
                !.batches  = [b \in {x \in DOMAIN batches : ~Lost(x)} |->
                                [batches[b] EXCEPT !.state = "paused"]],
                !.tasks    = [t \in Tasks |-> FoundIn(tasks[t])]]

\* recover: what was under way when the process died is taken up.
Recover(e, t) ==
    LET k == e.tasks[t]
        j == k.at
        s == k.stages[j]
    IN  IF k.status = "planning" THEN Plans(e, t)
        ELSE IF k.status # "running" THEN e
        ELSE IF j \notin Stages THEN Finish(e, t)
        ELSE IF s.status # "running" THEN Advance(e, t)
        ELSE IF ~IsMemberStage(j)
        THEN Advance([e EXCEPT !.tasks[t].stages[j].status = "pending"], t)
        ELSE IF \E m \in Plan[j].who : s.pieces[m].status = "pending" THEN LaunchStage(e, t, j)
        ELSE CheckStage(Persist(e, t), t)

AllRecovered(e) ==
    LET walked[t \in 0..K] == IF t = 0 THEN e ELSE Recover(walked[t - 1], t)
    IN  walked[K]

Restart ==
    /\ "restart" \in Happens /\ Quiet
    /\ Becomes(StartNext(AllRecovered(Reloaded)))

-----------------------------------------------------------------------------
Init ==
    /\ tasks = [t \in Tasks |-> NewTask]
    /\ planning = {} /\ turns = {}
    /\ launches = [t \in Tasks |-> NoLaunch]
    /\ batches = [b \in {} |-> {}]
    /\ waking = FALSE /\ away = FALSE /\ idle = {}

BatchEnds(b) == \E how \in {"done", "clash", "failed"} : BatchChanges(b, how)

\* The run of a piece, and that it ends.
Runs(t, j, m) == {b \in DOMAIN batches :
    /\ batches[b].state = "running" /\ batches[b].task = t
    /\ batches[b].stage = j /\ batches[b].member = m}
RunEnds(t, j, m) == \E b \in Runs(t, j, m) : BatchEnds(b)

LaunchStep(t) ==
    \/ RestoreReturns(t) \/ CommissionRefused(t) \/ LaunchEnds(t)
    \/ \E how \in {"running", "failed"} : CommissionReturns(t, how)

PlanStep(t) == \E reply \in {"plan", "questions", "answer", "error"} : PlanReturns(t, reply)

TurnStep(t, j) == \E ok \in BOOLEAN : TurnReturns(t, j, ok)

Person(t) ==
    \/ Brief(t) \/ Answer(t) \/ Revise(t) \/ Approve(t) \/ ContinueTask(t)
    \/ RetryPlan(t) \/ Retry(t) \/ Cancel(t) \/ Accept(t) \/ DeleteTask(t)
    \/ \E m \in Members : RetryPiece(t, m) \/ RedoPiece(t, m)
    \/ \E j \in Stages : SkipStage(t, j) \/ \E m \in Members : SkipPiece(t, j, m)

Next ==
    \/ WakeUp \/ CrewLeaves \/ CrewReturns \/ Restart
    \/ \E b \in DOMAIN batches : BatchEnds(b) \/ \E how \in {"running", "paused"} : BatchChanges(b, how)
    \/ \E t \in Tasks :
          \/ LaunchStep(t) \/ PlanStep(t) \/ Person(t) \/ Spends(t) \/ CommissionRejects(t)
          \/ \E j \in Stages : TurnStep(t, j)
    \/ \E m \in Members : MemberPaused(m)

Spec == Init /\ [][Next]_vars

\* Microtasks run and promises settle - a turn has a timeout.  A run that stops and is
\* continued over and over ends in the end: fairness is strong there.  Nothing is assumed
\* of people.  Written out rather than with WF_ and SF_: each conjunct names what enables
\* its action, which TLC would find by trying the action in every state.
FairSpec ==
    /\ Spec
    /\ []<>~waking \/ []<><<WakeUp>>_vars
    /\ \A t \in Tasks :
          /\ []<>(launches[t] = NoLaunch) \/ []<><<LaunchStep(t)>>_vars
          /\ []<>(t \notin planning) \/ []<><<PlanStep(t)>>_vars
          /\ \A j \in Stages : []<>(<<t, j>> \notin turns) \/ []<><<TurnStep(t, j)>>_vars
    /\ \A t \in Tasks, j \in Stages, m \in Members :
          <>[](Runs(t, j, m) = {}) \/ []<><<RunEnds(t, j, m)>>_vars

-----------------------------------------------------------------------------
(* Properties.                                                             *)

Stage == [status : StageStatus, pieces : [Members -> Piece]]

Whys == {"none", "checkpoint", "budget", "failed", "away"}

Task == [status : TaskStatus, why : Whys,
         resumes : {"no", "approved", "carryOn"}, at : 1..(Len(Plan) + 1),
         cleared : 0..Len(Plan), awayCleared : 0..Len(Plan),
         said : {"nothing", "answers", "feedback"}, planned : BOOLEAN, broke : BOOLEAN,
         stages : [Stages -> Stage]]

Launch == [at : {"none", "restoring", "commissioning", "refused", "ending"},
           stage : {0} \cup Stages, member : {0} \cup Members, batch : Nat]

Batch == [state : {"starting", "running", "paused"}, task : Tasks, stage : Stages,
          member : Members]

\* The tables hold what they are declared to.
TypeOK ==
    /\ tasks \in [Tasks -> Task]
    /\ planning \subseteq Tasks /\ turns \subseteq Tasks \X Stages
    /\ launches \in [Tasks -> Launch]
    /\ batches \in [DOMAIN batches -> Batch]
    /\ IsFiniteSet(DOMAIN batches) /\ DOMAIN batches \subseteq Nat \ {0}
    /\ waking \in BOOLEAN /\ away \in BOOLEAN /\ idle \subseteq Members

\* No run goes on that nobody waits for: a batch that is going belongs to a piece that is
\* not settled, of a task that has not ended, or to the commission that is still in
\* flight and will stop it.
NothingRunsOn ==
    \A b \in DOMAIN batches :
        LET o == batches[b]
            p == tasks[o.task].stages[o.stage].pieces[o.member]
        IN  \/ launches[o.task].batch = b
            \/ p.batch = b /\ ~Settled(p) /\ IsTaskActive(tasks[o.task])

\* A task that reads as running is being moved on: by a launch, by a turn of its stage or
\* by a batch, each of which will look at the stage when it is through.
RunningIsPursued ==
    \A t \in Tasks : tasks[t].status = "running" =>
        LET j == tasks[t].at
        IN  \/ launches[t] # NoLaunch
            \/ <<t, j>> \in turns
            \/ \E m \in Plan[j].who : Here(t).pieces[m].batch # 0

\* A stage is begun when every piece before it is in, has failed or was dropped.
StageOrder ==
    \A t \in Tasks : \A i, j \in Stages :
        i < j /\ (tasks[t].stages[j].status = "running"
                    \/ \E m \in Plan[j].who : tasks[t].stages[j].pieces[m].batch # 0)
        => Settled(tasks[t].stages[i])
             /\ \A m \in Plan[i].who : Settled(tasks[t].stages[i].pieces[m])

\* A task comes to work - or to wait for the crew - only when none of the others does,
\* whatever order the approvals, the ends and the crew's return come in.  (Retry, Redo
\* and Skip of a task that waits do not look at the others.)
Working(t) == tasks[t].status = "running" \/ (tasks[t].status = "waiting" /\ tasks[t].why = "away")
StartsAlone ==
    [][\A t \in Tasks : Working(t)' /\ ~Working(t) /\ tasks[t].status # "waiting"
          => \A u \in Tasks \ {t} : ~Working(u)']_vars

\* A task in the queue starts in the end - whatever the others do, each save that frees the
\* team wakes the next - or people keep it there: the crew is away, or a run of another
\* task, or a piece whose commission threw, waits for someone, for good.
Stranded(t) == /\ tasks[t].status = "running" /\ launches[t] = NoLaunch
               /\ \E m \in Members : /\ Here(t).pieces[m].status = "running"
                                      /\ Here(t).pieces[m].batch = 0
AwaitsPeople ==
    \/ away \/ \E b \in DOMAIN batches : batches[b].state = "paused"
    \/ \E t \in Tasks : Stranded(t)
QueueMoves == \A t \in Tasks : []<>(tasks[t].status # "queued") \/ <>[]AwaitsPeople
=============================================================================
