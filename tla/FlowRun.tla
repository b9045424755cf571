------------------------------ MODULE FlowRun ------------------------------
(***************************************************************************)
(* One flow run (src/src/main/flows/runtime.ts): its steps, the turns its  *)
(* participants take on their conversations (src/src/main/runner.ts), the  *)
(* pauses a person answers, and the checkpoint on disk (runsStore.ts).     *)
(*                                                                         *)
(* The runtime is called back by the runner synchronously, even from       *)
(* inside the calls it makes of it: stop() reports the conversation idle   *)
(* before it returns.  Its handlers are therefore functions from state to  *)
(* state that the actions compose; what a handler leaves behind an `await` *)
(* is an entry of `awaits`, and resumes in an action of its own.           *)
(***************************************************************************)
EXTENDS Integers, Sequences

CONSTANTS
    Last,        \* steps of a flow, 1..Last
    Parties,     \* participants, each with one conversation
    Flows,       \* the flows a run may be of
    MaxRetries, MaxReasks, MaxRounds,   \* the budgets of goto, reask, questions
    MaxMoves     \* bound: what people and crashes do to a run of each flow

Steps == 1..Last
Gates == {"externalAction", "riskyStep", "preStep"}
Why   == Gates \cup {"failure", "needsInput", "interrupted", "held", "none"}

\* flowSnapshot, and what of the run is settled when it starts.
Flow == [part    : [Steps -> Parties],          \* stepParticipantKey
         gate    : [Steps -> Gates \cup {"none"}], \* pauseReasonBeforeStep
         goto    : [Steps -> 0..Last],          \* on_fail: goto; 0: pause
         aborts  : SUBSET Steps,                \* on_fail: abort
         diffs   : SUBSET Steps,                \* whose output is the worktree's diff
         readsDiff : SUBSET Steps,
         ifChanged : SUBSET Steps,              \* only_if_changed
         reviews : SUBSET Steps,                \* with a verdict gate
         writes  : SUBSET Steps,                \* not to be repeated unasked
         worker  : BOOLEAN]                     \* is it a worker's run?

ASSUME FlowAssumption   == Last \in Nat \ {0} /\ Flows \subseteq Flow
ASSUME BudgetAssumption ==
    MaxRetries \in Nat /\ MaxReasks \in Nat /\ MaxRounds \in Nat /\ \A f \in Flows : MaxMoves[f] \in Nat

VARIABLES
    flow,   \* the flow, which never changes under a run
    rt,     \* the run, what the runtime remembers of it, and its conversations
    moves   \* moves made so far

vars == <<flow, rt, moves>>

Part(s) == flow.part[s]
Gate(s) == flow.gate[s]
Goto(s) == flow.goto[s]

-----------------------------------------------------------------------------
(***************************************************************************)
(* The state.  `run` is what a checkpoint saves: where the run stands, the *)
(* hold and the approval on it, which steps have an artifact, the rounds   *)
(* of questions since a step last succeeded, and two histories: `settled`, *)
(* the steps whose last result lets the run go on, and `cleared`, the      *)
(* steps somebody said go to since the run last came to them.              *)
(*                                                                         *)
(* A conversation has the sends whose launch is being prepared, whether    *)
(* claudeSendPending holds it, and the turns its process has been given;   *)
(* `inFlight` is the process's turnInFlight.  A turn is named for the step *)
(* whose output it was asked for; 0 is chat.                               *)
(***************************************************************************)
Kinds == {"running", "paused", "done", "aborted", "deleted"}
Run   == [kind : Kinds, at : Steps, why : Why, hold : BOOLEAN, approved : 0..Last,
          made : SUBSET Steps, rounds : [Steps -> Nat],
          settled : SUBSET Steps, cleared : SUBSET Steps]

Turns == Seq(0..Last)
Conv  == [prep : Turns, pending : BOOLEAN, queue : Turns, inFlight : BOOLEAN]
Idle  == [prep |-> <<>>, pending |-> FALSE, queue |-> <<>>, inFlight |-> FALSE]

Waits == {"refresh", "diff", "ask", "changed"}

Runtime == [run : Run, disk : Run,
            buf     : SUBSET {"output", "question"}, \* what stepBuffers holds for the step
            chat    : SUBSET Parties,   \* pauseChatHappened
            final   : 0..Last,          \* finalizingRuns: the step finalize leads to
            retries : [Steps -> Nat], reasks : [Steps -> Nat],
            armed   : BOOLEAN,          \* stepWatchdogTimer
            awaits  : [Waits -> [Steps -> Nat]],
            conv    : [Parties -> Conv]]

At(e, kind, s)  == e.run.kind = kind /\ e.run.at = s
Goes(e, s)      == [e EXCEPT !.run.kind = "running", !.run.at = s, !.run.why = "none"]
StopsUnexplained(e, s, why) == [e EXCEPT !.run.kind = "paused", !.run.at = s] \* mutant
Stops(e, s, why) == [e EXCEPT !.run.kind = "paused", !.run.at = s, !.run.why = why]
Checkpoint(e)   == [e EXCEPT !.disk = e.run]
Wait(e, w, s)   == [e EXCEPT !.awaits[w][s] = @ + 1]
Return(e, w, s) == [e EXCEPT !.awaits[w][s] = @ - 1]
Waiting(e, w)   == \E s \in Steps : e.awaits[w][s] > 0

Send(e, p, turn) == [e EXCEPT !.conv[p].prep = Append(@, turn), !.conv[p].pending = TRUE]
TurnPending(e, p) == e.conv[p].pending \/ e.conv[p].inFlight

-----------------------------------------------------------------------------
(* Starting a step.                                                        *)

\* executeStep from its last await on: the attempt's send.
LaunchUnwatched(e, s) == Send(e, Part(s), s)                       \* mutant
Launch(e, s) == [Send(e, Part(s), s) EXCEPT !.armed = TRUE]

\* executeStep: a step that reads the diff has it refreshed first.
Execute(e, s) ==
    LET fresh == [e EXCEPT !.buf = {}, !.reasks[s] = 0]
    IN  IF s \in flow.readsDiff /\ e.run.made \cap flow.diffs # {}
        THEN Wait(fresh, "refresh", s) ELSE Launch(fresh, s)

Enter(e, s) ==
    IF Gate(s) # "none" THEN Checkpoint(Stops(e, s, Gate(s))) ELSE Execute(Goes(e, s), s)

\* The next step has not been cleared since the run came to it this time.
Arrive(e, s) == [e EXCEPT !.run.cleared = @ \ {s}]

Hold(e, s) == Checkpoint([Stops(e, s, "held") EXCEPT !.run.hold = FALSE])
Finish(e)  == Checkpoint([e EXCEPT !.run.kind = "done", !.run.hold = FALSE])

\* advanceAfterStep.
AdvanceAfter(e, s) ==
    IF ~At(e, "running", s) THEN e
    ELSE IF s = Last THEN Finish(e)
    ELSE LET next == s + 1  there == Arrive(e, next)
         IN  IF e.run.hold THEN Hold(there, next)
             ELSE IF next \in flow.ifChanged THEN Wait(there, "changed", s)
             ELSE Enter(there, next)

\* handleStepFailure: abort, go back while the budget lasts, or pause.
RetryUncounted(e, s) ==                                            \* mutant
    Execute(Goes([e EXCEPT !.run.cleared = @ \cup {Goto(s)}], Goto(s)), Goto(s))
Retry(e, s) ==
    LET t == Goto(s)
    IN  Execute(Goes([e EXCEPT !.retries[s] = @ + 1,
                               !.run.settled = @ \cup 1..(t - 1),
                               !.run.cleared = @ \cup {t}], t), t)

Failure(e, s) ==
    LET f == [e EXCEPT !.run.settled = @ \ {s}]
    IN  IF s \in flow.aborts THEN Checkpoint([f EXCEPT !.run.kind = "aborted"])
        ELSE IF Goto(s) # 0 /\ f.retries[s] < MaxRetries THEN Retry(f, s)
        ELSE Checkpoint(Stops(f, s, "failure"))

-----------------------------------------------------------------------------
(* Finishing a step.                                                       *)

Disapproved(s, approves) == s \in flow.reviews /\ ~approves

\* onStepFinished from the artifact on.
Judged(e, s, approves) ==
    [e EXCEPT !.run.made = @ \cup {s}, !.run.rounds[s] = 0,
              !.run.settled = IF Disapproved(s, approves) THEN @ \ {s} ELSE @ \cup {s}]
SuccessUnreviewed(e, s, approves) ==                               \* mutant
    AdvanceAfter(Checkpoint(Judged(e, s, approves)), s)
Success(e, s, approves) ==
    LET e2 == Checkpoint(Judged(e, s, approves))
    IN  IF Disapproved(s, approves) THEN Failure(e2, s) ELSE AdvanceAfter(e2, s)

\* A question goes to the worker's supervisor, up to a number of rounds.
Question(e, s) ==
    LET asked == Checkpoint([e EXCEPT !.run.rounds[s] = @ + 1])
    IN  IF asked.run.rounds[s] > MaxRounds THEN Checkpoint(Stops(asked, s, "needsInput"))
        ELSE Wait(asked, "ask", s)

\* No output: reaskMissingOutput once, then the step has failed.
Reask(e, s) == Send([e EXCEPT !.buf = {}, !.reasks[s] = @ + 1], Part(s), s)
Missing(e, s) == IF e.reasks[s] < MaxReasks THEN Reask(e, s) ELSE Failure(e, s)

\* onStepFinished to its first await or to its end.
StepFinished(e, s, approves) ==
    LET f == [e EXCEPT !.run.approved = IF @ = s THEN 0 ELSE @]
    IN  IF "output" \in e.buf
        THEN IF s \in flow.diffs THEN Wait(f, "diff", s) ELSE Success(f, s, approves)
        ELSE IF "question" \in e.buf /\ flow.worker THEN Question(f, s)
        ELSE Missing(f, s)

\* advanceToStep looks at no state but that the run is still known.
AdvanceTo(e, s) == IF e.run.kind = "deleted" THEN e ELSE Execute(Goes(e, s), s)

\* The end of finalizeAndAdvance, in a microtask behind the handler that
\* resolved its promise.
Finalized(e) == IF e.final = 0 THEN e ELSE AdvanceTo([e EXCEPT !.final = 0], e.final)

AwaitsTurn(e, p) == e.final # 0 /\ Part(e.final - 1) = p

\* observeEvent of running:false.  `resolves` says that it is the finalize
\* turn that ended.
Resolves(e, p) == AwaitsTurn(e, p) /\ ~TurnPending(e, p)

ObserveIdle(e, p, approves) ==
    IF \/ AwaitsTurn(e, p) \/ e.run.kind # "running"
       \/ Part(e.run.at) # p \/ TurnPending(e, p)
       \/ e.awaits["diff"][e.run.at] > 0        \* completingSteps
    THEN e ELSE StepFinished(e, e.run.at, approves)

\* The conversation goes idle, with nothing else on the stack.
GoesIdle(e, p, approves) ==
    IF Resolves(e, p) THEN Finalized(e) ELSE ObserveIdle(e, p, approves)

-----------------------------------------------------------------------------
(* startRun: pause_before does not hold back the first step.               *)

Fresh == [kind |-> "running", at |-> 1, why |-> "none", hold |-> FALSE, approved |-> 0,
          made |-> {}, rounds |-> [s \in Steps |-> 0], settled |-> {}, cleared |-> {}]

\* What a start of the process finds: the run `r`, and nothing in memory.
Loaded(r) ==
    [run |-> r, disk |-> r, buf |-> {}, chat |-> {}, final |-> 0,
     retries |-> [s \in Steps |-> 0], reasks |-> [s \in Steps |-> 0], armed |-> FALSE,
     awaits |-> [w \in Waits |-> [s \in Steps |-> 0]], conv |-> [p \in Parties |-> Idle]]

Init ==
    /\ flow \in Flows /\ moves = 0
    /\ rt = LET e == Loaded(Fresh)
            IN  IF Gate(1) \in {"externalAction", "riskyStep"}
                THEN Checkpoint(Stops(e, 1, Gate(1)))
                ELSE Execute(Checkpoint([e EXCEPT !.run.cleared = {1}]), 1)

-----------------------------------------------------------------------------
(* What a person does to the run.                                          *)

QuickGit == ~\E w \in Waits \ {"ask"} : Waiting(rt, w)
Move  == moves < MaxMoves[flow] /\ moves' = moves + 1 /\ UNCHANGED flow
Known == rt.run.kind # "deleted"

Clear(e, s) == [e EXCEPT !.run.cleared = @ \cup {s}]

HeldUngated(e, s, edited) == AdvanceTo([e EXCEPT !.chat = {}], s)  \* mutant

\* A hold came before the gates of its step: they are consulted now.
HeldGoesOn(e, s, edited) ==
    IF s \in flow.ifChanged /\ s > 1 THEN Wait(Goes(e, s - 1), "changed", s - 1)
    ELSE IF Gate(s) # "none" THEN Checkpoint(Stops(e, s, Gate(s)))
    ELSE AdvanceTo([e EXCEPT !.chat = IF edited THEN @ ELSE {}], s)

\* Continue at a gate approves that step, and that step only.
Approve(e, s) ==
    IF e.run.why \in {"externalAction", "riskyStep"}
    THEN Checkpoint([e EXCEPT !.run.approved = s]) ELSE e

\* After a crash a step that acts outside needs more than a plain Continue.
Continued(e, s) ==
    IF e.run.why = "interrupted" /\ flow.worker /\ Gate(s) = "externalAction" THEN e
    ELSE Approve(Clear(e, s), s)

\* finalizeAndAdvance: the chat changed what the last step made.  Its party has
\* already said so in full (`fresh`), or is asked for it in one more turn.
Finalize(e, s, fresh) ==
    LET prior == s - 1
    IN  IF fresh /\ prior \in e.run.made THEN AdvanceTo(e, s)
        ELSE Send([Goes(e, prior) EXCEPT !.final = s], Part(prior), prior)

Resumed(e, edited, fresh) ==
    LET s     == e.run.at
        c     == Continued(e, s)
        prior == s - 1
        quiet == [c EXCEPT !.chat = IF s > 1 THEN @ \ {Part(prior)} ELSE @]
    IN  IF e.run.why = "held" THEN HeldGoesOn(e, s, edited)
        ELSE IF edited THEN AdvanceTo(c, s)
        ELSE IF e.run.why \notin Gates THEN AdvanceTo([c EXCEPT !.chat = {}], s)
        ELSE IF s > 1 /\ Part(prior) \in e.chat /\ prior \notin flow.diffs
             THEN Finalize(quiet, s, fresh)
        ELSE AdvanceTo(quiet, s)

ResumeRun(edited, fresh) ==
    /\ Move /\ QuickGit /\ rt.run.kind = "paused"
    /\ rt.final = 0 \/ edited \/ rt.run.why \notin Gates   \* else a no-op
    /\ rt' = Resumed(rt, edited, fresh)

\* resumeRun with override: on past the step that failed.
Override ==
    LET s == rt.run.at
    IN  /\ Move /\ QuickGit /\ rt.run.kind = "paused" /\ rt.run.why = "failure"
        /\ rt' = AdvanceAfter(Goes([rt EXCEPT !.run.settled = @ \cup {s}], s), s)

RerunFromStep(s) ==
    /\ Move /\ QuickGit /\ Known /\ rt.run.kind # "running" /\ rt.final = 0
    /\ rt' = Execute(Goes(Clear([rt EXCEPT
                 !.chat = {}, !.retries = [t \in Steps |-> 0],
                 !.reasks = [t \in Steps |-> 0],
                 !.run.settled = @ \cup 1..(s - 1)], s), s), s)

HoldRun ==
    /\ Move /\ rt.run.kind = "running" /\ ~rt.run.hold
    /\ rt' = Checkpoint([rt EXCEPT !.run.hold = TRUE])

ReleaseHold ==
    LET e == IF rt.run.hold THEN Checkpoint([rt EXCEPT !.run.hold = FALSE]) ELSE rt
        held == e.run.kind = "paused" /\ e.run.why = "held"
    IN  /\ Move /\ QuickGit /\ Known /\ (rt.run.hold \/ held)
        /\ rt' = IF held THEN Resumed(e, FALSE, FALSE) ELSE e

\* runner.stop: the process is killed and the conversation reported idle.  A
\* send whose launch is being prepared stays.
Stopped(e, p) == [e EXCEPT !.conv[p].queue = <<>>, !.conv[p].inFlight = FALSE]

\* The step's conversation is stopped before the run's state is changed.
StepStopped(e, approves) ==
    IF e.run.kind = "running"
    THEN LET p == Part(e.run.at) IN ObserveIdle(Stopped(e, p), p, approves)
    ELSE e

\* abortRun, by a person or by the cost ceiling.
AbortRun(approves) ==
    LET begun   == [rt EXCEPT !.run.hold = FALSE]
        stopped == StepStopped(begun, approves)
        over    == Checkpoint([stopped EXCEPT !.run.kind = "aborted"])
        resolves == /\ rt.run.kind = "running"
                    /\ Resolves(Stopped(begun, Part(rt.run.at)), Part(rt.run.at))
    IN  /\ Move /\ Known
        /\ rt' = IF resolves THEN Finalized(over) ELSE over

\* deleteRun: what is left of the run's turns and promises finds no run.
DeleteRun ==
    /\ Move /\ Known
    /\ rt' = Loaded([rt.run EXCEPT !.kind = "deleted"])

\* A person talks to a participant.
Chat(p) ==
    /\ Move /\ Known
    /\ rt.conv[p] = Idle
    /\ rt' = Send(rt, p, 0)

-----------------------------------------------------------------------------
(* The conversations.                                                      *)

\* A send has its permission broker.  A launch with other parameters kills the
\* process it finds, and the turns it was given with it.
Launches(p, relaunch) ==
    LET c == rt.conv[p]
    IN  /\ c.prep # <<>>
        /\ rt' = [rt EXCEPT !.conv[p] =
                    [prep |-> Tail(c.prep), pending |-> FALSE, inFlight |-> TRUE,
                     queue |-> Append(IF relaunch THEN <<>> ELSE c.queue, Head(c.prep))]]
        /\ UNCHANGED <<flow, moves>>

LaunchFails(p, approves) ==
    LET e == [rt EXCEPT !.conv[p].prep = Tail(@), !.conv[p].pending = FALSE]
    IN  /\ rt.conv[p].prep # <<>>
        /\ rt' = GoesIdle(e, p, approves)
        /\ UNCHANGED <<flow, moves>>

\* An assistant message of the turn in front: an output, a question, or talk.
\* Outputs are told apart by name: only that of the current step counts.
Says(p, what) ==
    LET turn == Head(rt.conv[p].queue)
    IN  /\ rt.conv[p].queue # <<>>
        /\ \/ /\ rt.run.kind = "paused" /\ what = "talk"
              /\ rt' = [rt EXCEPT !.chat = @ \cup {p}]
           \/ /\ rt.run.kind = "running" /\ what # "talk"
              /\ IF what = "output" THEN turn = rt.run.at ELSE flow.worker
              /\ rt' = [rt EXCEPT !.buf = @ \cup {what}]
        /\ UNCHANGED <<flow, moves>>

\* The turn in front returns its result, or its process dies.
TurnEnds(p, died, approves) ==
    LET e == [rt EXCEPT !.conv[p].queue = IF died THEN <<>> ELSE Tail(@),
                        !.conv[p].inFlight = FALSE]
    IN  /\ rt.conv[p].queue # <<>>
        /\ rt' = GoesIdle(e, p, approves)
        /\ UNCHANGED <<flow, moves>>

-----------------------------------------------------------------------------
(* What the runtime waits for.                                             *)

RefreshReturns(s) ==
    LET e == Return(rt, "refresh", s)
    IN  /\ rt.awaits["refresh"][s] > 0
        /\ rt' = IF At(e, "running", s) THEN Launch(e, s) ELSE e
        /\ UNCHANGED <<flow, moves>>

DiffReturns(s, approves) ==
    LET e == Return(rt, "diff", s)
    IN  /\ rt.awaits["diff"][s] > 0
        /\ rt' = IF At(e, "running", s) THEN Success(e, s, approves) ELSE e
        /\ UNCHANGED <<flow, moves>>

AnswerReturnsAnyway(s, answered) ==                                \* mutant
    LET e == Return(rt, "ask", s)
    IN  /\ rt.awaits["ask"][s] > 0
        /\ rt' = IF answered THEN Execute(Checkpoint(Goes(e, s)), s)
                 ELSE Checkpoint(Stops(e, s, "needsInput"))
        /\ UNCHANGED <<flow, moves>>
AnswerReturns(s, answered) ==
    LET e == Return(rt, "ask", s)
    IN  /\ rt.awaits["ask"][s] > 0
        /\ rt' = IF ~At(e, "running", s) THEN e
                 ELSE IF answered THEN Execute(Checkpoint(e), s)
                 ELSE Checkpoint(Stops(e, s, "needsInput"))
        /\ UNCHANGED <<flow, moves>>

\* enterIfChanged: the step after s is entered, or skipped.
Skip(e, s) == AdvanceAfter(Goes([e EXCEPT !.run.settled = @ \cup {s}], s), s)
ChangedReturns(s, changed) ==
    LET e == Return(rt, "changed", s)
    IN  /\ rt.awaits["changed"][s] > 0
        /\ rt' = IF ~At(e, "running", s) THEN e
                 ELSE IF changed THEN Enter(e, s + 1) ELSE Skip(e, s + 1)
        /\ UNCHANGED <<flow, moves>>

FinalizeTimesOut ==
    /\ rt.final # 0
    /\ rt' = Finalized(rt)
    /\ UNCHANGED <<flow, moves>>

\* The minute's sweep.  A step counts as stuck after half an hour of silence:
\* git has answered by then, and a finalize turn is given three minutes.
Patient == rt.final # 0 \/ \E w \in Waits \ {"ask"} : Waiting(rt, w)
Sweep ==
    /\ rt.armed
    /\ \/ rt.run.kind # "running" /\ rt' = [rt EXCEPT !.armed = FALSE]
       \/ rt.run.kind = "running" /\ ~Patient /\ rt' = Failure(rt, rt.run.at)
    /\ UNCHANGED <<flow, moves>>

-----------------------------------------------------------------------------
(* The process dies.  A run that was at work is paused at its step; a worker's *)
(* step that acts outside goes back to its gate.                               *)

Survives(r) == r.approved = r.at /\ r.at \notin flow.writes
Restored(r) ==
    LET p == IF r.kind = "running" THEN [r EXCEPT !.kind = "paused", !.why = "interrupted"]
             ELSE r
    IN  IF flow.worker /\ p.kind = "paused" /\ p.why = "interrupted"
           /\ Gate(p.at) = "externalAction" /\ ~Survives(p)
        THEN [p EXCEPT !.why = "externalAction", !.cleared = @ \ {p.at}]
        ELSE p

Restart ==
    /\ Move /\ Known
    /\ rt' = Loaded(Restored(rt.disk))

-----------------------------------------------------------------------------
\* What a step's output may say of itself, where a verdict gate reads it.
Verdicts == IF flow.reviews = {} THEN {TRUE} ELSE BOOLEAN

Moves ==
    \/ \E edited, fresh \in BOOLEAN : ResumeRun(edited, fresh)
    \/ DeleteRun \/ Override \/ HoldRun \/ ReleaseHold
    \/ \E s \in Steps : RerunFromStep(s)
    \/ \E approves \in Verdicts : AbortRun(approves)
    \/ \E p \in Parties : Chat(p)
    \/ Restart

Turning(p) ==
    \/ \E relaunch \in BOOLEAN : Launches(p, relaunch)
    \/ \E approves \in Verdicts : LaunchFails(p, approves)
    \/ \E what \in {"output", "question", "talk"} : Says(p, what)
    \/ \E died \in BOOLEAN, approves \in Verdicts : TurnEnds(p, died, approves)

GitReturns(s) ==
    \/ RefreshReturns(s)
    \/ \E approves \in Verdicts : DiffReturns(s, approves)
    \/ \E changed \in BOOLEAN : ChangedReturns(s, changed)

Next ==
    \/ Moves
    \/ \E p \in Parties : Turning(p)
    \/ \E s \in Steps : GitReturns(s) \/ \E answered \in BOOLEAN : AnswerReturns(s, answered)
    \/ FinalizeTimesOut \/ Sweep

Spec == Init /\ [][Next]_vars

\* The timers fire and git answers.  Nothing is assumed of the models, of the
\* supervisor or of people.
FairSpec ==
    /\ Spec
    /\ WF_vars(Sweep) /\ WF_vars(FinalizeTimesOut)
    /\ WF_vars(\E s \in Steps : GitReturns(s))

-----------------------------------------------------------------------------
(* Properties.                                                             *)

\* Every field has its type, and a paused run says what it waits for.
TypeOK ==
    /\ flow \in Flows /\ rt \in Runtime /\ moves \in 0..MaxMoves[flow]
    /\ rt.run.kind = "paused" => rt.run.why # "none"

\* A step behind a gate is never at work unless somebody said go to it since the
\* run last came to it, be it by a hold, a skip, a goto or a crash.
GateHeld ==
    rt.run.kind = "running" /\ Gate(rt.run.at) # "none" => rt.run.at \in rt.run.cleared

\* A run is done only over steps whose last result lets it go on: succeeded and
\* not disapproved, skipped because nothing changed, or waived by a person.
DoneMeansSettled == rt.run.kind = "done" => rt.run.settled = Steps

\* A run at work is one the sweep looks at, or one that waits for something that
\* answers by itself: no path leaves it running with nobody to notice.
WatchdogArmed == rt.run.kind = "running" => rt.armed \/ Patient

\* A run at rest goes to work again only when a person moves it: no late answer,
\* turn or timer revives it.  A finalize turn already asked for is the exception.
RestStays ==
    [][ rt.run.kind \notin {"running", "deleted"} /\ rt.final = 0 /\ rt'.run.kind = "running"
          => moves' > moves ]_vars

\* Whatever the models and the supervisor do, the runtime's own timers and
\* budgets bring every run to rest.
ComesToRest == rt.run.kind = "running" ~> rt.run.kind # "running"

\* "terminal" (runtime.ts:2726): an aborted run is at work again only when a
\* person starts a step again.
AbortStays ==
    [][ rt.run.kind = "aborted" /\ rt'.run.kind = "running" => moves' > moves ]_vars
=============================================================================
