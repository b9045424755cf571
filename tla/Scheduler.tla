------------------------------ MODULE Scheduler ------------------------------
(***************************************************************************)
(* The scheduler (src/src/main/flows/scheduler.ts) with the arithmetic it  *)
(* decides by (shared/flows/schedule.ts), its files (schedulesStore.ts)    *)
(* and the runs it starts.                                                 *)
(*                                                                         *)
(* A handler runs to its first `await`.  Only a firing awaits: the launch  *)
(* of its run.  Whoever fired it - the tick, a chain or Run now - goes on  *)
(* when the launch returns, with the schedules it had listed before.  What *)
(* they hold are objects, and saving an edit replaces the object, so the   *)
(* model keeps every object a schedule ever had (`objs`) and which of them *)
(* is in the map (`cur`).                                                  *)
(*                                                                         *)
(* Time is counted in units of the longest timer (a minute).  A trigger is *)
(* an interval of Period units, or the success of another schedule's flow. *)
(* The map keeps the schedules in order, and a walk over it goes by them.  *)
(***************************************************************************)
EXTENDS Integers, Sequences

CONSTANTS
    M,           \* schedules
    Period,      \* everyMinutes
    Grace,       \* SCHEDULE_GRACE_MS
    MaxChain,    \* MAX_CHAIN_DEPTH
    MaxTime,     \* bound: how far the clock goes
    MaxRuns,     \* bound: launches that return in a behaviour
    MaxUpsets,   \* bound: edits, restarts, deletions and foreign successes in all
    Chained,     \* the schedules that start with a flow as their trigger
    Overlaps,    \* the overlap policies in play
    CatchUps,    \* the catch-up policies in play
    Happens      \* bound: which of Hazards the environment may produce

Hazards == {"edit", "editMidLaunch", "restart", "deleteRun", "foreign"}

ASSUME SizeAssumption == M \in Nat \ {0} /\ Period \in Nat \ {0} /\ Grace \in Nat
ASSUME BoundAssumption ==
    MaxChain \in Nat /\ MaxTime \in Nat /\ MaxRuns \in Nat /\ MaxUpsets \in Nat
ASSUME KindAssumption ==
    /\ Chained \subseteq 1..M /\ Happens \subseteq Hazards
    /\ Overlaps \subseteq {"skip", "queue", "replace"} /\ CatchUps \subseteq {"skip", "once"}

Sched   == 1..M
Runs    == 1..MaxRuns
NoRun   == 0
Nobody  == 0
Never   == -1
NoTimer == -1
NoFile  == [none |-> TRUE]
NoFire  == [none |-> TRUE]
MaxSleep == 1                       \* MAX_TIMER_MS

\* The schedule whose flow a chained schedule watches.
Watched(s) == (s % M) + 1

VARIABLES
    engine,     \* the scheduler and the runs it started
    clock,
    upsets,     \* edits, restarts, deletions and foreign successes so far
    firedAt,    \* history: when each schedule last fired on its cadence
    unseen      \* history: runs whose end is not for the process that launched them

vars == <<engine, clock, upsets, firedAt, unseen>>

Objects == [enabled : BOOLEAN, trigger : {"timer", "chain"},
            overlap : {"skip", "queue", "replace"}, catchUp : {"skip", "once"},
            anchor : 0..MaxTime, lastFired : {Never} \cup 0..MaxTime, pending : BOOLEAN,
            active : {NoRun} \cup Runs, runCount : Nat]

\* What a file loads as.
Files == {o \in Objects : o.active = NoRun}

\* Which object of each schedule is in the map, if one is.
Lists == [Sched -> 0..(MaxUpsets + 1)]

\* A launch in flight: the object it fires, who waits for it, and the list the
\* waiter goes on with behind this schedule.
Fires == [obj : 1..(MaxUpsets + 1), by : {"tick", "chain", "manual"}, now : 0..MaxTime,
          depth : 0..MaxChain, up : {Nobody} \cup Sched, flow : {Nobody} \cup Sched,
          listed : Lists]

RunRecords == [by : {Nobody} \cup Sched, depth : 0..MaxChain,
               state : {"none", "live", "parked", "done", "aborted", "gone", "failed"}]

Engine == [objs : [Sched -> Seq(Objects)], cur : Lists,
           file : [Sched -> Files \cup {NoFile}],
           firing : [Sched -> Fires \cup {NoFire}],
           timer : {NoTimer} \cup 0..(MaxTime + MaxSleep),
          openSince : 0..MaxTime,      \* when this process started
           owner : [Runs -> {Nobody} \cup Sched],
           history : [Runs -> {"none", "launched", "done", "failed"}],
           runs : [Runs -> RunRecords]]

-----------------------------------------------------------------------------
(* Objects.                                                                *)

Listed(e)       == {s \in Sched : e.cur[s] # 0}
Object(e, s)    == e.objs[s][e.cur[s]]
Firing(e, s)    == e.firing[s] # NoFire
Launching(e)    == {s \in Sched : Firing(e, s)}
Ticking(e)      == \E s \in Launching(e) : e.firing[s].by = "tick"

\* A file names the run in flight, which loading it drops: the model keeps of a
\* file what loading makes of it.
Loaded(o)         == [o EXCEPT !.active = NoRun]
Write(e, s, v, o) == [e EXCEPT !.objs[s][v] = o, !.file[s] = Loaded(o)]

\* isBusy asks the runtime, so a run that ended unseen does not count.
Busy(e, o) == o.active # NoRun /\ e.runs[o.active].state = "live"

-----------------------------------------------------------------------------
(* evaluateSchedule.                                                       *)

Anchor(o)   == IF o.lastFired # Never THEN o.lastFired ELSE o.anchor
DueAt(o)    == Anchor(o) + Period
Late(o, now) == now - DueAt(o) > Grace

\* A late occurrence is written off when nobody was there for it, or when the
\* next one has come due behind it.
Missed(e, o, now) ==
    o.catchUp = "skip" /\ (DueAt(o) < e.openSince - Grace \/ DueAt(o) + Period <= now)

Decision(e, o, now) ==
    IF ~o.enabled \/ o.trigger = "chain"       THEN "wait"
    ELSE IF o.pending /\ ~Busy(e, o)           THEN "fire"
    ELSE IF DueAt(o) > now                     THEN "wait"
    ELSE IF Busy(e, o)                         THEN IF o.overlap = "skip" THEN "skip" ELSE "fire"
    ELSE IF Late(o, now) /\ Missed(e, o, now)  THEN "skip"
    ELSE "fire"

\* Mutant: the sleep is as long as the wait.
ArmUncapped(e) ==
    LET timed == {s \in Listed(e) : Object(e, s).enabled /\ Object(e, s).trigger = "timer"}
        late  == \E s \in timed : Decision(e, Object(e, s), clock) = "fire"
        s0    == CHOOSE s \in timed : TRUE
    IN  [e EXCEPT !.timer = IF timed = {} THEN NoTimer
                            ELSE IF late THEN clock ELSE DueAt(Object(e, s0))]

\* arm: sleep until the nearest time anything is due, a minute at most.
Arm(e) ==
    LET timed == {s \in Listed(e) : Object(e, s).enabled /\ Object(e, s).trigger = "timer"}
        look(s) == LET o == Object(e, s)  d == Decision(e, o, clock)
                   IN  IF d = "fire" THEN clock
                       ELSE IF d = "skip" THEN clock + Period ELSE DueAt(o)
        due == \E s \in timed : look(s) <= clock
    IN  [e EXCEPT !.timer = IF timed = {} THEN NoTimer
                            ELSE IF due THEN clock ELSE clock + MaxSleep]

-----------------------------------------------------------------------------
(* Firing.                                                                 *)

Unlinked(o, r) == [o EXCEPT !.active = IF @ = r THEN NoRun ELSE @]

\* The run makes room for the next.  Aborting it has its schedule settle it: no
\* chain starts, for chains wait for a success, and no tick, for a caller arms.
Replaced(e, s, v) ==
    LET r == e.objs[s][v].active
        over(h) == [e EXCEPT !.runs[r].state = "aborted", !.owner[r] = Nobody, !.history[r] = h]
        told == IF ~Busy(e, e.objs[s][v]) THEN [e EXCEPT !.owner[r] = Nobody]
                ELSE IF e.owner[r] # s \/ s \notin Listed(e) THEN over(e.history[r])
                ELSE Write(over("failed"), s, e.cur[s], Unlinked(Object(e, s), r))
    IN  Write(told, s, v, [told.objs[s][v] EXCEPT !.active = NoRun])

StampUncounted(o, by) == [o EXCEPT !.runCount = @ + 1]            \* mutant
Stamp(o, by) ==
    [o EXCEPT !.runCount  = @ + 1,
              !.lastFired = IF by = "manual" THEN @ ELSE clock,
              !.pending   = IF by = "manual" THEN @ ELSE FALSE]

\* fireInner up to the launch.  An occurrence is stamped and saved before it.
Fire(e, s, v, by, now, depth, up, flow, listed) ==
    LET o == e.objs[s][v]
        free == IF by # "manual" /\ o.overlap = "replace" /\ o.active # NoRun
                THEN Replaced(e, s, v) ELSE e
    IN  [Write(free, s, v, Stamp(free.objs[s][v], by)) EXCEPT
            !.firing[s] = [obj |-> v, by |-> by, now |-> now, depth |-> depth,
                           up |-> up, flow |-> flow, listed |-> listed]]

\* What the tick does with one listed schedule.  A launch ends the walk: `at`.
TickOne(now, listed, acc, s) ==
    LET e == acc.e  v == listed[s]  o == e.objs[s][v]
        d == Decision(e, o, now)
        passed == [o EXCEPT !.anchor = now, !.lastFired = Never]
    IN  IF acc.at # Nobody \/ v = 0 THEN acc
        ELSE IF e.cur[s] = 0 \/ Firing(e, s) \/ d = "wait" THEN acc
        ELSE IF d = "skip" THEN [acc EXCEPT !.e = Write(e, s, v, passed)]
        ELSE IF Busy(e, o) /\ o.overlap = "queue"
             THEN IF o.pending THEN acc
                  ELSE [acc EXCEPT !.e = Write(e, s, v, [passed EXCEPT !.pending = TRUE])]
        ELSE [e |-> Fire(e, s, v, "tick", now, 0, Nobody, Nobody, listed), at |-> s]

\* The tick's walk over what it listed, from the schedule it goes on with.
TickWalk(e, now, listed, from) ==
    LET walked[s \in 0..M] == IF s < from THEN [e |-> e, at |-> Nobody]
                              ELSE TickOne(now, listed, walked[s - 1], s)
    IN  walked[M]

TickOnUnarmed(e, now, listed, from) == TickWalk(e, now, listed, from).e   \* mutant
TickOn(e, now, listed, from) ==
    LET walked == TickWalk(e, now, listed, from)
    IN  IF walked.at = Nobody THEN Arm(walked.e) ELSE walked.e

Tick(e) == IF Ticking(e) THEN e ELSE TickOn(e, clock, e.cur, 1)

\* fireChainedSchedules, one schedule: a success of the watched flow fires it,
\* unless the chain is too long or, under "skip", its last run still goes.
Chains(e, s, v, up, flow) ==
    LET o == e.objs[s][v]
    IN  /\ e.cur[s] # 0 /\ o.enabled /\ o.trigger = "chain"
        /\ Watched(s) = flow /\ up # s

ChainOne(depth, up, flow, listed, acc, s) ==
    LET e == acc.e  v == listed[s]  o == e.objs[s][v]
        declined == depth > MaxChain \/ (Busy(e, o) /\ o.overlap = "skip")
    IN  IF acc.at # Nobody \/ v = 0 THEN acc
        ELSE IF ~Chains(e, s, v, up, flow) \/ (depth <= MaxChain /\ Firing(e, s)) THEN acc
        ELSE IF declined THEN [acc EXCEPT !.e = Write(e, s, v, o)]
        ELSE [e |-> Fire(e, s, v, "chain", 0, depth, up, flow, listed), at |-> s]

\* The flow of a run is that of the schedule it is named after.
ChainOn(e, depth, up, flow, listed, from) ==
    LET walked[s \in 0..M] == IF s < from THEN [e |-> e, at |-> Nobody]
                              ELSE ChainOne(depth, up, flow, listed, walked[s - 1], s)
    IN  walked[M].e

\* settleOwnedRun, then the chains.  A deferred firing has waited for this.
SettleUntold(e, s, r) == e                                         \* mutant
SettledWith(e, s, r) ==
    Write([e EXCEPT !.history[r] = IF e.runs[r].state = "done" THEN "done" ELSE "failed"],
          s, e.cur[s], Unlinked(Object(e, s), r))

OnRunEnd(e, r) ==
    LET s       == e.owner[r]
        run     == e.runs[r]
        disowned == [e EXCEPT !.owner[r] = Nobody]
        settled == IF s = Nobody THEN e
                   ELSE IF s \notin Listed(e) THEN disowned
                   ELSE IF Object(e, s).pending THEN Tick(SettledWith(disowned, s, r))
                   ELSE Arm(SettledWith(disowned, s, r))
    IN  IF run.state = "done"
        THEN ChainOn(settled, run.depth + 1, run.by, run.by, settled.cur, 1)
        ELSE settled

-----------------------------------------------------------------------------
(* Actions.                                                                *)

\* The object a schedule starts with.
New(trigger, overlap, catchUp, enabled) ==
    [enabled |-> enabled, trigger |-> trigger, overlap |-> overlap, catchUp |-> catchUp,
     anchor |-> clock, lastFired |-> Never, pending |-> FALSE, active |-> NoRun, runCount |-> 0]

Init ==
    /\ clock = 0 /\ upsets = 0
    /\ firedAt = [s \in Sched |-> Never] /\ unseen = {}
    /\ \E overlap \in Overlaps, catchUp \in CatchUps :
          LET trigger(s) == IF s \in Chained THEN "chain" ELSE "timer"
              o == [s \in Sched |-> New(trigger(s), overlap, catchUp, TRUE)]
          IN  engine = Arm([objs    |-> [s \in Sched |-> <<o[s]>>],
                            cur     |-> [s \in Sched |-> 1],
                            file    |-> o,
                            firing  |-> [s \in Sched |-> NoFire],
                            timer   |-> NoTimer, openSince |-> 0,
                            owner   |-> [r \in Runs |-> Nobody],
                            history |-> [r \in Runs |-> "none"],
                            runs    |-> [r \in Runs |->
                                           [by |-> Nobody, depth |-> 0, state |-> "none"]]])

Became(e) ==
    /\ engine' = e
    /\ firedAt' = [s \in Sched |->
          IF Firing(e, s) /\ ~Firing(engine, s) /\ e.firing[s].by = "tick"
          THEN clock ELSE firedAt[s]]
    /\ UNCHANGED <<clock, unseen>>

Goes(e)   == Became(e) /\ UNCHANGED upsets
Upset(e) == upsets < MaxUpsets /\ Became(e) /\ upsets' = upsets + 1

TimePasses ==
    /\ clock < MaxTime
    /\ clock' = clock + 1
    /\ UNCHANGED <<engine, upsets, firedAt, unseen>>

\* A timer may be served late: the machine sleeps, the loop is busy.
TimerFires ==
    /\ engine.timer # NoTimer /\ engine.timer <= clock
    /\ Goes(Tick([engine EXCEPT !.timer = NoTimer]))

HostResumes == Goes(Tick(engine))

RunNow(s) ==
    /\ s \in Listed(engine) /\ ~Firing(engine, s) /\ ~Busy(engine, Object(engine, s))
    /\ Object(engine, s).runCount < MaxRuns                       \* bound
    /\ Goes(Fire(engine, s, engine.cur[s], "manual", 0, 0, Nobody, Nobody, engine.cur))

\* An edit may be limited to moments when nothing is being launched.
Editable == /\ "edit" \in Happens
            /\ "editMidLaunch" \in Happens \/ Launching(engine) = {}

SetEnabled(s, enabled) ==
    LET o == Object(engine, s)
        set == [o EXCEPT !.enabled = enabled,
                         !.anchor  = IF enabled THEN clock ELSE @,
                         !.pending = IF enabled THEN FALSE ELSE @]
    IN  /\ "edit" \in Happens
        /\ s \in Listed(engine) /\ o.enabled # enabled
        /\ Upset(Arm(Write(engine, s, engine.cur[s], set)))

\* save replaces the object; a changed trigger, or switching on, re-anchors.  An
\* object nobody can hold any more is forgotten.
Revised(o, new) ==
    [new EXCEPT
        !.anchor    = IF o.trigger # new.trigger \/ (~o.enabled /\ new.enabled) THEN clock
                      ELSE o.anchor,
        !.pending   = o.trigger = new.trigger /\ o.pending,
        !.lastFired = o.lastFired, !.active = o.active, !.runCount = o.runCount]

Save(s, trigger, enabled) ==
    LET held == IF Launching(engine) = {} THEN <<>> ELSE engine.objs[s]
        v   == Len(held) + 1
        old == Object(engine, s)
        o   == Revised(old, New(trigger, old.overlap, old.catchUp, enabled))
    IN  /\ Editable /\ s \in Listed(engine)
        /\ Upset(Arm([engine EXCEPT !.objs[s] = Append(held, o), !.cur[s] = v,
                                    !.file[s] = Loaded(o)]))

RemoveSchedule(s) ==
    /\ Editable /\ s \in Listed(engine)
    /\ LET r == Object(engine, s).active
           gone == [engine EXCEPT !.cur[s] = 0, !.file[s] = NoFile]
       IN  Upset(Arm(IF r = NoRun THEN gone ELSE [gone EXCEPT !.owner[r] = Nobody]))

\* The launch returns: with a run, with one that has already failed its
\* preflight, or with none.  Its caller then goes on.
LinkForgotten(e, s, r) == [e.objs[s][e.firing[s].obj] EXCEPT !.active = NoRun]  \* mutant
LinkTo(e, s, r) == [e.objs[s][e.firing[s].obj] EXCEPT !.active = r]

LaunchReturns(s, st) ==
    LET f == engine.firing[s]
        r == CHOOSE x \in Runs : engine.runs[x].state = "none"
                        /\ \A y \in Runs : engine.runs[y].state = "none" => x <= y
        minted == [engine EXCEPT !.runs[r] = [by |-> s, depth |-> f.depth, state |-> st]]
        started == Write([minted EXCEPT !.owner[r] = s, !.history[r] = "launched"],
                         s, f.obj, LinkTo(engine, s, r))
        returned == IF st = "failed" THEN Write(minted, s, f.obj, engine.objs[s][f.obj])
                    ELSE IF st = "aborted" THEN OnRunEnd(started, r) ELSE started
        freed == [returned EXCEPT !.firing[s] = NoFire]
    IN  /\ Firing(engine, s)
        /\ \E x \in Runs : engine.runs[x].state = "none"
        /\ Goes(IF f.by = "tick"       THEN TickOn(freed, f.now, f.listed, s + 1)
                  ELSE IF f.by = "chain"
                       THEN ChainOn(freed, f.depth, f.up, f.flow, f.listed, s + 1)
                  ELSE Arm(freed))

RunEnds(r, st) ==
    /\ engine.runs[r].state \in {"live", "parked"}
    /\ Goes(OnRunEnd([engine EXCEPT !.runs[r].state = st], r))

\* A run the scheduler did not start succeeds.
ForeignRunEnds(flow) ==
    /\ "foreign" \in Happens
    /\ Upset(ChainOn(engine, 1, Nobody, flow, engine.cur, 1))

\* Deleting a run tells the scheduler nothing.
RunDeleted(r) ==
    /\ "deleteRun" \in Happens
    /\ engine.runs[r].state \in {"live", "parked"}
    /\ Upset([engine EXCEPT !.runs[r].state = "gone"])

\* Not told to their schedule yet: the runs that still go, and those of a schedule
\* that has been removed.
Untold ==
    LET going(r) == engine.runs[r].state \in {"live", "parked"}
        removed(r) == engine.runs[r].state # "none" /\ engine.runs[r].by \notin Listed(engine)
    IN  {r \in Runs : going(r) \/ removed(r)}

\* The process dies.  Launches die with it; runs come back parked; the schedules
\* come back from their files, with their history and without the run they had.
Restart ==
    LET loaded == [s \in Sched |-> IF engine.file[s] = NoFile THEN <<>>
                                   ELSE <<engine.file[s]>>]
    IN  /\ "restart" \in Happens
        /\ upsets < MaxUpsets /\ upsets' = upsets + 1
        /\ engine' = Arm([engine EXCEPT
              !.objs = loaded,
              !.cur  = [s \in Sched |-> Len(loaded[s])],
              !.firing = [s \in Sched |-> NoFire],
              !.openSince = clock,
              !.owner = [r \in Runs |-> Nobody],
              !.runs = [r \in Runs |-> IF engine.runs[r].state = "live"
                         THEN [engine.runs[r] EXCEPT !.state = "parked"] ELSE engine.runs[r]]])
        /\ unseen' = unseen \cup Untold
        /\ UNCHANGED <<clock, firedAt>>

Next ==
    \/ TimePasses \/ TimerFires \/ HostResumes \/ Restart
    \/ \E s \in Sched :
          \/ RunNow(s) \/ RemoveSchedule(s) \/ ForeignRunEnds(s)
          \/ \E enabled \in BOOLEAN : SetEnabled(s, enabled)
          \/ \E trigger \in {"timer", "chain"}, enabled \in BOOLEAN :
                Save(s, trigger, enabled)
          \/ \E st \in {"live", "aborted", "failed"} : LaunchReturns(s, st)
    \/ \E r \in Runs : RunDeleted(r) \/ \E st \in {"done", "aborted"} : RunEnds(r, st)

Spec == Init /\ [][Next]_vars

-----------------------------------------------------------------------------
(* Properties.                                                             *)

TypeOK == engine \in Engine /\ clock \in 0..MaxTime /\ upsets \in 0..MaxUpsets
            /\ firedAt \in [Sched -> {Never} \cup 0..MaxTime] /\ unseen \subseteq Runs

\* A schedule's run starts only when no earlier one is going: whatever fires it
\* - the clock, a person, a chain, a deferred firing - and however long a launch
\* takes.  Only under "queue" a chain does not wait: its run goes on beside the
\* last, and from then on that earlier run (and no other) keeps nothing waiting.
Going(s) == {r \in Runs : engine.runs[r].by = s /\ engine.runs[r].state = "live"}
Overtaken(s, r) ==
    \/ engine.firing[s].by = "chain"
    \/ \E q \in Runs : q > r /\ engine.runs[q].by = s /\ engine.runs[q].depth > 0
NoOverlap ==
    [][\A s \in Sched : ~(Going(s)' \subseteq Going(s)) =>
          \A r \in Going(s) : /\ engine.objs[s][engine.firing[s].obj].overlap = "queue"
                               /\ Overtaken(s, r)]_vars

\* On its cadence a schedule fires at most once a period, whatever is deferred,
\* skipped, edited or cut short by a restart.
OncePerPeriod ==
    [][\A s \in Sched : firedAt'[s] # firedAt[s] /\ firedAt[s] # Never
          => clock >= firedAt[s] + Period]_vars

\* Nothing polls: while a schedule is on the clock, a timer is set or the tick
\* will set one; and a firing that is owed is due at once when its run is over.
\* (A run that was deleted tells nobody, and the next wakeup finds it.)
WakeUpIsSet ==
    Ticking(engine) \/ \A s \in Listed(engine) :
        LET o == Object(engine, s)
            over == o.active = NoRun \/ engine.runs[o.active].state \in {"done", "aborted"} IN
        o.enabled /\ o.trigger = "timer" =>
            /\ engine.timer \in 0..(clock + MaxSleep)
            /\ o.pending /\ over /\ ~Firing(engine, s) => engine.timer <= clock

\* A run that ended is not told as still going in the list of its schedule, in
\* the process that launched it nor, from its file, in any later one.  (A run that
\* goes on in a later process ends for nobody, and is told as launched for good.)
Told ==
    \A r \in Runs : engine.runs[r].by \in Listed(engine) /\ engine.history[r] = "launched"
        => engine.runs[r].state \notin {"done", "aborted"} \/ r \in unseen

=============================================================================
