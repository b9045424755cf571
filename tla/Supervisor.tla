----------------------------- MODULE Supervisor -----------------------------
(***************************************************************************)
(* The service supervisor (src/main/services/supervisor.ts): the starts,   *)
(* stops, restarts and rebinds of one stack's services, the processes they *)
(* leave running and the leftovers of an earlier run they adopt.           *)
(*                                                                         *)
(* A method runs to its next `await` and goes on, later, with what it read *)
(* before; meanwhile another call may have moved the service.  A call in   *)
(* flight is a stack of frames: the method that is waiting on top, and     *)
(* under it the methods that wait for it to return.  One step of the model *)
(* is what runs between two awaits.                                        *)
(*                                                                         *)
(* Heavy launches take a slot of the gate of LaunchGate, which knows a     *)
(* launch by the process it is going to be.                                *)
(***************************************************************************)
EXTENDS Naturals, Sequences, FiniteSets, TLC

CONSTANTS
    Services,
    Tasks,       \* the services that run to an end (spec.task)
    Heavy,       \* those that build on a JVM (buildsOnJvm)
    Ported,      \* those that listen on a port
    Leftovers,   \* those an earlier run of the app left running
    DepsOf,      \* startOrder of each service: what it waits on, in order
    Followers,   \* restartDependents of each service
    Watched,     \* those restarted when their code changes (shouldRestartOnChange)
    Refs,        \* the checkouts a service can be bound to
    Limit,       \* the launch gate's limit
    Procs,       \* bound: processes, and launches at the gate, at one time
    Threads,     \* bound: calls in flight at one time
    MaxCalls,    \* bound: calls in all
    MaxChanges,  \* bound: changes of code in all
    MaxDepth,    \* bound: frames of one call
    Methods,     \* bound: what may be called; "throws" when a spawn may throw at once
    None         \* nothing: no process, no ref, no service

ASSUME KindAssumption ==
    /\ Tasks \subseteq Services /\ Heavy \subseteq Services /\ Ported \subseteq Services \ Tasks
    /\ Leftovers \subseteq Services \ Tasks /\ Watched \subseteq Services \ Tasks
    /\ DepsOf \in [Services -> Seq(Services)] /\ Followers \in [Services -> Seq(Services)]
ASSUME LimitAssumption == Limit \in Nat \ {0}
ASSUME NoneAssumption == None \notin Procs \cup Refs \cup Services
ASSUME RefAssumption == Refs # {}
ASSUME BoundAssumption == MaxCalls \in Nat /\ MaxChanges \in Nat /\ MaxDepth \in Nat

VARIABLES
    runtimes,       \* what the pane shows of each service
    listed,         \* the services of the stack file (specs)
    bindings,       \* the checkout each service is bound to
    procs,          \* the process each service is running
    processes,      \* the processes there are
    currentLaunch,  \* which launch is the latest to wait at the gate
    finishing,      \* the task run in flight
    stopping,       \* the process whose stop is awaited
    gate,           \* the launch gate
    adoptedAs,      \* the adoption each row rests on, 0 for none
    watch,          \* per service: a debounce timer, a restart it led to, a change queued behind it
    unseen,         \* history: code changed since the process was started
    polling,        \* the adoption a poll of `ps` is asking about, 0 for none
    adoptions,      \* the adoptions so far: each is an object of its own
    leftovers,      \* "up", "gone", or "reused": a stranger has its pid
    struck,         \* history: a process that was not ours was signalled
    stacks,         \* the calls in flight
    lastCall,       \* history: the last method called on each service
    calls,          \* calls made so far
    changes         \* changes of code so far

rowVars   == <<runtimes, adoptedAs>>
specVars  == <<listed, bindings>>
procVars  == <<procs, processes, gate>>
awaitVars == <<currentLaunch, finishing, stopping>>
watchVars == <<watch, unseen, changes>>
leftVars  == <<polling, adoptions, leftovers, struck>>
userVars  == <<lastCall, calls>>
vars == <<rowVars, specVars, procVars, awaitVars, watchVars, leftVars, stacks, userVars>>

Gate == INSTANCE LaunchGate WITH Launches <- Procs

-----------------------------------------------------------------------------
(***************************************************************************)
(* Records.                                                                *)
(***************************************************************************)
Status == {"stopped", "starting", "ready", "unready", "failed", "done"}

Runtime == [status : Status, waitingOn : BOOLEAN, queued : BOOLEAN, port : BOOLEAN,
            adopted : BOOLEAN, pid : BOOLEAN, ranRef : Refs \cup {None}]

FreshRow == [status |-> "stopped", waitingOn |-> FALSE, queued |-> FALSE, port |-> FALSE,
             adopted |-> FALSE, pid |-> FALSE, ranRef |-> None]

\* A process that is not there; the identity is free once nothing refers to it.
NoProcess == [phase |-> "none", svc |-> None, ref |-> None, late |-> FALSE]

Process == [phase : {"none", "live", "killed"}, svc : Services \cup {None},
            ref : Refs \cup {None}, late : BOOLEAN]

Places == {"settle", "finishing", "dependency", "verifyDep", "claim", "plan", "mirror", "env", "gate",
           "boot", "probe", "task", "stopVerify", "stopLeftover", "stopWait", "relaunch",
           "followers", "rebound", "reboundMirror", "changed"}

\* at: where the method waits; flag: a launch is fresh, a rebound service was running, a
\* dependency is a task; proc: the process it started, stops or waits for; known: the
\* adoption it asked `ps` about; todo: which of DepsOf or Followers it has still to go through.
Frame == [at : Places, svc : Services, flag : BOOLEAN, ref : Refs \cup {None},
          proc : Procs \cup {None}, known : Nat, todo : SUBSET Nat]

At(place, s) == [at |-> place, svc |-> s, flag |-> FALSE, ref |-> None,
                 proc |-> None, known |-> 0, todo |-> {}]

(***************************************************************************)
(* setStatus: waiting and queueing are kinds of starting, and a row that   *)
(* is no longer adopted forgets what it adopted.                           *)
(***************************************************************************)
Normal(row) ==
  IF row.status = "starting" THEN row ELSE [row EXCEPT !.waitingOn = FALSE, !.queued = FALSE]

Patched(rows, s, patch) == [rows EXCEPT ![s] = Normal(patch @@ @)]

ShowTracked(rows) == runtimes' = rows /\ UNCHANGED adoptedAs
Show(rows) ==
  /\ runtimes' = rows
  /\ adoptedAs' = [s \in Services |-> IF rows[s].adopted THEN adoptedAs[s] ELSE 0]

SetStatus(s, patch) == Show(Patched(runtimes, s, patch))

Failed == [status |-> "failed"]

\* setStatus and trackAdopted, for a leftover found running.
Adopts(s, status) ==
  /\ runtimes' = Patched(runtimes, s, [status |-> status, adopted |-> TRUE, pid |-> TRUE,
                                       port |-> s \in Ported])
  /\ adoptions' = adoptions + 1
  /\ adoptedAs' = [adoptedAs EXCEPT ![s] = adoptions + 1]

\* satisfied: a task counts only if it finished on the ref it is bound to now.
Satisfied(rows, s) ==
  IF s \in Tasks \cap listed
  THEN rows[s].status = "done" /\ rows[s].ranRef = bindings[s]
  ELSE rows[s].status = "ready"

\* checkable: the adoption to ask `ps` about, or 0 when there is nothing to check.
Checkable(s) == IF runtimes[s].adopted /\ runtimes[s].pid THEN adoptedAs[s] ELSE 0

(***************************************************************************)
(* settleAdopted, given that `ps` has answered for the adoption `known`.   *)
(* Lost: it says the row's leftover is no longer there.  An adoption that  *)
(* has been superseded meanwhile is left alone, and counts as verified.    *)
(***************************************************************************)
LostByAbsence(s, known) == known # 0 /\ adoptedAs[s] = known /\ leftovers[s] = "gone"
Lost(s, known) == known # 0 /\ adoptedAs[s] = known /\ leftovers[s] # "up"

ReleasedRow == [status |-> "stopped", adopted |-> FALSE, pid |-> FALSE, port |-> FALSE]

-----------------------------------------------------------------------------
(***************************************************************************)
(* Calls in flight.                                                        *)
(***************************************************************************)
Busy(t) == stacks[t] # <<>>
Top(t)  == Head(stacks[t])
Under(t) == Tail(stacks[t])
Waits(t, place) == Busy(t) /\ Top(t).at = place

Goto(t, frames) == stacks' = [stacks EXCEPT ![t] = frames]
Returns(t) == Goto(t, Under(t))
Becomes(t, frame) == Goto(t, <<frame>> \o Under(t))

InFlight == UNION {{stacks[t][i] : i \in DOMAIN stacks[t]} : t \in Threads}

\* Identities nothing refers to.
Unused == {p \in Procs : /\ processes[p] = NoProcess
                         /\ p \notin gate.held \cup Gate!Queued(gate)
                         /\ \A f \in InFlight : f.proc # p
                         /\ \A s \in Services : procs[s] # p /\ finishing[s] # p}

\* Which of them a launch takes tells nothing apart; nor does the place of a call.
NewProc == CHOOSE p \in Unused : TRUE
IsIdle(t) == ~Busy(t) /\ t = CHOOSE x \in Threads : ~Busy(x)

\* `await this.stopping.get(s)`: the stop in flight has finished.
StopAwaited(p) == \E f \in InFlight : f.at = "stopWait" /\ f.proc = p

(***************************************************************************)
(* Javascript runs what is ready before it takes the next event: a call    *)
(* whose awaited promise has settled goes on before anything else happens. *)
(* The other awaits end with an event: a lookup, a file, a timer, a probe. *)
(***************************************************************************)
IsReady(t) ==
  Busy(t) /\ CASE Top(t).at \in {"dependency", "relaunch", "followers", "rebound", "changed"} -> TRUE
               [] Top(t).at = "settle" -> ~StopAwaited(Top(t).proc)
               [] Top(t).at = "gate" -> Top(t).proc \in gate.held
               [] Top(t).at \in {"finishing", "task"} -> processes[Top(t).proc].phase = "none"
               [] OTHER -> FALSE

Quiet == \A t \in Threads : ~IsReady(t)

\* The event a frame awaits has come.
Awaited(t, place) == Quiet /\ Waits(t, place)

\* launch, up to its first await: a leftover is looked for unless it is told not to.
LaunchFrame(s, fresh) ==
  [At(IF s \in Tasks \/ fresh THEN "plan" ELSE "claim", s) EXCEPT !.flag = fresh, !.ref = bindings[s]]

\* start, up to its first await: the stop in flight is awaited.
StartFrame(s) == [At("settle", s) EXCEPT !.proc = stopping[s]]

\* stopWatcher: what it had seen and not yet acted on is forgotten.
Unwatched(seen, s) == [seen EXCEPT ![s].timer = FALSE, ![s].queued = FALSE]

(***************************************************************************)
(* stop, up to its first await, followed by the frames that wait for it.   *)
(***************************************************************************)
StopThen(t, s, frames, seen) ==
  LET p == procs[s]
      row == runtimes[s]
  IN  /\ watch' = Unwatched(seen, s)
      /\ \/ /\ p # None
            /\ procs' = [procs EXCEPT ![s] = None]
            /\ processes' = [processes EXCEPT ![p].phase = "killed"]
            /\ SetStatus(s, [status |-> "stopped", pid |-> FALSE, port |-> FALSE])
            /\ stopping' = [stopping EXCEPT ![s] = p]
            /\ Goto(t, <<[At("stopWait", s) EXCEPT !.proc = p]>> \o frames)
         \/ /\ p = None /\ row.adopted /\ row.pid
            /\ Goto(t, <<[At("stopVerify", s) EXCEPT !.known = Checkable(s)]>> \o frames)
            /\ UNCHANGED <<rowVars, procs, processes, stopping>>
         \/ /\ p = None /\ ~(row.adopted /\ row.pid)
            /\ IF row.waitingOn \/ row.queued
               THEN SetStatus(s, [status |-> "stopped"]) ELSE UNCHANGED rowVars
            /\ Goto(t, frames)
            /\ UNCHANGED <<procs, processes, stopping>>

\* restart, up to its first await: the launch and the dependents come after the stop.
RestartThen(t, s, frames, seen) == StopThen(t, s, <<At("relaunch", s)>> \o frames, seen)

StopUnchanged == UNCHANGED <<specVars, gate, currentLaunch, finishing, unseen, changes, leftVars>>

-----------------------------------------------------------------------------
(***************************************************************************)
(* What is called from outside: a task of its own each, begun when nothing *)
(* is ready to go on.                                                      *)
(***************************************************************************)
Call(t, s, method) ==
  /\ Quiet /\ IsIdle(t) /\ calls < MaxCalls /\ method \in Methods
  /\ calls' = calls + 1
  /\ lastCall' = [lastCall EXCEPT ![s] = method]

CallStart(t, s) ==
  /\ Call(t, s, "start") /\ s \in listed
  /\ Goto(t, <<StartFrame(s)>>)
  /\ UNCHANGED <<rowVars, specVars, procVars, awaitVars, watchVars, leftVars>>

CallStop(t, s) ==
  /\ Call(t, s, "stop")
  /\ StopThen(t, s, <<>>, watch)
  /\ StopUnchanged

CallRestart(t, s) ==
  /\ Call(t, s, "restart")
  /\ RestartThen(t, s, <<>>, watch)
  /\ StopUnchanged

CallRebind(t, s) ==
  /\ Call(t, s, "rebind") /\ s \in listed
  /\ \E ref \in Refs :
       StopThen(t, s, <<[At("rebound", s) EXCEPT !.ref = ref, !.flag = procs[s] # None]>>, watch)
  /\ StopUnchanged

\* update, with a stack edited in place: every running service has its watcher
\* made anew, whatever the edit was.
Rewatched == [s \in Services |-> IF procs'[s] # None THEN Unwatched(watch, s)[s] ELSE watch[s]]

CallEdit(t, s) ==
  /\ Call(t, s, "edit")
  /\ listed' = listed \cup {s}
  /\ UNCHANGED <<rowVars, bindings, procVars, awaitVars, unseen, changes, leftVars, stacks>>
  /\ watch' = Rewatched

\* A service no longer listed is stopped, without being waited for, and forgotten.
CallRemove(t, s) ==
  /\ Call(t, s, "remove") /\ s \in listed
  /\ listed' = listed \ {s}
  /\ Show([runtimes EXCEPT ![s] = FreshRow])
  /\ LET p == procs[s]
     IN  IF p = None THEN UNCHANGED <<procs, processes, stopping, stacks>>
         ELSE /\ procs' = [procs EXCEPT ![s] = None]
              /\ processes' = [processes EXCEPT ![p].phase = "killed"]
              /\ stopping' = [stopping EXCEPT ![s] = p]
              /\ Goto(t, <<[At("stopWait", s) EXCEPT !.proc = p]>>)
  /\ watch' = [Rewatched EXCEPT ![s] = IF procs[s] # None THEN Unwatched(watch, s)[s] ELSE @]
  /\ UNCHANGED <<bindings, gate, currentLaunch, finishing, unseen, changes, leftVars>>

(***************************************************************************)
(* Code changes.                                                           *)
(***************************************************************************)
\* The watcher of the running process: a change waits out a debounce, or behind
\* the restart an earlier change led to.
FileChanged(s) ==
  /\ Quiet /\ changes < MaxChanges /\ s \in Watched \cap listed /\ procs[s] # None
  /\ changes' = changes + 1
  /\ unseen' = [unseen EXCEPT ![s] = TRUE]
  /\ watch' = [watch EXCEPT ![s] = IF @.restarting THEN [@ EXCEPT !.queued = TRUE]
                                                  ELSE [@ EXCEPT !.timer = TRUE]]
  /\ UNCHANGED <<rowVars, specVars, procVars, awaitVars, leftVars, stacks, userVars>>

\* restartForChange, when the debounce is over.
ChangeDue(t, s) ==
  /\ Quiet /\ IsIdle(t) /\ watch[s].timer
  /\ LET fired == [watch EXCEPT ![s].timer = FALSE]
     IN  IF s \in Watched \cap listed /\ procs[s] # None
         THEN RestartThen(t, s, <<At("changed", s)>>, [fired EXCEPT ![s].restarting = TRUE])
         ELSE watch' = fired /\ UNCHANGED <<rowVars, procs, processes, stopping, stacks>>
  /\ StopUnchanged /\ UNCHANGED userVars

-----------------------------------------------------------------------------
(***************************************************************************)
(* start: the dependencies, in order.  Those satisfied are passed over;    *)
(* an adopted one is asked about first; any other is started and awaited.  *)
(***************************************************************************)
\* The positions of an order that the stack file still lists, and the next of some.
ListedOf(order) == {i \in DOMAIN order : order[i] \in listed}
IsNext(i, todo) == i \in todo /\ \A j \in todo : i <= j

WaitFor(t, s, todo, rows) ==
  /\ Len(stacks[t]) < MaxDepth
  /\ Show(Patched(rows, s, [status |-> "starting", waitingOn |-> TRUE]))
  /\ \E i \in todo :
       LET d == DepsOf[s][i]
       IN  /\ IsNext(i, todo)
           /\ Goto(t, (IF d \in listed THEN <<StartFrame(d)>> ELSE <<>>)
                      \o <<[At("dependency", s) EXCEPT !.todo = todo, !.flag = d \in Tasks \cap listed]>>
                      \o Under(t))

StartOn(t, s, todo, rows) ==
  LET Needs(i) == rows[DepsOf[s][i]].adopted \/ ~Satisfied(rows, DepsOf[s][i])
  IN  \/ /\ \A i \in todo : ~Needs(i)
         /\ Show(rows)
         /\ Becomes(t, LaunchFrame(s, FALSE))
      \/ \E i \in todo :
           LET d == DepsOf[s][i]
               rest == {j \in todo : j >= i}
           IN  /\ IsNext(i, {j \in todo : Needs(j)})
               /\ \/ /\ rows[d].adopted
                     /\ Show(rows)
                     /\ Becomes(t, [At("verifyDep", s) EXCEPT !.todo = rest, !.known = Checkable(d)])
                  \/ ~rows[d].adopted /\ WaitFor(t, s, rest, rows)

\* Its port is claimed by a row of its own that is neither stopped nor failed.
AlreadyReady(s) == s \in Ported /\ runtimes[s].status = "ready" /\ runtimes[s].port
AlreadyRunning(s) ==
  s \in Ported /\ runtimes[s].status \notin {"stopped", "failed"} /\ runtimes[s].port

Settle(t) ==
  /\ Waits(t, "settle") /\ ~StopAwaited(Top(t).proc)
  /\ LET s == Top(t).svc
     IN  \/ /\ AlreadyRunning(s)
            /\ Returns(t) /\ UNCHANGED rowVars
         \/ /\ s \in Tasks /\ finishing[s] # None
            /\ Becomes(t, [At("finishing", s) EXCEPT !.proc = finishing[s]])
            /\ UNCHANGED rowVars
         \/ /\ ~AlreadyRunning(s) /\ ~(s \in Tasks /\ finishing[s] # None)
            /\ StartOn(t, s, ListedOf(DepsOf[s]), runtimes)
  /\ UNCHANGED <<specVars, procVars, awaitVars, watchVars, leftVars, userVars>>

VerifyDep(t) ==
  /\ Awaited(t, "verifyDep")
  /\ LET s == Top(t).svc
         todo == Top(t).todo
     IN  \E i \in todo :
           LET d == DepsOf[s][i]
               rows == IF Lost(d, Top(t).known) THEN Patched(runtimes, d, ReleasedRow) ELSE runtimes
           IN  /\ IsNext(i, todo)
               /\ IF Satisfied(rows, d) THEN StartOn(t, s, todo \ {i}, rows)
                  ELSE WaitFor(t, s, todo, rows)
  /\ UNCHANGED <<specVars, procVars, awaitVars, watchVars, leftVars, userVars>>

\* The dependency's start has returned.  A stop meanwhile has called this one off.
DependencyBack(t) ==
  /\ Waits(t, "dependency")
  /\ LET s == Top(t).svc
         todo == Top(t).todo
     IN  \/ /\ runtimes[s].status # "starting"
            /\ Returns(t) /\ UNCHANGED rowVars
         \/ /\ runtimes[s].status = "starting"
            /\ \E i \in todo :
                 /\ IsNext(i, todo)
                 /\ IF Top(t).flag /\ ~Satisfied(runtimes, DepsOf[s][i])
                    THEN SetStatus(s, Failed) /\ Returns(t)
                    ELSE StartOn(t, s, todo \ {i}, runtimes)
  /\ UNCHANGED <<specVars, procVars, awaitVars, watchVars, leftVars, userVars>>

\* A second start of a running task waits for its run to end.
RunEnded(t) ==
  /\ Waits(t, "finishing") /\ processes[Top(t).proc].phase = "none"
  /\ Returns(t)
  /\ UNCHANGED <<rowVars, specVars, procVars, awaitVars, watchVars, leftVars, userVars>>

-----------------------------------------------------------------------------
(***************************************************************************)
(* launch.                                                                 *)
(***************************************************************************)
\* claimRunning: a leftover is taken over rather than started a second time.
Claim(t) ==
  /\ Awaited(t, "claim")
  /\ LET s == Top(t).svc
     IN  IF leftovers[s] = "up"
         THEN Adopts(s, "ready") /\ Returns(t)
         ELSE /\ Becomes(t, [Top(t) EXCEPT !.at = "plan"])
              /\ UNCHANGED <<rowVars, adoptions>>
  /\ UNCHANGED <<specVars, procVars, awaitVars, watchVars, polling, leftovers, struck, userVars>>

\* The local config is projected, or cannot be; nothing is asked again after it.
Plan(t) ==
  /\ Awaited(t, "plan")
  /\ LET s == Top(t).svc
     IN  \/ /\ SetStatus(s, Failed) /\ Returns(t)
         \/ /\ SetStatus(s, [status |-> "starting", waitingOn |-> FALSE, adopted |-> FALSE,
                             ranRef |-> None, port |-> s \in Ported])
            /\ Becomes(t, [Top(t) EXCEPT !.at = "mirror"])
  /\ UNCHANGED <<specVars, procVars, awaitVars, watchVars, leftVars, userVars>>

\* Stopped, restarted or rebound while that ran - that call owns it now.
StillStarting(rows, s) == rows[s].status = "starting"
StillOurs(rows, s) == rows[s].status = "starting" /\ procs[s] = None

Mirror(t) ==
  /\ Awaited(t, "mirror")
  /\ IF StillOurs(runtimes, Top(t).svc) THEN Becomes(t, [Top(t) EXCEPT !.at = "env"]) ELSE Returns(t)
  /\ UNCHANGED <<rowVars, specVars, procVars, awaitVars, watchVars, leftVars, userVars>>

\* Nothing is awaited between the last look and the spawn.
Spawn(t, s, p, rows) ==
  /\ procs' = [procs EXCEPT ![s] = p]
  /\ processes' = [processes EXCEPT ![p] = [NoProcess EXCEPT !.phase = "live", !.svc = s, !.ref = Top(t).ref]]
  /\ Show(Patched(rows, s, [pid |-> TRUE]))
  /\ finishing' = IF s \in Tasks THEN [finishing EXCEPT ![s] = p] ELSE finishing
  /\ watch' = Unwatched(watch, s)
  /\ unseen' = [unseen EXCEPT ![s] = FALSE]
  /\ UNCHANGED changes
  /\ Becomes(t, [Top(t) EXCEPT !.at = IF s \in Tasks THEN "task" ELSE "boot", !.proc = p])

AsksPastTheLimit(p) == gate' = Gate!Granted(gate, p)
AsksForTurn(p) == gate' = Gate!Asked(gate, p)

\* The release of a launch's slot: its process's handlers call it, and so does its wait.
KeepsSlot(p) == UNCHANGED gate
GivesBack(p) == gate' = Gate!Released(gate, p)

\* The shell's environment has come.  A heavy launch asks the gate for its turn.
Env(t) ==
  /\ Awaited(t, "env")
  /\ LET s == Top(t).svc
     IN  \/ /\ ~StillOurs(runtimes, s)
            /\ Returns(t) /\ UNCHANGED <<rowVars, procVars, currentLaunch, finishing, watchVars>>
         \/ /\ StillOurs(runtimes, s)   \* a machine value is missing
            /\ SetStatus(s, Failed) /\ Returns(t)
            /\ UNCHANGED <<procVars, currentLaunch, finishing, watchVars>>
         \/ /\ StillOurs(runtimes, s) /\ s \notin Heavy
            /\ Unused # {} /\ Spawn(t, s, NewProc, runtimes)
            /\ UNCHANGED <<gate, currentLaunch>>
         \/ /\ StillOurs(runtimes, s) /\ s \in Heavy
            /\ Unused # {}
            /\ currentLaunch' = [currentLaunch EXCEPT ![s] = NewProc]
            /\ AsksForTurn(NewProc)
            /\ Becomes(t, [Top(t) EXCEPT !.at = "gate", !.proc = NewProc])
            /\ IF Gate!Full(gate) THEN SetStatus(s, [queued |-> TRUE]) ELSE UNCHANGED rowVars
            /\ UNCHANGED <<procs, processes, finishing, watchVars>>
  /\ UNCHANGED <<specVars, stopping, leftVars, userVars>>

TurnCame(s) == Patched(runtimes, s, [queued |-> FALSE])

\* Its turn has come, unless a later launch or a stop has called it off.
Turn(t) ==
  /\ Waits(t, "gate") /\ Top(t).proc \in gate.held
  /\ LET s == Top(t).svc
         p == Top(t).proc
         rows == TurnCame(s)
     IN  IF currentLaunch[s] = p /\ StillOurs(rows, s)
         THEN Spawn(t, s, p, rows) /\ UNCHANGED gate
         ELSE /\ GivesBack(p)
              /\ Show(rows) /\ Returns(t)
              /\ UNCHANGED <<procs, processes, finishing, watchVars>>
  /\ UNCHANGED <<specVars, currentLaunch, stopping, leftVars, userVars>>

\* A launch that throws rejects the methods that wait for it, one after the other;
\* only restartForChange goes on, in its `finally`.
Rejects(t) ==
  LET outermost == stacks[t][Len(stacks[t])]
  IN  Goto(t, IF outermost.at = "changed" THEN <<outermost>> ELSE <<>>)

\* deps.spawn throws instead of reporting an error (an argument list too long).  A
\* heavy launch has its turn by then, and nothing gives its slot back.
SpawnThrows(t) ==
  /\ "throws" \in Methods /\ Busy(t)
  /\ LET s == Top(t).svc
         rows == IF s \in Heavy THEN TurnCame(s) ELSE runtimes
     IN  /\ IF s \in Heavy
            THEN Waits(t, "gate") /\ Top(t).proc \in gate.held /\ currentLaunch[s] = Top(t).proc
            ELSE Awaited(t, "env")
         /\ StillOurs(rows, s) /\ Show(rows)
  /\ Rejects(t)
  /\ UNCHANGED <<specVars, procVars, awaitVars, watchVars, leftVars, userVars>>

\* The wait for readiness notices that its process is no longer the one running.
BootDied(t) ==
  /\ Awaited(t, "boot") /\ procs[Top(t).svc] # Top(t).proc
  /\ GivesBack(Top(t).proc)
  /\ Returns(t)
  /\ UNCHANGED <<rowVars, specVars, procs, processes, awaitVars, watchVars, leftVars, userVars>>

\* Its last attempt: the probe passes, or the allowance runs out.
Probe(t) ==
  /\ Awaited(t, "boot") /\ procs[Top(t).svc] = Top(t).proc
  /\ Becomes(t, [Top(t) EXCEPT !.at = "probe"])
  /\ UNCHANGED <<rowVars, specVars, procVars, awaitVars, watchVars, leftVars, userVars>>

\* A slow service is asked on, not awaited, unless its answer was a refusal.
Probed(t) ==
  /\ Awaited(t, "probe")
  /\ LET p == Top(t).proc
     IN  /\ GivesBack(p)
         /\ \/ SetStatus(Top(t).svc, [status |-> "ready"]) /\ UNCHANGED processes
            \/ /\ SetStatus(Top(t).svc, [status |-> "unready"])
               /\ \/ UNCHANGED processes
                  \/ /\ processes[p].phase # "none"
                     /\ processes' = [processes EXCEPT ![p].late = TRUE]
  /\ Returns(t)
  /\ UNCHANGED <<specVars, procs, awaitVars, watchVars, leftVars, userVars>>

\* A task's launch returns when its run has ended.
TaskEnded(t) ==
  /\ Waits(t, "task") /\ processes[Top(t).proc].phase = "none"
  /\ LET s == Top(t).svc
     IN  finishing' = IF finishing[s] = Top(t).proc THEN [finishing EXCEPT ![s] = None] ELSE finishing
  /\ Returns(t)
  /\ UNCHANGED <<rowVars, specVars, procVars, currentLaunch, stopping, watchVars, leftVars, userVars>>

-----------------------------------------------------------------------------
(***************************************************************************)
(* The processes.                                                          *)
(***************************************************************************)
\* onExit and onError: only the process the service is running speaks for it.
Exit(p) ==
  /\ Quiet /\ processes[p].phase # "none"
  /\ processes' = [processes EXCEPT ![p] = NoProcess]
  /\ GivesBack(p)
  /\ LET s == processes[p].svc
     IN  IF procs[s] # p THEN UNCHANGED <<rowVars, procs, watch>>
         ELSE /\ watch' = Unwatched(watch, s)
              /\ procs' = [procs EXCEPT ![s] = None]
              /\ \E status \in {IF s \in Tasks THEN "done" ELSE "stopped", "failed"} :
                   SetStatus(s, [status |-> status, pid |-> FALSE,
                     ranRef |-> IF status = "done" THEN processes[p].ref ELSE runtimes[s].ranRef])
  /\ UNCHANGED <<specVars, awaitVars, unseen, changes, leftVars, stacks, userVars>>

\* The late watch of a slow service: it answers at last, or is given up.
LateAnswer(p) ==
  /\ Quiet /\ processes[p].late
  /\ processes' = [processes EXCEPT ![p].late = FALSE]
  /\ LET s == processes[p].svc
     IN  IF procs[s] # p THEN UNCHANGED rowVars
         ELSE \E status \in {"ready", "unready"} : SetStatus(s, [status |-> status])
  /\ UNCHANGED <<specVars, procs, gate, awaitVars, watchVars, leftVars, stacks, userVars>>

-----------------------------------------------------------------------------
(***************************************************************************)
(* stop, restart and rebind, after their awaits.                           *)
(***************************************************************************)
\* The process has exited and let go of its ports, or the wait for it is over.
StopWaited(t) ==
  /\ Awaited(t, "stopWait")
  /\ LET s == Top(t).svc
     IN  stopping' = IF stopping[s] = Top(t).proc THEN [stopping EXCEPT ![s] = None] ELSE stopping
  /\ Returns(t)
  /\ UNCHANGED <<rowVars, specVars, procVars, currentLaunch, finishing, watchVars, leftVars, userVars>>

\* `ps` has answered: the leftover's tree is signalled, by its pid.
StopVerified(t) ==
  /\ Awaited(t, "stopVerify")
  /\ LET s == Top(t).svc
     IN  IF Lost(s, Top(t).known)
         THEN /\ SetStatus(s, ReleasedRow) /\ Returns(t)
              /\ UNCHANGED <<leftovers, struck>>
         ELSE /\ leftovers' = [leftovers EXCEPT ![s] = IF @ = "up" THEN "gone" ELSE @]
              /\ struck' = (struck \/ leftovers[s] = "reused")
              /\ Becomes(t, [Top(t) EXCEPT !.at = "stopLeftover"])
              /\ UNCHANGED rowVars
  /\ UNCHANGED <<specVars, procVars, awaitVars, watchVars, polling, adoptions, userVars>>

LeftoverStopped(t) ==
  /\ Awaited(t, "stopLeftover")
  /\ SetStatus(Top(t).svc, [status |-> "stopped", adopted |-> FALSE, pid |-> FALSE])
  /\ Returns(t)
  /\ UNCHANGED <<specVars, procVars, awaitVars, watchVars, leftVars, userVars>>

\* Launched fresh, never adopted: what was just stopped may still be going away.
Relaunch(t) ==
  /\ Waits(t, "relaunch")
  /\ LET s == Top(t).svc
     IN  IF s \in listed
         THEN Goto(t, <<LaunchFrame(s, TRUE), [At("followers", s) EXCEPT !.todo = DOMAIN Followers[s]]>> \o Under(t))
         ELSE Returns(t)
  /\ UNCHANGED <<rowVars, specVars, procVars, awaitVars, watchVars, leftVars, userVars>>

RestartFollowers(t) ==
  /\ Waits(t, "followers")
  /\ LET order == Followers[Top(t).svc]
         todo == IF Top(t).svc \in listed THEN Top(t).todo \cap ListedOf(order) ELSE {}
     IN  \/ /\ todo = {}
            /\ Returns(t) /\ UNCHANGED <<rowVars, procs, processes, stopping, watch>>
         \/ \E i \in todo :
              /\ IsNext(i, todo)
              /\ RestartThen(t, order[i], <<[Top(t) EXCEPT !.todo = todo \ {i}]>> \o Under(t), watch)
  /\ StopUnchanged /\ UNCHANGED userVars

ReboundTooLate(t) ==
  /\ Waits(t, "rebound")
  /\ LET s == Top(t).svc
     IN  /\ bindings' = [bindings EXCEPT ![s] = Top(t).ref]
         /\ Becomes(t, IF Top(t).flag THEN LaunchFrame(s, TRUE) ELSE At("reboundMirror", s))
  /\ UNCHANGED <<rowVars, listed, procVars, awaitVars, watchVars, leftVars, userVars>>

\* A service that was not running stays not running.
Rebound(t) ==
  /\ Waits(t, "rebound")
  /\ LET s == Top(t).svc
     IN  /\ bindings' = [bindings EXCEPT ![s] = Top(t).ref]
         /\ Becomes(t, IF Top(t).flag THEN [LaunchFrame(s, TRUE) EXCEPT !.ref = Top(t).ref]
                       ELSE At("reboundMirror", s))
  /\ UNCHANGED <<rowVars, listed, procVars, awaitVars, watchVars, leftVars, userVars>>

ReboundMirrored(t) ==
  /\ Awaited(t, "reboundMirror")
  /\ Returns(t)
  /\ UNCHANGED <<rowVars, specVars, procVars, awaitVars, watchVars, leftVars, userVars>>

ChangedForgets(t) ==
  /\ Waits(t, "changed")
  /\ watch' = [watch EXCEPT ![Top(t).svc] = [timer |-> @.timer, restarting |-> FALSE, queued |-> FALSE]]
  /\ Returns(t)
  /\ UNCHANGED <<rowVars, specVars, procVars, awaitVars, unseen, changes, leftVars, userVars>>

\* The restart a change led to is over; one queued behind it is scheduled.
Changed(t) ==
  /\ Waits(t, "changed")
  /\ LET s == Top(t).svc
     IN  watch' = [watch EXCEPT ![s] = [timer |-> @.timer \/ (@.queued /\ procs[s] # None),
                                        restarting |-> FALSE, queued |-> FALSE]]
  /\ Returns(t)
  /\ UNCHANGED <<rowVars, specVars, procVars, awaitVars, unseen, changes, leftVars, userVars>>

-----------------------------------------------------------------------------
(***************************************************************************)
(* Leftovers.                                                              *)
(***************************************************************************)
\* adopt: a leftover is taken if nothing of ours runs or is on its way up.
Adopt(s) ==
  /\ Quiet /\ calls < MaxCalls /\ "adopt" \in Methods
  /\ s \in listed /\ leftovers[s] = "up" /\ procs[s] = None /\ runtimes[s].status = "stopped"
  /\ \E status \in {"ready", "unready"} : Adopts(s, status)
  /\ calls' = calls + 1
  /\ UNCHANGED <<specVars, procVars, awaitVars, watchVars, polling, leftovers, struck, stacks, lastCall>>

\* pollAdopted: the tick asks `ps` about an adopted pid, and settles what it says.
PollAsk(s) ==
  /\ Quiet /\ polling[s] = 0 /\ Checkable(s) # 0
  /\ polling' = [polling EXCEPT ![s] = Checkable(s)]
  /\ UNCHANGED <<rowVars, specVars, procVars, awaitVars, watchVars, adoptions, leftovers, struck, stacks, userVars>>

PollAnswer(s) ==
  /\ Quiet /\ polling[s] # 0
  /\ polling' = [polling EXCEPT ![s] = 0]
  /\ IF Lost(s, polling[s]) THEN SetStatus(s, ReleasedRow) ELSE UNCHANGED rowVars
  /\ UNCHANGED <<specVars, procVars, awaitVars, watchVars, adoptions, leftovers, struck, stacks, userVars>>

\* The environment: a leftover exits, and its pid goes to a stranger.
LeftoverExits(s) ==
  /\ Quiet
  /\ \/ leftovers[s] = "up" /\ leftovers' = [leftovers EXCEPT ![s] = "gone"]
     \/ leftovers[s] = "gone" /\ leftovers' = [leftovers EXCEPT ![s] = "reused"]
  /\ UNCHANGED <<rowVars, specVars, procVars, awaitVars, watchVars, polling, adoptions, struck, stacks, userVars>>

-----------------------------------------------------------------------------
Init ==
  /\ runtimes = [s \in Services |-> FreshRow]
  /\ listed = Services
  /\ bindings = [s \in Services |-> CHOOSE ref \in Refs : TRUE]
  /\ watch = [s \in Services |-> [timer |-> FALSE, restarting |-> FALSE, queued |-> FALSE]]
  /\ unseen = [s \in Services |-> FALSE]
  /\ procs = [s \in Services |-> None]
  /\ processes = [p \in Procs |-> NoProcess]
  /\ currentLaunch = [s \in Services |-> None]
  /\ finishing = [s \in Services |-> None]
  /\ stopping = [s \in Services |-> None]
  /\ gate = Gate!EmptyGate
  /\ adoptedAs = [s \in Services |-> 0]
  /\ polling = [s \in Services |-> 0]
  /\ adoptions = 0
  /\ leftovers = [s \in Services |-> IF s \in Leftovers THEN "up" ELSE "never"]
  /\ struck = FALSE
  /\ stacks = [t \in Threads |-> <<>>]
  /\ lastCall = [s \in Services |-> None]
  /\ calls = 0
  /\ changes = 0

Continue(t) ==
  \/ Settle(t) \/ DependencyBack(t) \/ RunEnded(t) \/ Turn(t) \/ TaskEnded(t)
  \/ Relaunch(t) \/ RestartFollowers(t) \/ Rebound(t) \/ Changed(t)

Answer(t) ==
  \/ VerifyDep(t) \/ Claim(t) \/ Plan(t) \/ Mirror(t) \/ Env(t)
  \/ BootDied(t) \/ Probe(t) \/ Probed(t)
  \/ StopWaited(t) \/ StopVerified(t) \/ LeftoverStopped(t) \/ ReboundMirrored(t)

Calls(t) ==
  \E s \in Services : \/ CallStart(t, s) \/ CallStop(t, s) \/ CallRestart(t, s)
                      \/ CallRebind(t, s) \/ CallEdit(t, s) \/ CallRemove(t, s) \/ ChangeDue(t, s)

Next ==
  \/ \E t \in Threads : Continue(t) \/ Answer(t) \/ Calls(t) \/ SpawnThrows(t)
  \/ \E p \in Procs : Exit(p) \/ LateAnswer(p)
  \/ \E s \in Services : Adopt(s) \/ PollAsk(s) \/ PollAnswer(s) \/ LeftoverExits(s) \/ FileChanged(s)

Spec == Init /\ [][Next]_vars

(***************************************************************************)
(* What the host owes: an await ends - a lookup, a copy, a probe and a     *)
(* stop have allowances, and a task runs to its end - the adoption poll    *)
(* and the debounce are timers.  A service need never exit.                *)
(***************************************************************************)
Fairness ==
  /\ \A t \in Threads : WF_vars(Continue(t)) /\ WF_vars(Answer(t))
  /\ \A p \in Procs : WF_vars(Exit(p) /\ processes[p].svc \in Tasks)
  /\ \A s \in Services : /\ WF_vars(PollAsk(s)) /\ WF_vars(PollAnswer(s))
                         /\ WF_vars(\E t \in Threads : ChangeDue(t, s))

LiveSpec == Spec /\ Fairness

-----------------------------------------------------------------------------
TypeOK ==
  /\ listed \subseteq Services
  /\ watch \in [Services -> [timer : BOOLEAN, restarting : BOOLEAN, queued : BOOLEAN]]
  /\ unseen \in [Services -> BOOLEAN]
  /\ runtimes \in [Services -> Runtime] /\ bindings \in [Services -> Refs]
  /\ procs \in [Services -> Procs \cup {None}] /\ processes \in [Procs -> Process]
  /\ currentLaunch \in [Services -> Procs \cup {None}]
  /\ finishing \in [Services -> Procs \cup {None}] /\ stopping \in [Services -> Procs \cup {None}]
  /\ Gate!TypeOK
  /\ \A s \in Services : (adoptedAs[s] # 0) = runtimes[s].adopted
  /\ adoptedAs \in [Services -> 0..adoptions] /\ polling \in [Services -> 0..adoptions]
  /\ adoptions \in 0..MaxCalls /\ struck \in BOOLEAN
  /\ leftovers \in [Services -> {"never", "up", "gone", "reused"}]
  /\ \A t \in Threads : stacks[t] \in Seq(Frame) /\ Len(stacks[t]) <= MaxDepth + 1
  /\ lastCall \in [Services -> Methods \cup {None}] /\ calls \in 0..MaxCalls /\ changes \in 0..MaxChanges

(***************************************************************************)
(* However calls overlap, a service has at most one process that was not   *)
(* told to stop, and it is the one a stop would reach.                     *)
(***************************************************************************)
OneProcess ==
  \A p \in Procs : processes[p].phase = "live" => procs[processes[p].svc] = p

(***************************************************************************)
(* A slot of the gate is held by a launch on its way up, and by nothing    *)
(* else: one that is called off, fails, exits or is up has given it back   *)
(* - unless a spawn throws.                                                *)
(***************************************************************************)
SlotsInUse ==
  \A p \in gate.held :
    \E f \in InFlight : f.proc = p /\ f.at \in {"gate", "boot", "probe", "task"}

(***************************************************************************)
(* The gate counts the slots that are out, and never lets out more than    *)
(* there are, however many of the ways a start can end give one back.      *)
(***************************************************************************)
SlotsCounted == gate.running = Cardinality(gate.held) /\ gate.running <= Limit

(***************************************************************************)
(* No start waits in line while a slot is free.                            *)
(***************************************************************************)
NoIdleSlot == Gate!NoIdleSlot

(***************************************************************************)
(* The supervisor uses the gate as the gate expects: a launch asks once,   *)
(* and nothing but asking and releasing moves the gate.                    *)
(***************************************************************************)
GateSpec == Gate!Spec

(***************************************************************************)
(* Every call returns: none waits for a turn, a dependency, a task or a    *)
(* stop that never comes.                                                  *)
(***************************************************************************)
CallsReturn == \A t \in Threads : Busy(t) ~> ~Busy(t)

(***************************************************************************)
(* When calls do not overlap and every service listens on a port: a row    *)
(* whose process runs never reads stopped or failed, ...                   *)
(***************************************************************************)
RunningShows ==
  \A s \in listed : procs[s] # None => runtimes[s].status \in {"starting", "ready", "unready"}

(***************************************************************************)
(* ... and one that reads starting has a start that will change it.        *)
(***************************************************************************)
StartingIsPursued ==
  \A s \in Services : (\A f \in InFlight : f.svc # s) => runtimes[s].status # "starting"

(***************************************************************************)
(* When calls do not overlap, a process runs in the checkout its service   *)
(* is bound to.                                                            *)
(***************************************************************************)
RunsWhereBound ==
  \A s \in Services : procs[s] # None => processes[procs[s]].ref = bindings[s]

(***************************************************************************)
(* A change of a watched service's code is run, unless the service goes:   *)
(* also one that lands while the restart of an earlier one is under way.   *)
(***************************************************************************)
ChangeSeen == \A s \in Services : unseen[s] ~> (~unseen[s] \/ procs[s] = None)

(***************************************************************************)
(* A row does not stay ready on a leftover that has gone, nor on a         *)
(* stranger that has its pid.                                              *)
(***************************************************************************)
AdoptedSettles ==
  \A s \in Services :
    LET stale == runtimes[s].status = "ready" /\ runtimes[s].adopted /\ leftovers[s] # "up"
    IN  stale ~> ~stale

(***************************************************************************)
(* supervisor.ts:622 - when an adopted pid is no longer what was adopted,  *)
(* nothing is signalled: whatever holds it now is not ours.                *)
(***************************************************************************)
OursOnly == ~struck
=============================================================================
